CONSTANTS
    Image = {i1, i2, i3}
    Empty = Empty
    Partial = Partial
    Blank = Blank
    Torn = Torn
    HasBackup = TRUE
    MaxErrs = 1
    MaxCrashes = 0
SPECIFICATION Spec
PROPERTY AckedCommitServed
