CONSTANTS
    Image = {i1, i2, i3}
    Empty = Empty
    Partial = Partial
    Blank = Blank
    Torn = Torn
    HasBackup = TRUE
    MaxErrs = 0
    MaxCrashes = 3
SPECIFICATION Spec
INVARIANTS CopiesRepaired DurableInv
PROPERTY DurableSpec
