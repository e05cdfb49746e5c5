CONSTANTS
    Image = {i1, i2, i3}
    Empty = Empty
    Partial = Partial
    Blank = Blank
    Torn = Torn
    HasBackup = TRUE
    MaxErrs = 2
    MaxCrashes = 2
SPECIFICATION FairSpec
INVARIANT TypeOK
PROPERTIES LossNeedsTwoFaults DriverReturns
