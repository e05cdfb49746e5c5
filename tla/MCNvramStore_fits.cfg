CONSTANTS
    n1 = n1
    n2 = n2
    n3 = n3
    short = short
    long = long
    Names = {n1, n2}
    Values = {short, long}
    NameLen <- MCNameLen
    ValLen <- MCValLen
    BucketOf <- MCBucketOf
    NBuckets = 2
    HEADER_SIZE = 1
    NVRAM_SPACE = 13
    Procs = {p}
    Undefined = Undefined
SPECIFICATION Spec
INVARIANTS TypeOK TableSound GetallComplete PointerStable
PROPERTIES MapSpec StepsExact
