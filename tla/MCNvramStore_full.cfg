CONSTANTS
    n1 = n1
    n2 = n2
    n3 = n3
    short = short
    long = long
    Names = {n1, n2, n3}
    Values = {short, long}
    NameLen <- MCNameLen
    ValLen <- MCValLen
    BucketOf <- MCBucketOf
    NBuckets = 2
    HEADER_SIZE = 1
    NVRAM_SPACE = 12
    Procs = {}
    Undefined = Undefined
SPECIFICATION Spec
INVARIANTS TableSound PartitionsAgree
PROPERTY NoForeignValue
