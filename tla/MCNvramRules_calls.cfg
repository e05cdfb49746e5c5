CONSTANTS
    proc1 = proc1
    proc2 = proc2
    Procs = {proc1, proc2}
    Rules <- MCRules
    Initial <- TwoRules
    Calls <- SomeCalls
    RuleLen = 1
    EZPLIB_BUF_LEN = 7
    Junk <- SomeRule
    NoCall = NoCall
SPECIFICATION Spec
INVARIANTS TypeOK
PROPERTIES CallExact CallsReturn
