CONSTANTS
    NumWans = 2
    Type <- OneBackup
    Backup <- FirstToSecond
    MaxCount = 3
    Wired = {0}
    Detecting = {}
    Threshold = 1
    ifup1 = ifup1
    ifup2 = ifup2
    Ifups = {ifup1, ifup2}
    None = None
    Budgets <- OneRequest
SPECIFICATION Spec
PROPERTIES ForceupConnects
CHECK_DEADLOCK FALSE
