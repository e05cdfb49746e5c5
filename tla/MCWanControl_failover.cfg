CONSTANTS
    NumWans = 2
    Type <- OneBackup
    Backup <- FirstToSecond
    MaxCount = 3
    Wired = {0}
    Detecting = {0}
    Threshold = 1
    ifup1 = ifup1
    ifup2 = ifup2
    Ifups = {ifup1, ifup2}
    None = None
    Budgets <- TwoFaultsOrRequest
SPECIFICATION Spec
INVARIANTS TypeOK
INVARIANTS AddressHasClient
PROPERTIES AlwaysOnConnects BackupTakesOver BackupRests DisconnectSticks PassEnds
CHECK_DEADLOCK FALSE
