CONSTANTS
    license_key = license_key
    ssid_default = ssid_default
    ssid = ssid
    ddns = ddns
    status = status
    vlan2ports = vlan2ports
    ssh_rule = ssh_rule
    turbonat = turbonat
    factory = factory
    second = second
    user = user
    Names = {license_key, ssid_default, ssid, ddns, status, vlan2ports, ssh_rule, turbonat}
    Values = {factory, second, user}
    Empty = Empty
    Unset = Unset
    Table <- OneOfEach
    DefaultName <- SsidDefault
    Suffixed = TRUE
    Specials <- SshAndTurbonat
    Rewritten <- Closing
    proc1 = proc1
    proc2 = proc2
    Procs = {proc1, proc2}
    Sets <- SomeSets
    FSets <- SomeFSets
    Rules <- SomeRules
    None = None
    MaxCalls = 4
    MaxReboots = 2
SYMMETRY Symmetry
SPECIFICATION Spec
INVARIANTS TypeOK BootExact ResetComplete RestoreComplete
PROPERTIES ProtectedKept
CHECK_DEADLOCK FALSE
