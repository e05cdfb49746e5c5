CONSTANTS
    LastVersion = 2
    rel = rel
    rc = rc
    Suffixes = {rel, rc}
    NoSuffix = rel
    Files <- AllFiles
    UpCommits = {2}
    DownCommits = {2}
    Off = Off
    LossInWindow = FALSE
    CommitInWindow = FALSE
    AnyRecovery = FALSE
SPECIFICATION Spec
INVARIANTS TypeOK FormatMatches MigrateInv
