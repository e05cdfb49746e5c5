CONSTANTS
    LastVersion = 2
    rel = rel
    rc = rc
    Suffixes = {rel, rc}
    NoSuffix = rel
    Files <- ReleasedFiles
    UpCommits = {2}
    DownCommits = {2}
    Off = Off
    LossInWindow = TRUE
    CommitInWindow = FALSE
    AnyRecovery = TRUE
SPECIFICATION Spec
INVARIANTS BackdoorClosed
