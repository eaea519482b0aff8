\* One process at a time, with crashes.
SPECIFICATION FairSpec
CONSTANTS
    Handlers = {h1}
    Kinds = {"create", "commit", "pull"}
    Files = {etc, log}
    Contents = {v1}
    Absent = absent
    Similar <- SameContents
    NoNotify = {log}
    AlwaysNotified = FALSE
    MaxEdits = 2
    MaxCrashes = 2
INVARIANTS TypeOK SerialInv
PROPERTIES KeepsAuditLog CommittedIsRecorded NoChangesIsTrue Converges
