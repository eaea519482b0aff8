\* A commit overlaps the create of the repository.
SPECIFICATION Spec
CONSTANTS
    Handlers = {h1, h2}
    Kinds = {"create", "commit", "pull"}
    Files = {etc}
    Contents = {v1}
    Absent = absent
    Similar <- SameContents
    NoNotify = {}
    AlwaysNotified = FALSE
    MaxEdits = 0
    MaxCrashes = 0
INVARIANT CommittedMeansMaster
