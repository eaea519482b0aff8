\* Two processes at a time, none killed.
SPECIFICATION Spec
CONSTANTS
    Handlers = {h1, h2}
    Kinds = {"create", "commit", "pull"}
    Files = {etc}
    Contents = {v1, v2}
    Absent = absent
    Similar <- SameContents
    NoNotify = {}
    AlwaysNotified = FALSE
    MaxEdits = 1
    MaxCrashes = 0
INVARIANTS NothingLeftBehind
SYMMETRY Symmetry
