\* Three administrators create the same repository at once.
SPECIFICATION Spec
CONSTANTS
    Handlers = {h1, h2, h3}
    Kinds = {"create"}
    Files = {etc}
    Contents = {v1, v2}
    Absent = absent
    Similar <- SameContents
    NoNotify = {}
    AlwaysNotified = FALSE
    MaxEdits = 1
    MaxCrashes = 0
INVARIANTS RacingCreatesPublish
SYMMETRY Symmetry
