\* A create whose archive was cut short, then commits.
SPECIFICATION Spec
CONSTANTS
    Handlers = {h1}
    Kinds = {"create", "commit", "pull"}
    Files = {etc}
    Contents = {v1}
    Absent = absent
    Similar <- SameContents
    NoNotify = {}
    AlwaysNotified = FALSE
    MaxEdits = 0
    MaxCrashes = 0
PROPERTY NoChangesMeansRecorded
