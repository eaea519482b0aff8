\* One coroutine asks one question.
SPECIFICATION Spec
CONSTANTS
    Coroutines = {c}
    Main = main
    Questions = {q1}
    Ids = {i1}
    Delays <- TwoDelays
    TTLs = {0, 1}
    NoRecord = none
    MaxServers = 1
    MaxQueries = 1
PROPERTIES AnsweredIsNotWanted
