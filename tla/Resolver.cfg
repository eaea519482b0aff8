\* Two queries of one question: ids collide, replies are duplicated, a second
\* server may be added.
SPECIFICATION FairSpec
CONSTANTS
    Coroutines = {}
    Main = main
    Questions = {q1}
    Ids = {i1, i2}
    Delays <- ThreeDelays
    TTLs = {0, 1}
    NoRecord = none
    MaxServers = 2
    MaxQueries = 2
INVARIANTS SocketWhileWaiting AnsweredOnce
PROPERTIES OnlyFirstIsAsked LookupReturns
