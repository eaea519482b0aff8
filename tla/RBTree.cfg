\* Eleven keys: the smallest trees in which the lack of a black moves up and then
\* meets a red sibling.  Loops over trees of six of them.
SPECIFICATION FairBounded
CONSTANTS
    Keys = {1, 2, 3, 4, 5, 6, 7, 8, 9, 10, 11}
    LoopKeys = {1, 2, 3, 4, 5, 6}
    Null = null
INVARIANTS SearchTree RedBlack QueriesAnswer
    ComesToAllThatStay
PROPERTIES IsOrderedSet OperationsReturn
    GoesOneWay
