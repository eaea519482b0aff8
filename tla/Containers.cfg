\* Five elements in the queue, seven keys in the splay tree.
SPECIFICATION FairContainers
CONSTANTS
    Elements = {a, b}
    Nil = nil
    MaxItems = 5
    Keys = {1, 2, 3, 4, 5, 6, 7}
    Null = null
    Node = node
INVARIANTS PossibleQueueStates
    StaysSorted
PROPERTIES NothingOverwritten IsFifo
    IsOrderedSet AnswersAsOrderedSet SplaysEnd
