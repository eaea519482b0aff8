\* Vectors of six bytes, texts of three; base64 of four bytes, and of any five
\* characters; requests and replies that are longer than a pipe.
SPECIFICATION FairUtilities
CONSTANTS
    Null = null
    Wild = wild
    Letters = {1, 2}
    Delim = 2
    Patterns <- FewPatterns
    Substitutes <- FewSubstitutes
    Rooms <- FewRooms
    MaxText = 3
    MaxStrings = 2
    MaxBytes = 6
    MaxInput = 4
    MaxEncoded = 5
    MaxSize = 9
    Inputs <- FewInputs
    Sources <- FewSources
    Sizes <- FewSizes
    Requests = 3
    Replies = 3
    Capacity = 2
    Width = 8
INVARIANTS WellFormed QueriesFindAll
    WithinTarget RoundTrip OneTextEach
    StreamsInOrder
PROPERTIES DoesAsMeant ClientEndsOrWaits AllArrives
CHECK_DEADLOCK FALSE
