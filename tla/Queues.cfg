SPECIFICATION Spec
CONSTANTS
    Heads = {h1, h2}
    Elements = {a, b, c, d}
    Null = null
    Poison = poison
    Kinds = {"SLIST", "LIST", "SIMPLEQ", "STAILQ", "TAILQ", "CIRCLEQ"}
INVARIANTS TypeOK DebugChecksAreExact FoundBackward Represented LoopComesToAll
