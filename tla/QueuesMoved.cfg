SPECIFICATION Spec
CONSTANTS
    Heads = {h1, h2}
    Elements = {a, b}
    Null = null
    Poison = poison
    Kinds = {"LIST"}
INVARIANT AnyElementMayBeUsed
