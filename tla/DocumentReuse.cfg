SPECIFICATION Spec
CONSTANTS
    Sessions = {s1}
    Docs = {doc}
    Pure = {pure}
    Cached = {cached}
    Texts = {"a", "b"}
    Configs = {c1}
    TimeStep = 1
    RacyWindow = 0
    Replaceable = {doc}
    MaxTime = 30
    MaxReplaces = 30
    pure = pure
    cached = cached
    Uses <- MCUses
    None = None
CHECK_DEADLOCK FALSE
VIEW MCView
INVARIANT ProvenIsCurrent DocumentsAreCurrent UnchangedIsNotRead
