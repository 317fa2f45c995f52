CONSTANTS
    Query = {q1, q2, filtered, wide}
    NoQuery = NoQuery
    TooLarge = {wide}
    OtherFilter = {filtered}
    Entity = {e1}
    Slot = {s1, s2}
    NoSlot = NoSlot
    MaxChanges = 1
    MaxGestures = 3
    MaxLosses = 1
SPECIFICATION Spec
INVARIANT BaselineIsExact
