CONSTANTS
    Session = {s1, s2}
    Request = {p1, p2}
    Instance = {i1}
    NoSession = NoSession
    Duration = 1
    Stale = 2
    Batch = 1
SPECIFICATION FairSpec
INVARIANTS
    TypeOK
    BlockedSeeNothing
PROPERTIES
    EndIsFinal
    SharesEnd
