CONSTANTS
    Mine = {m1, m2}
    Theirs = {t1}
    NoSocket = NoSocket
    MaxMessages = 2
    Person = {u1, u2}
    NoUser = NoUser
    Request = {p1, p2}
    MaxRows = 2
SPECIFICATION SumSpec
SYMMETRY Symmetry
INVARIANTS
    TypesOK
    EvictedStayOut
    RequestSaysOneThing
PROPERTIES
    FriendsConsent
