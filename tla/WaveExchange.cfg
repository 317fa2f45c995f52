CONSTANTS
    User = {u1, u2}
    Context = {map}
    MaxWaves = 3
    Request = {p1, p2}
    NoUser = NoUser
    NoRequest = NoRequest
SPECIFICATION FairSpec
INVARIANTS
    TypeOK
    MatchIsMutual
    ReplayIsDurable
PROPERTY CommandsFinish
