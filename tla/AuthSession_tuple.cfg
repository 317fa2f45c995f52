CONSTANTS
    User = {u1}
    Token = {t1, t2}
    Request = {p1, p2}
    NoUser = NoUser
    NoToken = NoToken
    NoRequest = NoRequest
    MaxVersion = 1
    Shape = "tuple"
SPECIFICATION Spec
INVARIANT ClaimedRefreshIsServed
