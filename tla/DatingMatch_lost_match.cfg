CONSTANTS
    User = {u1, u2}
    NoUser = NoUser
    Request = {p1, p2}
    MaxCalls = 4
    MaxFailures = 1
SPECIFICATION Spec
INVARIANT MutualIsMatched
