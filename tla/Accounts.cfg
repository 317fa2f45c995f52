CONSTANTS
    User = {u1}
    Token = {t1, t2, t3}
    Request = {p1, p2}
    NoUser = NoUser
    NoToken = NoToken
    NoRequest = NoRequest
    MaxVersion = 1
    Shape = "rows"
    Worker = {w1, w2}
    Guesser = {g1, g2}
    MaxChallenges = 2
    Limit = 2
    Window = 2
    Cooldown = 1
    MaxGuesses = 1
    TTL = 2
    MaxClaims = 2
    Lease = 1
    Retry = 1
    Batch = 1
SPECIFICATION SumSpec
INVARIANTS
    TypesOK
    NoStaleSession
    OneLivePerFamily
    ClaimedRefreshIsServed
    GuessesBounded
    MailIsLeased
PROPERTIES
    AccountsSettle
