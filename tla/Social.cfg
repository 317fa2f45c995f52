CONSTANTS
    User = {u1, u2}
    Request = {p1, p2}
    NoUser = NoUser
    Member = {1, 2, 3}
    Creator = {1}
    Key = {k1}
    Quarrel <- Quarrels
    Leaver = {1, 2}
    Phone = {n1}
    NoPhone = NoPhone
    MaxSubmissions = 2
    Shape = "rows"
    MaxCalls = 4
    MaxFailures = 1
    Price = {20}
    Cap = 1
    Target = 1
    Achievement = {1}
    Earner = {u1}
    MaxGifts = 2
    MaxDay = 2
SYMMETRY Symmetry
SPECIFICATION SumSpec
INVARIANTS
    TypesOK
    LikesAreKept
    BooksBalance
PROPERTIES
    GroupsAreKept
    
