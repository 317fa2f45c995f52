CONSTANTS
    Call = {c1, c2}
    NoCall = NoCall
    MaxTokens = 2
    MaxRestarts = 1
    Worker = {w1, w2}
    NoWorker = NoWorker
    MaxVersion = 2
    MaxFailures = 1
    Buyer = {b1, b2}
    Request = {p1, p2}
    NoBuyer = NoBuyer
    NoRequest = NoRequest
SPECIFICATION SumSpec
INVARIANTS
    TypesOK
    
    ExpiryIsSingle
    RivalAcceptsExclude
PROPERTIES
    BuyerAcceptsOnlyCounter
    AllEnd
