CONSTANTS
    Buyer = {b1, b2}
    Request = {p1, p2}
    NoBuyer = NoBuyer
    NoRequest = NoRequest
SPECIFICATION Spec
INVARIANT OneBuyerPerSale
