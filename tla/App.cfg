CONSTANTS
    Message = {m1}
    Slot = {s1, s2}
    NoMessage = NoMessage
    MaxRows = 2
    MaxRetries = 2
    Pin = {s1, s2}
    NoPin = NoPin
    Friend = {}
    MaxStray = 1
    Guest = {s1, s2}
    Request = {p1, p2}
    Nobody = Nobody
    Capacity = 1
    OpenEnded = FALSE
    MaxFailures = 1
SYMMETRY Symmetry
SPECIFICATION SumSpec
INVARIANTS
    TypesOK
    
    PendingIsTracked
PROPERTIES
    SheetIsRight
    AttendanceIsFair
