CONSTANTS
    Activators = {p1, p2}
    UserShells = {s1}
    Stores = {v1}
    Modes = {dev, run}
    Killable = {p1}
    Reusable = {p1, s1}
    Detachable = {p2, s1}
    RemonitorLimit = 2
    NoPid = NoPid
    NoStart = NoStart
    NoState = NoState
SPECIFICATION Spec
INVARIANTS ExecutiveOwnsState ModesAgree GuardNeverTrips
SYMMETRY ModeSymmetry
