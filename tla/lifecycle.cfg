CONSTANTS
    Activators = {p1, p2, p3}
    UserShells = {s1}
    Stores = {v1, v2}
    Modes = {dev}
    Killable = {}
    Reusable = {}
    Detachable = {}
    RemonitorLimit = 2
    NoPid = NoPid
    NoStart = NoStart
    NoState = NoState
SPECIFICATION Spec
INVARIANTS TypeOK AttachmentsKept StartDirsPresent AttachedPidsWatched
SYMMETRY FullSymmetry
