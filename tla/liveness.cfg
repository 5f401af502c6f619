CONSTANTS
    Activators = {p1, p2, p3}
    UserShells = {}
    Stores = {v1, v2}
    Modes = {dev}
    Killable = {}
    Reusable = {}
    Detachable = {p1}
    RemonitorLimit = 2
    NoPid = NoPid
    NoStart = NoStart
    NoState = NoState
SPECIFICATION LiveSpecOneApart
PROPERTIES RetryEnds CleanedUpAtLast
