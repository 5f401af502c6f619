CONSTANTS
    Activators = {u, c1, c2}
    UserShells = {}
    User = u
    Modes = {"dev"}
    NoPid = NoPid
    NoStart = NoStart
    NoState = NoState
    Names = {web, db}
    Stores = {v1, v2}
    v1 = v1
    v2 = v2
    web = web
    db = db
    Config <- MCConfig
    Kinds = {"start", "restart", "stop", "activate"}
    Serial = TRUE
    Prompt = TRUE
    Crashes = TRUE
    DownFails = TRUE
    Nested = {}
    HookEdits = FALSE
    NoStore = NoStore
SPECIFICATION Spec
INVARIANTS OneInstance CurrentIsListening
PROPERTIES ServicesOfOwnBuild RunningServicesKept
