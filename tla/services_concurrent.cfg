CONSTANTS
    Activators = {u, c1, c2}
    UserShells = {}
    User = u
    Modes = {"dev"}
    NoPid = NoPid
    NoStart = NoStart
    NoState = NoState
    Names = {web}
    Stores = {v1}
    v1 = v1
    v2 = v2
    web = web
    db = db
    Config <- MCConfigOne
    Kinds = {"restart"}
    Serial = FALSE
    Prompt = TRUE
    Crashes = FALSE
    DownFails = FALSE
    Nested = {}
    HookEdits = FALSE
    NoStore = NoStore
SPECIFICATION Spec
INVARIANT OneInstance
