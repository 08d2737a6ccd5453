CONSTANTS
    Flows = {f1, f2, f3}
    Handlers = {h1, h2, h3, h4, h5}
    Callbacks = {c1, c2}
    Connects = {"connect1", "connect2"}
    Settings <- MCSettings
SPECIFICATION FairSpec
INVARIANTS
    StoreKeepsUp
    ClearedStaysCleared
    CallbackDelivers
PROPERTIES
    AuthorizationEnds
CHECK_DEADLOCK FALSE
