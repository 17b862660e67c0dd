SPECIFICATION Spec
CONSTANTS
    None = None
    Keys = {"ControlLeft", "SuperLeft", "Space"}
    Terminals = {}
    Fuel = 4
    Ids = {1}
    PendingLimit = 1
INVARIANT NoStuckSpace
CHECK_DEADLOCK FALSE
