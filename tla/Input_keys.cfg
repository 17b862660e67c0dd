SPECIFICATION Spec
CONSTANTS
    None = None
    Keys = {"ControlLeft", "SuperLeft", "ShiftLeft", "KeyT", "Space", "Equal"}
    Terminals = {1}
    Fuel = 5
    Ids = {1, 2}
    PendingLimit = 2
INVARIANT NoStuckKey
INVARIANT FocusAgrees
INVARIANT TextInOrder
CHECK_DEADLOCK FALSE
