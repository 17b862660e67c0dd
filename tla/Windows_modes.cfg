SPECIFICATION Spec
CONSTANTS
    Ids = {1, 2}
    None = None
    Screen = 4
    Tiny = 1
    MinGuest = 2
    MinView = 2
    Shadow = 1
    Fuel = 3
INVARIANT ModesAgree
INVARIANT LastInStep
PROPERTY Settles
CHECK_DEADLOCK FALSE
