SPECIFICATION Spec
CONSTANTS
    Text = {t1, t2}
    Big = {}
    None = none
    MaxCopies = 3
    MaxClears = 0
    Fresh = TRUE
    Bursts = TRUE
INVARIANT GuestOrder
CHECK_DEADLOCK FALSE
