SPECIFICATION Spec
CONSTANTS
    Text = {t1, t2}
    Big = {}
    None = none
    MaxCopies = 3
    MaxClears = 1
    Fresh = FALSE
    Bursts = TRUE
INVARIANT NoEchoStorm
CHECK_DEADLOCK FALSE
