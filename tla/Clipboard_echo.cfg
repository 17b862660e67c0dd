SPECIFICATION Spec
CONSTANTS
    Text = {t1, t2}
    Big = {}
    None = none
    MaxCopies = 3
    MaxClears = 0
    Fresh = FALSE
    Bursts = FALSE
INVARIANT EchoIsKnown
CHECK_DEADLOCK FALSE
