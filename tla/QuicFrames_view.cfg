SPECIFICATION Spec
CONSTANTS
    Windows = {1, 2}
    Lens = {3, 4}
    PayloadLimit = 2
    MaxFrame = 3
    MaxPending = 1
    MaxChunks = 2
    MaxUni = 1
    MaxSent = 4
INVARIANT AssemblerSound
PROPERTY Delivers
PROPERTY EventsArrive
CHECK_DEADLOCK FALSE
