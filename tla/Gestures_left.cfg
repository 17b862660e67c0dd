SPECIFICATION GestureSpec
CONSTANTS
    None = None
    Width = 4
    Height = 4
    MinViewer = 2
    Border = 0
    SideSnap = 0
    EdgeSnap = 0
    Inset = 1
    MaxEvents = 6
INVARIANT ButtonsBalanced
INVARIANT GestureEnds
INVARIANT OppositeEdgesFixed
CHECK_DEADLOCK FALSE
