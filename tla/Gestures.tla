------------------------------ MODULE Gestures ------------------------------
(***************************************************************************)
(* The left button on one viewer window (client/src/viewer/app.rs): clicks *)
(* for the guest, the titlebar of a borderless window, moves with the Alt  *)
(* key or at the guest's request, resizes at the border and tiles at the   *)
(* edge of the screen.                                                     *)
(*                                                                         *)
(* The button is captured: its release comes to the window of its press.   *)
(* CursorMoved positions are relative to the window, and during a move to  *)
(* the window as it was pressed (move_resize.rs says so of winit).  What   *)
(* the press hits in the guest's titlebar and whether it is the second of  *)
(* a double click are choices of the environment.                          *)
(***************************************************************************)
EXTENDS Geometry, Option

CONSTANTS
    Width, Height,   \* of the monitor
    MinViewer,       \* MIN_VIEWER_WIDTH, MIN_VIEWER_HEIGHT
    Border,          \* RESIZE_BORDER_PX
    SideSnap,        \* LEFT_RIGHT_EDGE_SNAP_DISTANCE_PX
    EdgeSnap,        \* CURSOR_EDGE_SNAP_DISTANCE_PX
    Inset,           \* macos_menubar_inset_logical_pt
    MaxEvents        \* bound: events of a behaviour

ASSUME GesturesAssumption ==
    /\ {Width, Height, MinViewer} \subseteq Nat \ {0}
    /\ {Border, SideSnap, EdgeSnap, Inset, MaxEvents} \subseteq Nat
    /\ MinViewer <= Width /\ MinViewer <= Height

Monitor == Rect(Span(0, Width), Span(0, Height))
Screen == [x: 0 .. Width, y: 0 .. Height]
\* The guest's frame has a margin of one at its left and top.
Frame == Point(MinViewer + 1, MinViewer + 1)
Content == Rect(Span(1, MinViewer + 1), Span(1, MinViewer + 1))

VARIABLES
    rect,       \* the window
    cursor,     \* where the pointer is on the screen
    last_window_cursor, last_screen_cursor, last_cursor,
    hover_resize_direction,
    active_resize,         \* [direction, start], or None
    move_state,            \* [type, start, outer]
    last_titlebar_click,   \* whether there is one
    suppress_next_left_release,
    queued,     \* size of the last tile sent to queue_remote_resize
    left,       \* the host's button
    guest,      \* the guest's button, from the events sent
    build,      \* [macos, chrome, snap]: target and environment, fixed
    events

GestureVars ==
    <<rect, cursor, last_window_cursor, last_screen_cursor, last_cursor,
      hover_resize_direction, active_resize, move_state, last_titlebar_click,
      suppress_next_left_release, queued, left, guest, build, events>>

Idle == [type |-> "idle"]
Dragging == move_state.type = "dragging"
Resizing == active_resize # None

Edges == {"west", "east", "north", "south"}
Spot == [x: Int, y: Int]
Spans == {s \in [lo: Int, hi: Int] : Length(s) >= 1}

GestureTypeOK ==
    /\ rect.x \in Spans /\ rect.y \in Spans
    /\ cursor \in Screen
    /\ last_window_cursor \in Spot \cup {None} /\ last_screen_cursor \in Spot \cup {None}
    /\ hover_resize_direction \subseteq Edges
    /\ Resizing => active_resize.direction \in SUBSET Edges \ {{}}
    /\ move_state.type \in {"idle", "pressed", "released", "dragging"}
    /\ {last_titlebar_click, suppress_next_left_release, left, guest} \subseteq BOOLEAN
    /\ events \in 0 .. MaxEvents

GestureInit ==
    /\ rect = Rect(Span(1, 1 + MinViewer), Span(1, 1 + MinViewer))
    /\ cursor = Point(0, 0)
    /\ last_window_cursor = None /\ last_screen_cursor = None
    /\ last_cursor = Point(0, 0)
    /\ hover_resize_direction = {}
    /\ active_resize = None
    /\ move_state = Idle
    /\ last_titlebar_click = FALSE /\ suppress_next_left_release = FALSE
    /\ queued = None
    /\ left = FALSE /\ guest = FALSE
    /\ build \in [macos: BOOLEAN, chrome: BOOLEAN, snap: BOOLEAN]
    /\ events = 0

GestureEvent == events < MaxEvents /\ events' = events + 1

-----------------------------------------------------------------------------
(* Helpers of ViewerWindow.                                                *)

\* move_drag_from_current_cursor.
DragFrom(type) ==
    [type |-> type, start |-> last_window_cursor, outer |-> Origin(rect)]

\* update_manual_move: last_screen_cursor is taken from the new position.
UpdateManualMove(pos) ==
    LET outer == ManualMoveOuter(move_state.outer, move_state.start, pos)
    IN  /\ rect' = At(outer, rect)
        /\ last_screen_cursor' = Plus(outer, pos)
        /\ last_titlebar_click' = FALSE

\* update_manual_resize.
UpdateManualResize(pos) ==
    rect' = ClampManualResize(
                ApplyResizeDirection(active_resize.start, active_resize.direction,
                                     Plus(Origin(rect), pos)),
                active_resize.direction, MinViewer)

\* snap_to_cursor_left_right_edge, then snap_to_cursor_tile if that is enabled:
\* the tile to snap to, or None (reject_unchanged_tile).
SnapTile(c, r) ==
    LET side == CursorSnapEdges(c, Monitor, SideSnap) \cap {"west", "east"}
        near == CursorSnapEdges(c, Monitor, EdgeSnap)
        half == LeftRightTileRect(Monitor, CHOOSE e \in side : TRUE, Inset, MinViewer)
        tile == TileRectForEdges(Monitor, near, MinViewer)
    IN  CASE c = None -> None
          [] c # None /\ side \in {{"west"}, {"east"}} /\ half # r -> half
          [] OTHER -> IF build.snap /\ near # {} /\ tile # r THEN tile ELSE None

\* apply_edge_snap_rect, take_pending_tile_remote_resize, queue_remote_resize.
ApplySnap(tile, r) ==
    /\ rect' = IF tile = None THEN r ELSE tile
    /\ queued' = IF tile = None THEN queued
                 ELSE Point(Length(tile.x) + 1, Length(tile.y) + 1)

\* update_resize_cursor.
HoverAt(pos, r) == IF pos = None THEN {} ELSE ResizeDirectionAt(pos, r, Border)

\* begin_manual_resize, finish_manual_resize.
BeginManualResize ==
    active_resize' = [direction |-> hover_resize_direction, start |-> rect]

FinishManualResize ==
    /\ active_resize' = None
    /\ move_state' = Idle
    /\ hover_resize_direction' = HoverAt(last_window_cursor, rect)

\* finish_manual_move: of a move, and of a press that did not become one.
FinishManualMove ==
    /\ move_state' = Idle
    /\ hover_resize_direction' = HoverAt(last_window_cursor, rect)
    /\ ApplySnap(SnapTile(last_screen_cursor, rect), rect)

ReleasedMove ==
    CASE move_state.type = "pressed" /\ ~build.macos -> [move_state EXCEPT !.type = "released"]
      [] move_state.type = "released" -> move_state
      [] OTHER -> Idle

\* map_cursor_to_frame.
ToFrame(pos) ==
    CursorToFrame(pos, Point(Length(rect.x), Length(rect.y)), Content, Frame)

\* sync_cursor_for_button_event.
SyncCursor ==
    last_cursor' = IF last_window_cursor = None THEN last_cursor
                   ELSE ToFrame(last_window_cursor)

-----------------------------------------------------------------------------
(* window_event.                                                           *)

\* CursorMoved: a move, a resize, a border, or motion for the guest.
CursorMoved ==
    /\ GestureEvent
    /\ \E c \in Screen :
          LET pos == Minus(c, IF Dragging THEN move_state.outer ELSE Origin(rect))
          IN  /\ c # cursor
              /\ cursor' = c
              /\ last_window_cursor' = pos
              /\ IF Dragging
                 THEN /\ UpdateManualMove(pos)
                      /\ UNCHANGED <<hover_resize_direction, last_cursor>>
                 ELSE IF Resizing
                 THEN /\ UpdateManualResize(pos)
                      /\ UNCHANGED <<hover_resize_direction, last_cursor,
                                     last_screen_cursor, last_titlebar_click>>
                 ELSE /\ hover_resize_direction' = HoverAt(pos, rect)
                      /\ last_cursor' =
                            IF hover_resize_direction' # {} THEN last_cursor
                            ELSE ToFrame(pos)
                      /\ UNCHANGED <<rect, last_screen_cursor, last_titlebar_click>>
    /\ UNCHANGED <<active_resize, move_state, suppress_next_left_release, queued,
                   left, guest, build>>

\* CursorLeft: clear_resize_cursor.
CursorLeft ==
    /\ GestureEvent /\ ~Resizing /\ ~Dragging
    /\ hover_resize_direction' = {}
    /\ UNCHANGED <<rect, cursor, last_window_cursor, last_screen_cursor, last_cursor,
                   active_resize, move_state, last_titlebar_click,
                   suppress_next_left_release, queued, left, guest, build>>

\* MouseWheel: motion where the cursor was last seen, or in the middle.
MouseWheel ==
    LET pos == IF last_window_cursor # None THEN last_window_cursor
               ELSE Point(Length(rect.x) \div 2, Length(rect.y) \div 2)
    IN  /\ GestureEvent
        /\ last_window_cursor' = pos
        /\ last_cursor' = ToFrame(pos)
        /\ UNCHANGED <<rect, cursor, last_screen_cursor, hover_resize_direction,
                       active_resize, move_state, last_titlebar_click,
                       suppress_next_left_release, queued, left, guest, build>>

\* take_titlebar_toggle_on_left_press: the maximize button, or the second
\* click on the bar, is not for the guest.
TitlebarPress ==
    /\ GestureEvent /\ ~left /\ left' = TRUE
    /\ SyncCursor
    /\ ~build.chrome
    /\ suppress_next_left_release' = TRUE
    /\ last_titlebar_click' = FALSE
    /\ UNCHANGED <<rect, cursor, last_window_cursor, last_screen_cursor,
                   hover_resize_direction, active_resize, move_state, queued, guest, build>>

\* Another press: remember_left_press, then with Alt begin_manual_move, at
\* the border begin_manual_resize, or the guest's.
LeftPress(alt, bar) ==
    LET known == last_window_cursor # None
    IN  /\ GestureEvent /\ ~left /\ left' = TRUE
        /\ SyncCursor
        /\ last_titlebar_click' = IF build.chrome THEN last_titlebar_click ELSE bar
        /\ move_state' = IF Dragging \/ ~known THEN move_state
                         ELSE DragFrom(IF alt THEN "dragging" ELSE "pressed")
        /\ IF alt /\ known THEN UNCHANGED <<active_resize, guest>>
           ELSE IF hover_resize_direction # {} /\ known
           THEN BeginManualResize /\ UNCHANGED guest
           ELSE /\ guest' = TRUE
                /\ UNCHANGED active_resize
        /\ UNCHANGED <<rect, cursor, last_window_cursor, last_screen_cursor,
                       hover_resize_direction, suppress_next_left_release, queued, build>>

\* Mutant: the end of a resize goes to the guest and the resize goes on.
LeftReleaseForwards ==
    /\ GestureEvent /\ left /\ left' = FALSE
    /\ SyncCursor
    /\ guest' = FALSE
    /\ move_state' = Idle
    /\ suppress_next_left_release' = FALSE
    /\ UNCHANGED <<rect, queued, cursor, last_window_cursor, last_screen_cursor,
                   last_titlebar_click, build, active_resize, hover_resize_direction>>

\* Mutant: the release of a press that did not become a move is handled too.
LeftReleaseKeeps ==
    /\ GestureEvent /\ left /\ left' = FALSE
    /\ SyncCursor
    /\ guest' = IF move_state.type = "pressed" THEN guest ELSE FALSE
    /\ move_state' = Idle
    /\ suppress_next_left_release' = FALSE /\ active_resize' = None
    /\ UNCHANGED <<rect, queued, cursor, last_window_cursor, last_screen_cursor,
                   last_titlebar_click, build, hover_resize_direction>>

\* A release: consume_suppressed_left_release, finish_manual_move,
\* finish_manual_resize, or the guest's.
LeftRelease ==
    /\ GestureEvent /\ left /\ left' = FALSE
    /\ SyncCursor
    /\ suppress_next_left_release' = FALSE
    /\ IF suppress_next_left_release
       THEN UNCHANGED <<rect, queued, move_state, active_resize, guest,
                        hover_resize_direction>>
       ELSE IF Dragging
       THEN FinishManualMove /\ UNCHANGED <<active_resize, guest>>
       ELSE IF Resizing
       THEN FinishManualResize /\ UNCHANGED <<rect, queued, guest>>
       ELSE /\ move_state' = ReleasedMove
            /\ guest' = FALSE
            /\ UNCHANGED <<rect, queued, active_resize, hover_resize_direction>>
    /\ UNCHANGED <<cursor, last_window_cursor, last_screen_cursor,
                   last_titlebar_click, build>>

\* MoveRequested, except on macOS: begin_requested_move.  A press released
\* within the grace is moved and snapped at once.
MoveRequested ==
    LET pos   == last_window_cursor
        outer == ManualMoveOuter(move_state.outer, move_state.start, pos)
    IN  /\ GestureEvent /\ ~build.macos /\ ~Dragging
        /\ \/ /\ move_state.type = "pressed"
              /\ move_state' = [move_state EXCEPT !.type = "dragging"]
              /\ rect' = At(outer, rect)
              /\ UNCHANGED <<hover_resize_direction, queued>>
           \/ /\ move_state.type = "released"
              /\ move_state' = Idle
              /\ hover_resize_direction' = IF Resizing THEN hover_resize_direction ELSE {}
              /\ ApplySnap(SnapTile(Plus(outer, pos), At(outer, rect)), At(outer, rect))
        /\ last_screen_cursor' = Plus(outer, pos)
        /\ last_titlebar_click' = FALSE
        /\ UNCHANGED <<cursor, last_window_cursor, last_cursor, active_resize,
                       suppress_next_left_release, left, guest, build>>

\* REMOTE_MOVE_RELEASE_GRACE is over.
ReleaseGraceOver ==
    /\ GestureEvent /\ move_state.type = "released"
    /\ move_state' = Idle
    /\ UNCHANGED <<rect, cursor, last_window_cursor, last_screen_cursor, last_cursor,
                   hover_resize_direction, active_resize, last_titlebar_click,
                   suppress_next_left_release, queued, left, guest, build>>

GestureNext ==
    \/ CursorMoved \/ CursorLeft \/ MouseWheel \/ TitlebarPress \/ LeftRelease
    \/ \E alt, bar \in BOOLEAN : LeftPress(alt, bar)
    \/ MoveRequested \/ ReleaseGraceOver

GestureSpec == GestureInit /\ [][GestureNext]_GestureVars

-----------------------------------------------------------------------------
\* On macOS, the guest's button is down only while the host's is: every press
\* sent is followed by its release, whatever gesture began meanwhile.
ButtonsBalanced == build.macos /\ guest => left

\* A gesture ends with the button: on macOS no move, resize or suppressed
\* release outlives it; elsewhere no move does.
GestureEnds ==
    ~left => /\ ~Dragging /\ ~suppress_next_left_release
             /\ build.macos => ~Resizing /\ move_state = Idle

\* While a border is dragged on macOS, the edges that were not taken stay where
\* they were at the press, however the cursor went and came back, and the
\* window keeps its smallest size.
OppositeEdgesFixed ==
    Resizing /\ build.macos =>
        LET d == active_resize.direction
            s == active_resize.start
        IN  /\ "west" \in d \/ rect.x.lo = s.x.lo
            /\ "east" \in d \/ rect.x.hi = s.x.hi
            /\ "north" \in d \/ rect.y.lo = s.y.lo
            /\ "south" \in d \/ rect.y.hi = s.y.hi
            /\ Length(rect.x) >= MinViewer /\ Length(rect.y) >= MinViewer

=============================================================================
