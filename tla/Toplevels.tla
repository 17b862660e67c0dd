----------------------------- MODULE Toplevels ------------------------------
(***************************************************************************)
(* The window modes of the compositor (server/src/wayland_session/mod.rs): *)
(* normal, maximized and fullscreen toplevels, the configure events that   *)
(* ask the guest application for a size, and the window events the viewer  *)
(* is told.                                                                *)
(*                                                                         *)
(* Sizes have one dimension.  A configure event carries the whole pending  *)
(* state, so a client that has not acted on the last one may skip it: only *)
(* the latest is kept.  Focus and activation are in Seat.  The             *)
(* wl_output mode set_output_size advertises is not read by this code      *)
(* again and is left out.                                                  *)
(***************************************************************************)
EXTENDS Integers, Sequences, FiniteSets

CONSTANTS
    Ids,        \* window ids, 1 .. n, handed out in order
    None,
    Screen,     \* max_output_size: the size of the host's screen
    Tiny,       \* sizes up to this are placeholders (32 in the code)
    MinGuest    \* the guest application draws no smaller than this

Size == 1 .. Screen + 1
Mode == {"normal", "maximized", "fullscreen"}

ASSUME ToplevelsAssumption ==
    /\ Ids = 1 .. Cardinality(Ids) /\ IsFiniteSet(Ids)
    /\ None \notin Size /\ None \notin Ids
    /\ Screen \in Nat /\ Tiny \in 0 .. Screen - 1 /\ MinGuest \in 1 .. Screen

VARIABLES
    windows,         \* id -> RemoteWindow, or None
    next_window_id,
    gtk_wm,          \* VBOX_GTK_WM_REQUESTS, fixed for the session
    s2c              \* window events and tiles on their way to the viewer

toplevels == <<windows, next_window_id, gtk_wm, s2c>>

\* RemoteWindow and the toplevel's pending state; `due' while the client has
\* not acted on the last configure; `moved' within the grace after a move.
RemoteWindow ==
    [size: Size, mode: Mode, restore: Size, moved: BOOLEAN,
     ask: 0 .. Screen + 1, due: BOOLEAN]

Message ==
    [type: {"created", "destroyed", "minimized", "title"}, id: Ids]
    \cup [type: {"configured", "tile"}, id: Ids, size: Size]
    \cup [type: {"fullscreen"}, id: Ids, on: BOOLEAN]

ToplevelsTypeOK ==
    /\ windows \in [Ids -> RemoteWindow \cup {None}]
    /\ next_window_id \in 1 .. Cardinality(Ids) + 1
    /\ gtk_wm \in BOOLEAN
    /\ s2c \in Seq(Message)

ToplevelsInit ==
    /\ windows = [id \in Ids |-> None]
    /\ next_window_id = 1
    /\ gtk_wm \in BOOLEAN
    /\ s2c = <<>>

Least(a, b) == IF a < b THEN a ELSE b
Greatest(a, b) == IF a > b THEN a ELSE b

Fullscreen(w) == w.mode = "fullscreen"
Maximized(w) == w.mode = "maximized"

FullscreenChanged(id, on) == [type |-> "fullscreen", id |-> id, on |-> on]

\* default_restore_size, restore_size_for_mode_entry.
RestoreSize(size) ==
    IF size <= Tiny THEN Greatest((Screen * 7) \div 10, 1) ELSE Least(size, Screen)

\* with_pending_state and send_configure; a normal window has no restore size.
Configure(w, size, mode) ==
    [w EXCEPT !.ask = size, !.mode = mode, !.due = TRUE,
              !.restore = IF mode = "normal" THEN 1 ELSE @]

\* WindowMode::enter_maximized, enter_fullscreen: the restore size is the one
\* of the first entry.
Enter(w, mode) ==
    [Configure(w, Screen, mode) EXCEPT
        !.restore = IF w.mode = mode THEN @ ELSE RestoreSize(w.size)]

Emit(msgs) == s2c' = s2c \o msgs
Update(id, w) == windows' = [windows EXCEPT ![id] = w]

-----------------------------------------------------------------------------
(* Requests for one window, from the viewer or from the application.       *)

\* Mutant: a resize that ends fullscreen is not announced.
RequestWindowResizeQuiet(id, size) ==
    /\ IF windows[id] = None THEN UNCHANGED windows
       ELSE Update(id, Configure(windows[id], size, "normal"))
    /\ UNCHANGED s2c

\* request_window_resize.
RequestWindowResize(id, size) ==
    LET w == windows[id]
    IN  IF w = None \/ (w.size = size /\ w.mode = "normal")
        THEN UNCHANGED <<windows, s2c>>
        ELSE /\ Update(id, Configure(w, size, "normal"))
             /\ Emit(IF Fullscreen(w) THEN <<FullscreenChanged(id, FALSE)>> ELSE <<>>)

\* request_window_maximize_by_id: a window that was fullscreen leaves it
\* without an announcement.
RequestWindowMaximize(id) ==
    LET w == windows[id]
    IN  /\ IF w = None \/ (Maximized(w) /\ w.size = Screen)
           THEN UNCHANGED windows ELSE Update(id, Enter(w, "maximized"))
        /\ UNCHANGED s2c

\* request_window_unmaximize_by_id: a drag of a maximized window unmaximizes
\* it in the application, which is ignored.
RequestWindowUnmaximize(id, suppress_recent_move) ==
    LET w == windows[id]
    IN  /\ IF w = None THEN UNCHANGED windows
           ELSE IF suppress_recent_move /\ w.moved
           THEN Update(id, [w EXCEPT !.moved = FALSE])
           ELSE IF Maximized(w) THEN Update(id, Configure(w, w.restore, "normal"))
           ELSE UNCHANGED windows
        /\ UNCHANGED s2c

\* toggle_window_maximize.
ToggleWindowMaximize(id) ==
    IF windows[id] # None /\ Maximized(windows[id])
    THEN RequestWindowUnmaximize(id, FALSE)
    ELSE RequestWindowMaximize(id)

\* request_window_fullscreen_by_id: echoes even if nothing changes.
RequestWindowFullscreen(id) ==
    LET w == windows[id]
    IN  IF w = None THEN UNCHANGED <<windows, s2c>>
        ELSE /\ IF Fullscreen(w) /\ w.size = Screen
                THEN UNCHANGED windows ELSE Update(id, Enter(w, "fullscreen"))
             /\ Emit(<<FullscreenChanged(id, TRUE)>>)

\* request_window_unfullscreen_by_id: echoes unless the request is ignored.
RequestWindowUnfullscreen(id, suppress_recent_move) ==
    LET w == windows[id]
    IN  IF w = None THEN UNCHANGED <<windows, s2c>>
        ELSE IF suppress_recent_move /\ w.moved
        THEN /\ Update(id, [w EXCEPT !.moved = FALSE])
             /\ UNCHANGED s2c
        ELSE /\ IF Fullscreen(w) THEN Update(id, Configure(w, w.restore, "normal"))
                ELSE UNCHANGED windows
             /\ Emit(<<FullscreenChanged(id, FALSE)>>)

\* set_window_fullscreen.
SetWindowFullscreen(id, on) ==
    IF on THEN RequestWindowFullscreen(id) ELSE RequestWindowUnfullscreen(id, FALSE)

-----------------------------------------------------------------------------
(* The application.                                                        *)

\* new_toplevel, with a configure that leaves the size to the client.
NewToplevel ==
    LET id == next_window_id
    IN  /\ id \in Ids
        /\ next_window_id' = id + 1
        /\ Update(id, [size |-> 1, mode |-> "normal", restore |-> 1, moved |-> FALSE,
                       ask |-> 0, due |-> TRUE])
        /\ Emit(<<[type |-> "created", id |-> id]>>)
        /\ UNCHANGED gtk_wm

\* toplevel_destroyed.
ToplevelDestroyed(id) ==
    /\ windows[id] # None
    /\ Update(id, None)
    /\ Emit(<<[type |-> "destroyed", id |-> id]>>)
    /\ UNCHANGED <<next_window_id, gtk_wm>>

\* commit of the root buffer (resize_root_window, then the tile).
RootBuffer(id, w, size) ==
    /\ Update(id, [w EXCEPT !.size = size])
    /\ Emit((IF w.size = size THEN <<>>
             ELSE <<[type |-> "configured", id |-> id, size |-> size]>>)
            \o <<[type |-> "tile", id |-> id, size |-> size]>>)

\* The client acts on a configure.  It draws no smaller than it can; one that
\* already has the size acknowledges without a new buffer, or redraws.
GuestConfigure(id) ==
    LET w    == windows[id]
        done == [w EXCEPT !.due = FALSE, !.ask = 0]
    IN  /\ w # None /\ w.due
        /\ \E size \in IF w.ask = 0 THEN {MinGuest, Screen}
                       ELSE {Greatest(w.ask, MinGuest)} :
              \/ RootBuffer(id, done, size)
              \/ size = w.size /\ Update(id, done) /\ UNCHANGED s2c
        /\ UNCHANGED <<next_window_id, gtk_wm>>

\* The client redraws at another size of its own accord.
GuestRelayout(id) ==
    /\ windows[id] # None /\ windows[id].mode = "normal" /\ ~windows[id].due
    /\ \E size \in MinGuest .. Screen : RootBuffer(id, windows[id], size)
    /\ UNCHANGED <<next_window_id, gtk_wm>>

\* maximize_request, unmaximize_request (gated), fullscreen_request,
\* unfullscreen_request (not gated).
GuestMode(id) ==
    /\ windows[id] # None
    /\ \/ gtk_wm /\ RequestWindowMaximize(id)
       \/ gtk_wm /\ RequestWindowUnmaximize(id, TRUE)
       \/ RequestWindowFullscreen(id)
       \/ RequestWindowUnfullscreen(id, TRUE)
    /\ UNCHANGED <<next_window_id, gtk_wm>>

\* request_window_move, whose event a macOS viewer ignores.
GuestMove(id) ==
    /\ windows[id] # None
    /\ Update(id, [windows[id] EXCEPT !.moved = TRUE])
    /\ UNCHANGED <<s2c, next_window_id, gtk_wm>>

\* The grace after a move is over.
MoveGraceOver(id) ==
    /\ windows[id] # None /\ windows[id].moved
    /\ Update(id, [windows[id] EXCEPT !.moved = FALSE])
    /\ UNCHANGED <<s2c, next_window_id, gtk_wm>>

\* request_window_minimize, title_changed.
GuestTell(id) ==
    /\ windows[id] # None
    /\ \E type \in {"minimized", "title"} : Emit(<<[type |-> type, id |-> id]>>)
    /\ UNCHANGED <<windows, next_window_id, gtk_wm>>

=============================================================================
