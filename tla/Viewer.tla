------------------------------- MODULE Viewer -------------------------------
(***************************************************************************)
(* The viewer's windows (client/src/viewer/app.rs, macOS host): the sizes  *)
(* and fullscreen states of the host windows, how they follow the guest    *)
(* and what they ask of it.  It runs against the compositor in Toplevels.  *)
(*                                                                         *)
(* The event loop handles one event at a time.  winit applies a size or a  *)
(* fullscreen request at once and queues a Resized event, so that the      *)
(* handler of Resized may find the window in a later state (osq).  Timers  *)
(* have no clock: a deadline may pass at any moment after it is set.       *)
(* Sizes are coarse: those within the 32 px of physical_size_close are     *)
(* equal.  The view scale is 1.  Pointer gestures are in Gestures, keys in *)
(* Keyboard; a drag of a border or a tile to an edge is a host resize.     *)
(***************************************************************************)
EXTENDS Toplevels

CONSTANTS
    MinView,   \* MIN_VIEWER_WIDTH, ADOPTION_MIN_CONTENT_W
    Shadow     \* width of the transparent margin a guest may draw

ASSUME ViewerAssumption == MinView \in 1 .. Screen - 1 /\ Shadow \in 0 .. 1

VARIABLES
    view,        \* id -> ViewerWindow, or None
    osq,         \* id -> Resized events winit has queued
    pending_resizes,                  \* id -> size, or None
    pending_fullscreen_exit_resyncs,  \* set of ids
    pending_host_resize_resyncs,      \* set of ids
    retired_window_ids,
    empty_windows_since,   \* TRUE while the replacement grace runs
    exited,
    host_chrome_enabled,   \* VBOX_HOST_CHROME, read once
    c2s          \* input events on their way to the compositor

timers == <<pending_resizes, pending_fullscreen_exit_resyncs, pending_host_resize_resyncs>>
app == <<retired_window_ids, empty_windows_since, exited, host_chrome_enabled>>

\* ViewerWindow with the state of its winit window: `saved' is the size the
\* window returns to from fullscreen or zoom; `dirty' is redraw_pending, kept
\* until the first redraw shows the window.
WindowOf(sizes) ==
    [inner: sizes, fs: {"no", "simple", "native"}, saved: sizes, last: BOOLEAN,
     prog: sizes \cup {None}, frame: sizes, content: sizes, visible: BOOLEAN,
     dirty: BOOLEAN, adopted: BOOLEAN, tiled: BOOLEAN, flight: BOOLEAN, own: BOOLEAN]
ViewerWindow == WindowOf(Size)

ASSUME NoneAssumption == None \notin WindowOf(Int)

Request ==
    [type: {"resize"}, id: Ids, size: Size]
    \cup [type: {"toggle"}, id: Ids]
    \cup [type: {"fullscreen"}, id: Ids, on: BOOLEAN]

ViewerTypeOK ==
    /\ view \in [Ids -> ViewerWindow \cup {None}]
    /\ osq \in [Ids -> Seq(Size)]
    /\ pending_resizes \in [Ids -> Size \cup {None}]
    /\ pending_fullscreen_exit_resyncs \in SUBSET Ids
    /\ pending_host_resize_resyncs \in SUBSET Ids
    /\ retired_window_ids \in SUBSET Ids
    /\ {empty_windows_since, exited, host_chrome_enabled} \subseteq BOOLEAN
    /\ c2s \in Seq(Request)

ViewerInit ==
    /\ view = [id \in Ids |-> None]
    /\ osq = [id \in Ids |-> <<>>]
    /\ pending_resizes = [id \in Ids |-> None]
    /\ pending_fullscreen_exit_resyncs = {}
    /\ pending_host_resize_resyncs = {}
    /\ retired_window_ids = {}
    /\ empty_windows_since = FALSE /\ exited = FALSE
    /\ host_chrome_enabled \in BOOLEAN
    /\ c2s = <<>>

-----------------------------------------------------------------------------
(* winit.                                                                  *)

\* is_window_fullscreen.
IsWindowFullscreen(v) == v.fs # "no"

\* The largest window below the menu bar.
Desktop == Screen - 1

\* request_inner_size: AppKit ignores it in native fullscreen and otherwise
\* keeps the window on the screen.
RequestInnerSize(v, size) ==
    IF v.fs = "native" THEN v
    ELSE [v EXCEPT !.inner = Least(size, IF v.fs = "no" THEN Desktop ELSE Screen)]

\* apply_window_fullscreen, with set_simple_fullscreen, which does nothing
\* while the window is in native fullscreen.
ApplyWindowFullscreen(v, on) ==
    IF IsWindowFullscreen(v) = on \/ v.fs = "native" THEN v
    ELSE IF on THEN [v EXCEPT !.fs = "simple", !.saved = v.inner, !.inner = Screen]
    ELSE [v EXCEPT !.fs = "no", !.inner = v.saved, !.saved = MinView]

\* A window in its new state; a change of size queues a Resized.
SetView(id, v) ==
    /\ view' = [view EXCEPT ![id] = v]
    /\ osq' = IF v.inner = view[id].inner THEN osq
              ELSE [osq EXCEPT ![id] = Append(@, v.inner)]

\* send_input.
SendInput(msgs) == c2s' = c2s \o msgs
SetFullscreen(id, on) == [type |-> "fullscreen", id |-> id, on |-> on]

-----------------------------------------------------------------------------
(* ViewerWindow's helpers.                                                 *)

\* compute_effective_content_rect: apps with their own chrome are not trimmed.
EffectiveContent(v) == IF v.own THEN v.frame ELSE v.content

\* scaled_inner_sizes, request_scaled_inner_size.
RequestScaledInnerSize(v) ==
    [RequestInnerSize(v, EffectiveContent(v)) EXCEPT !.prog = EffectiveContent(v)]

\* compute_remote_size: the guest's size for an inner size.
RemoteSize(v, inner) == inner + (v.frame - EffectiveContent(v))

\* host_resize_resync_needed, for a window that is not fullscreen.
NeedsHostResync(v) == ~IsWindowFullscreen(v) /\ EffectiveContent(v) > v.inner

\* initial_adopt_cap: the size a guest larger than 85% of the screen gets.
InitialAdoptCap == Greatest((Screen * 7) \div 10, MinView)

\* resize_to_remote_size: the first change of size is adopted by the host.
ResizeToRemoteSize(v, size) ==
    LET f == [v EXCEPT !.frame = size,
                       !.content = IF v.frame = size THEN @ ELSE size]
    IN  IF v.frame = size \/ v.adopted THEN f
        ELSE IF size * 100 > Screen * 85
        THEN [RequestInnerSize(f, InitialAdoptCap) EXCEPT
                 !.prog = InitialAdoptCap, !.adopted = TRUE]
        ELSE [RequestScaledInnerSize(f) EXCEPT !.adopted = TRUE]

\* A tile: should_adopt_host_window and is_content_rect_adoptable, then render
\* and show_after_first_present.
ApplyTile(v, size, content) ==
    LET f     == [v EXCEPT !.frame = Greatest(@, size), !.content = content,
                           !.flight = FALSE, !.visible = TRUE, !.dirty = FALSE]
        adopt == content # v.content /\ ~v.tiled /\ content >= MinView
    IN  IF adopt THEN [RequestScaledInnerSize(f) EXCEPT !.tiled = TRUE, !.adopted = TRUE]
        ELSE f

-----------------------------------------------------------------------------
(* Timers.                                                                 *)

\* The three pending maps forget a window.
ForgetTimers(id) ==
    /\ pending_resizes' = [pending_resizes EXCEPT ![id] = None]
    /\ pending_fullscreen_exit_resyncs' = pending_fullscreen_exit_resyncs \ {id}
    /\ pending_host_resize_resyncs' = pending_host_resize_resyncs \ {id}

\* queue_fullscreen_exit_resync.
QueueFullscreenExitResync(id) ==
    /\ pending_resizes' = [pending_resizes EXCEPT ![id] = None]
    /\ pending_fullscreen_exit_resyncs' = pending_fullscreen_exit_resyncs \cup {id}
    /\ pending_host_resize_resyncs' = pending_host_resize_resyncs \ {id}

\* queue_remote_resize, after the removal that starts the Resized handler.
QueueRemoteResize(id, size) ==
    /\ pending_resizes' = [pending_resizes EXCEPT ![id] = size]
    /\ pending_host_resize_resyncs' = pending_host_resize_resyncs \ {id}
    /\ UNCHANGED pending_fullscreen_exit_resyncs

\* resize_request_for_current_inner_size: None if the guest has that size.
ResizeRequest(v) ==
    IF v = None \/ RemoteSize(v, v.inner) = v.frame THEN None ELSE RemoteSize(v, v.inner)

ActiveWindows == {id \in Ids : view[id] # None} \ retired_window_ids

-----------------------------------------------------------------------------
(* Messages: handle_message, handle_remote_window_event.                   *)

\* create_window; ids are never used twice, so there is no such window yet.
Created(id) ==
    /\ view' = [view EXCEPT ![id] =
          [inner |-> 1, fs |-> "no", saved |-> MinView, last |-> FALSE, prog |-> None,
           frame |-> 1, content |-> 1, visible |-> FALSE, dirty |-> FALSE,
           adopted |-> FALSE, tiled |-> FALSE, flight |-> FALSE, own |-> FALSE]]
    /\ empty_windows_since' = FALSE
    /\ UNCHANGED <<osq, timers, retired_window_ids, exited, host_chrome_enabled, c2s>>

Configured(id, size) ==
    /\ SetView(id, [ResizeToRemoteSize(view[id], size) EXCEPT
                       !.dirty = ~view[id].visible])
    /\ UNCHANGED <<timers, app, c2s>>

\* FrameTile; the content is the frame without its margin.  A resync follows
\* if the answer to a resize is larger than the host window.
FrameTile(id, size) ==
    LET content == Greatest(size - Shadow, 1)
        v       == ApplyTile(view[id], size, content)
        larger  == NeedsHostResync([view[id] EXCEPT !.frame = v.frame, !.content = content])
    IN  /\ SetView(id, v)
        /\ pending_host_resize_resyncs' =
              pending_host_resize_resyncs \cup IF view[id].flight /\ larger THEN {id} ELSE {}
        /\ UNCHANGED <<pending_resizes, pending_fullscreen_exit_resyncs, app, c2s>>

\* TitleChanged: the new title may tell that the app has its own chrome.
TitleChanged(id) ==
    /\ \/ SetView(id, IF view[id].own THEN view[id]
                      ELSE [RequestScaledInnerSize([view[id] EXCEPT !.own = TRUE])
                               EXCEPT !.dirty = ~view[id].visible])
       \/ UNCHANGED <<view, osq>>
    /\ UNCHANGED <<timers, app, c2s>>

\* Minimized: set_minimized, which changes nothing here.
Minimized == UNCHANGED <<view, osq, timers, app, c2s>>

\* Mutant: the cache of the last state keeps its value.
FullscreenChangedAppliedStale(id, on) ==
    /\ SetView(id, [ApplyWindowFullscreen(view[id], on) EXCEPT !.prog = None])
    /\ IF on THEN ForgetTimers(id) ELSE QueueFullscreenExitResync(id)
    /\ UNCHANGED <<app, c2s>>

\* Mutant: the state applied is sent back to the guest.
FullscreenChangedAppliedBounce(id, on) ==
    /\ SetView(id, [ApplyWindowFullscreen(view[id], on) EXCEPT
                       !.prog = None, !.last = on])
    /\ IF on THEN ForgetTimers(id) ELSE QueueFullscreenExitResync(id)
    /\ SendInput(<<SetFullscreen(id, on)>>)
    /\ UNCHANGED app

\* FullscreenChanged.
FullscreenChangedApplied(id, on) ==
    /\ SetView(id, [ApplyWindowFullscreen(view[id], on) EXCEPT
                       !.prog = None, !.last = on])
    /\ IF on THEN ForgetTimers(id) ELSE QueueFullscreenExitResync(id)
    /\ UNCHANGED <<app, c2s>>

\* Destroyed: the last window is only hidden (retire_last_window), in case
\* another replaces it; the others go (remove_window).
Destroyed(id) ==
    /\ ForgetTimers(id)
    /\ IF Cardinality(ActiveWindows) <= 1
       THEN /\ view' = [view EXCEPT ![id].visible = FALSE]
            /\ retired_window_ids' = retired_window_ids \cup {id}
            /\ empty_windows_since' = TRUE
            /\ UNCHANGED osq
       ELSE /\ view' = [view EXCEPT ![id] = None]
            /\ osq' = [osq EXCEPT ![id] = <<>>]
            /\ retired_window_ids' = retired_window_ids \ {id}
            /\ UNCHANGED empty_windows_since
    /\ UNCHANGED <<exited, host_chrome_enabled, c2s>>

\* user_event with the next message.
HandleMessage ==
    /\ ~exited /\ s2c # <<>>
    /\ s2c' = Tail(s2c)
    /\ LET m == Head(s2c)
       IN  \/ m.type = "created" /\ Created(m.id)
           \/ m.type = "configured" /\ Configured(m.id, m.size)
           \/ m.type = "tile" /\ FrameTile(m.id, m.size)
           \/ m.type = "title" /\ TitleChanged(m.id)
           \/ m.type = "minimized" /\ Minimized
           \/ m.type = "fullscreen" /\ FullscreenChangedApplied(m.id, m.on)
           \/ m.type = "destroyed" /\ Destroyed(m.id)
    /\ UNCHANGED <<windows, next_window_id, gtk_wm>>

-----------------------------------------------------------------------------
(* Window events.                                                          *)

\* A fullscreen state the viewer did not set: tell the guest.
ResizedToggle(id, v) ==
    /\ view' = [view EXCEPT ![id] =
          [v EXCEPT !.last = ~@, !.prog = None, !.dirty = ~v.visible]]
    /\ SendInput(<<SetFullscreen(id, IsWindowFullscreen(v))>>)
    /\ IF IsWindowFullscreen(v) THEN ForgetTimers(id) ELSE QueueFullscreenExitResync(id)

\* Otherwise a resize the viewer did not ask for (consume_programmatic_resize)
\* is the user's and goes to the guest after the debounce.
ResizedPlain(id, v, size) ==
    LET mine == ~IsWindowFullscreen(v) /\ v.visible
        user == mine /\ v.prog # size /\ ResizeRequest(v) # None
    IN  /\ view' = [view EXCEPT ![id] =
              [v EXCEPT !.prog = IF mine THEN None ELSE @, !.dirty = ~v.visible]]
        /\ UNCHANGED c2s
        /\ IF user THEN QueueRemoteResize(id, ResizeRequest(v))
           ELSE /\ pending_host_resize_resyncs' = pending_host_resize_resyncs \ {id}
                /\ UNCHANGED <<pending_resizes, pending_fullscreen_exit_resyncs>>

\* WindowEvent::Resized.
Resized(id) ==
    /\ ~exited /\ osq[id] # <<>>
    /\ osq' = [osq EXCEPT ![id] = Tail(@)]
    /\ IF IsWindowFullscreen(view[id]) # view[id].last
       THEN ResizedToggle(id, view[id])
       ELSE ResizedPlain(id, view[id], Head(osq[id]))
    /\ UNCHANGED <<app, toplevels>>

\* RedrawRequested: render_pending_redraw, show_after_first_present.
RedrawRequested(id) ==
    /\ ~exited /\ view[id] # None /\ view[id].dirty
    /\ view' = [view EXCEPT ![id].dirty = FALSE, ![id].visible = TRUE]
    /\ UNCHANGED <<osq, timers, app, c2s, toplevels>>

\* handle_keyboard, is_fullscreen_shortcut: the target, not a toggle.
FullscreenShortcut(id) ==
    /\ SendInput(<<SetFullscreen(id, ~IsWindowFullscreen(view[id]))>>)
    /\ UNCHANGED <<view, osq, timers, app, toplevels>>

\* The user drags a border, or the system tiles the window.
HostResize(id) ==
    /\ ~IsWindowFullscreen(view[id])
    /\ \E size \in MinView .. Desktop : SetView(id, RequestInnerSize(view[id], size))
    /\ UNCHANGED <<timers, app, c2s, toplevels>>

\* A drag ends at a screen edge: apply_edge_snap_rect, then queue_remote_resize.
EdgeSnap(id) ==
    LET half == Greatest(Screen \div 2, MinView)
    IN  /\ ~IsWindowFullscreen(view[id]) /\ view[id].inner # half
        /\ SetView(id, [RequestInnerSize(view[id], half) EXCEPT
                           !.prog = half])
        /\ pending_resizes' = [pending_resizes EXCEPT ![id] = RemoteSize(view[id], half)]
        /\ UNCHANGED <<pending_fullscreen_exit_resyncs, pending_host_resize_resyncs>>
        /\ UNCHANGED <<app, c2s, toplevels>>

\* The green button toggles macOS's own fullscreen.
NativeToggle(id) ==
    LET v == view[id]
    IN  /\ host_chrome_enabled /\ v.fs # "simple"
        /\ SetView(id,
              IF v.fs = "native" THEN [v EXCEPT !.fs = "no", !.inner = v.saved, !.saved = MinView]
              ELSE [v EXCEPT !.fs = "native", !.saved = v.inner, !.inner = Screen])
        /\ UNCHANGED <<timers, app, c2s, toplevels>>

\* Without host chrome, a click on the guest's maximize button or a double
\* click on its titlebar toggles the guest and zooms the host window.
TitlebarToggle(id) ==
    LET v == view[id]
    IN  /\ ~host_chrome_enabled /\ ~IsWindowFullscreen(v)
        /\ SendInput(<<[type |-> "toggle", id |-> id]>>)
        /\ SetView(id, IF v.inner = Desktop
                       THEN [v EXCEPT !.inner = v.saved, !.saved = MinView]
                       ELSE [v EXCEPT !.saved = v.inner, !.inner = Desktop])
        /\ UNCHANGED <<timers, app, toplevels>>

-----------------------------------------------------------------------------
(* about_to_wait.                                                          *)

\* send_remote_resize_now, for what is due; fullscreen exits come first.
Resizes(ids, size) ==
    LET due == {id \in ids : view[id] # None /\ size[id] # None}
    IN  [id \in due |-> [type |-> "resize", id |-> id, size |-> size[id]]]

\* The messages of a function over a set of ids, in some order.
InSomeOrder(f) ==
    {[i \in DOMAIN order |-> f[order[i]]] :
        order \in {s \in [1 .. Cardinality(DOMAIN f) -> DOMAIN f] :
                      \A i, j \in DOMAIN s : s[i] = s[j] => i = j}}

\* flush_due_remote_resizes, for the timers whose deadline has passed.
FlushDueResizes(x, r, h) ==
    LET exits  == Resizes(x, [id \in Ids |-> ResizeRequest(view[id])])
        ready  == Resizes(r, pending_resizes)
        flown  == [id \in Ids |->
                      IF id \in DOMAIN exits \cup DOMAIN ready
                      THEN [view[id] EXCEPT !.flight = TRUE] ELSE view[id]]
        synced == [id \in Ids |->
                      IF id \in h /\ view[id] # None /\ NeedsHostResync(flown[id])
                      THEN RequestScaledInnerSize(flown[id])
                      ELSE flown[id]]
    IN  /\ x \cup r \cup h # {}
        /\ pending_fullscreen_exit_resyncs' = pending_fullscreen_exit_resyncs \ x
        /\ pending_resizes' = [id \in Ids |-> IF id \in r THEN None ELSE pending_resizes[id]]
        /\ pending_host_resize_resyncs' = pending_host_resize_resyncs \ h
        /\ \E a \in InSomeOrder(exits), b \in InSomeOrder(ready) : SendInput(a \o b)
        /\ view' = synced
        /\ osq' = [id \in Ids |-> IF synced[id] # None /\ synced[id].inner # view[id].inner
                                  THEN Append(osq[id], synced[id].inner) ELSE osq[id]]

FlushDue ==
    /\ ~exited
    /\ \E x \in SUBSET pending_fullscreen_exit_resyncs,
          r \in SUBSET {id \in Ids : pending_resizes[id] # None},
          h \in SUBSET pending_host_resize_resyncs : FlushDueResizes(x, r, h)
    /\ UNCHANGED <<app, toplevels>>

\* The grace is over: remove_retired_windows and exit.
GraceOver ==
    /\ ~exited /\ empty_windows_since
    /\ exited' = TRUE
    /\ view' = [id \in Ids |-> IF id \in retired_window_ids THEN None ELSE view[id]]
    /\ osq' = [id \in Ids |-> IF id \in retired_window_ids THEN <<>> ELSE osq[id]]
    /\ retired_window_ids' = {}
    /\ UNCHANGED <<timers, empty_windows_since, host_chrome_enabled, c2s, toplevels>>

=============================================================================
