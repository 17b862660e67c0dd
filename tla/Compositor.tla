----------------------------- MODULE Compositor -----------------------------
(***************************************************************************)
(* The window, popup and child-surface bookkeeping of the per-view Wayland *)
(* compositor (server/src/wayland_session/mod.rs, surface_capture.rs) and  *)
(* the framebuffers the viewer keeps of it (client/src/viewer/frame.rs).   *)
(*                                                                         *)
(* A toplevel becomes a remote window with an id of its own.  Popups and   *)
(* subsurfaces have no window: their buffers are sent as tiles of the      *)
(* window they resolve to, clipped to it.  The viewer has one framebuffer  *)
(* per window and paints tiles in the order they come, so the pixels of a  *)
(* child that moves or goes away stay until a tile of the root covers      *)
(* them; seven maps keyed by surface exist to send that tile in time.      *)
(*                                                                         *)
(* Abstractions.  Geometry has one dimension.  A pixel of the viewer's     *)
(* framebuffer is the surface that painted it last.  The message stream    *)
(* is reliable and ordered, so `host' is updated with the message that is  *)
(* queued.  A role object (xdg_toplevel, xdg_popup, wl_subsurface) and     *)
(* its wl_surface die separately, in any order, which also covers a        *)
(* client that disconnects.  A slot is used again once both are gone.      *)
(* wl_buffers are not shared between surfaces.  Focus, window modes,       *)
(* pointer hit-testing and text input are left out.                        *)
(***************************************************************************)
EXTENDS Integers, SequencesExt

CONSTANTS
    Tops, Pops, Subs,  \* wl_surface slots by the role they get
    Parents,           \* the surfaces a child may be attached to: a forest
    None,              \* an absent map entry
    MaxWindows,        \* bound: toplevels created in one session
    MaxWidth,          \* bound: the width of a buffer or a window
    Place,             \* child positions relative to the parent
    RootBuffer, ChildBuffer,  \* contents attached: width and transparent pixels
    Disposable         \* surfaces whose attached wl_buffer may be destroyed

Surface == Tops \cup Pops \cup Subs
Child == Pops \cup Subs
Window == 1 .. MaxWindows
Pixel == 0 .. MaxWidth - 1
Buffer == [w: 1 .. MaxWidth, holes: SUBSET Pixel]
Rect == [x: Int, w: 0 .. MaxWidth]
Route == [win: Window, x: Int]
Fit == [skip: Nat, dst: Nat, w: Nat]
Toplevel == [surface: Tops, size: 1 .. MaxWidth]
Frame == [size: 1 .. MaxWidth, px: [Pixel -> Surface \cup {None}]]
Content(s) == IF s \in Tops THEN RootBuffer ELSE ChildBuffer

ASSUME CompositorAssumption ==
    /\ Tops \cap Pops = {} /\ Tops \cap Subs = {} /\ Pops \cap Subs = {}
    /\ Parents \in [Child -> SUBSET Surface]
    /\ None \notin Surface /\ None \notin Int
    /\ None \notin Buffer /\ None \notin Rect /\ None \notin Route /\ None \notin Fit
    /\ None \notin Toplevel /\ None \notin Frame
    /\ MaxWindows \in Nat \ {0} /\ MaxWidth \in Nat \ {0}
    /\ Place \subseteq Int
    /\ RootBuffer \subseteq Buffer /\ ChildBuffer \subseteq Buffer
    /\ Disposable \subseteq Surface

\* No surface is attached to itself through others: the compositor core refuses it.
ASSUME ForestAssumption ==
    /\ IsFiniteSet(Surface)
    /\ \E depth \in [Surface -> 0 .. Cardinality(Surface)] :
           \A c \in Child : \A on \in Parents[c] : depth[on] < depth[c]

VARIABLES
    alive,      \* wl_surfaces that exist
    role,       \* surfaces whose role object exists
    parent,     \* what a popup or a subsurface is attached to, or None
    loc,        \* current subsurface location
    windows, surface_to_window, popup_routes, popup_order,
    child_surface_window, child_surfaces, child_surface_last_rect,
    current_buffers, next_window_id,
    host        \* the viewer's framebuffers

client == <<alive, role, parent, loc>>
routes == <<popup_routes, popup_order>>
children == <<child_surface_window, child_surfaces, child_surface_last_rect>>
ids == <<windows, surface_to_window, next_window_id>>
vars == <<client, routes, children, ids, current_buffers, host>>

TypeOK ==
    /\ alive \subseteq Surface /\ role \subseteq Surface 
    /\ parent \in [Child -> Surface \cup {None}]
    /\ loc \in [Subs -> Int]
    /\ windows \in [Window -> Toplevel \cup {None}]
    /\ surface_to_window \in [Surface -> Window \cup {None}]
    /\ popup_routes \in [Surface -> Route \cup {None}]
    /\ popup_order \in Seq(Pops)
    /\ child_surface_window \in [Surface -> Window \cup {None}]
    /\ child_surfaces \subseteq Child
    /\ child_surface_last_rect \in [Surface -> Rect \cup {None}]
    /\ current_buffers \in [Surface -> Buffer \cup {None}]
    /\ next_window_id \in 1 .. MaxWindows + 1
    /\ host \in [Window -> Frame \cup {None}]

-----------------------------------------------------------------------------
(* Where a surface is.                                                     *)

\* surface_window_offset: the walk to the first surface that is a window's
\* root or a routed popup, summing the subsurface locations on the way.
WindowOffset(places, s) ==
    LET Walk[t \in Surface] ==
            IF surface_to_window[t] # None THEN [win |-> surface_to_window[t], x |-> 0]
            ELSE IF popup_routes[t] # None THEN popup_routes[t]
            ELSE IF t \notin Subs \/ parent[t] = None THEN None
            ELSE LET up == Walk[parent[t]]
                 IN  IF up = None THEN None ELSE [up EXCEPT !.x = @ + places[t]]
    IN  Walk[s]

\* surface_copy_rect_with_bounds: the part of a w wide buffer at offset x that
\* fits in 0 .. bound - 1, or None.
CopyRect(w, x, bound) ==
    LET skip == IF x < 0 THEN -x ELSE 0
        dst  == IF x < 0 THEN 0 ELSE x
    IN  IF skip >= w \/ dst >= bound THEN None
        ELSE [skip |-> skip, dst |-> dst,
              w |-> IF w - skip <= bound - dst THEN w - skip ELSE bound - dst]

\* The pixels of a window the tile of buffer b at r makes visible.
Lit(b, r) == {p \in Pixel : /\ r.dst <= p /\ p < r.dst + r.w
                            /\ p - r.dst + r.skip \notin b.holes}

-----------------------------------------------------------------------------
(* What the viewer does with a message.                                    *)

\* FrameBuffer::apply_tile: grows the framebuffer to the tile, leaves pixels
\* alone where the tile is transparent.  A tile of an unknown window is dropped.
ApplyTile(h, win, s, b, r) ==
    IF h[win] = None THEN h
    ELSE [h EXCEPT ![win] =
             [size |-> IF @.size < r.dst + r.w THEN r.dst + r.w ELSE @.size,
              px   |-> [p \in Pixel |-> IF p \in Lit(b, r) THEN s ELSE @.px[p]]]]

\* resize_for_remote_size: a shrink clears the framebuffer, growing keeps it.
ApplyConfigured(h, win, size) ==
    IF h[win] = None THEN h
    ELSE [h EXCEPT ![win] =
             [size |-> size,
              px   |-> IF size < @.size THEN [p \in Pixel |-> None] ELSE @.px]]

RootTile(h, win, s, b) == ApplyTile(h, win, s, b, [skip |-> 0, dst |-> 0, w |-> b.w])

\* repaint_window_from_cached_buffer, with the buffers cached at that point.
Repaint(h, win, bufs) ==
    IF windows[win] = None \/ bufs[windows[win].surface] = None THEN h
    ELSE RootTile(h, win, windows[win].surface, bufs[windows[win].surface])

\* The pixels of a subsurface that is gone are nobody's: its slot may come to
\* stand for another one.
Disown(h, s) ==
    [w \in Window |-> IF h[w] = None \/ s \notin Subs THEN h[w]
                      ELSE [h[w] EXCEPT !.px = [p \in Pixel |-> IF @[p] = s THEN None
                                                                ELSE @[p]]]]

-----------------------------------------------------------------------------
(* Popup routes.                                                           *)

\* remove_popup_route_for_surface.
RemoveRoute(s) ==
    /\ popup_routes' = [popup_routes EXCEPT ![s] = None]
    /\ popup_order' = Remove(popup_order, s)

\* A popup that is routed, again or for the first time, is the topmost one.
Raise(s) == Append(Remove(popup_order, s), s)

\* route_popup: a popup is placed if its parent resolves to a window.
RoutePopup(s, on, x) ==
    LET at == WindowOffset(loc, on)
    IN  IF at = None THEN UNCHANGED routes
        ELSE /\ popup_routes' = [popup_routes EXCEPT
                                    ![s] = [win |-> at.win, x |-> at.x + x]]
             /\ popup_order' = Raise(s)

-----------------------------------------------------------------------------
(* Commits.                                                                *)

\* Mutant: a child that only moved is not noticed.
GeomChangedSize(prev, now) == prev # None /\ prev.w # now.w

\* Whether a child's rectangle differs from the one recorded.
GeomChanged(prev, now) == prev # None /\ prev # now

\* repaint_moved_child_surfaces: after a commit of the root, every tracked
\* child whose rectangle changed is sent again, in the order of a hash map,
\* over a fresh copy of the root if the commit itself sent none.
RepaintMoved(win, size, bufs, places, h, repaint_parent_first) ==
    LET at       == [c \in child_surfaces |-> WindowOffset(places, c)]
        tracked  == {c \in child_surfaces : /\ child_surface_window[c] = win
                                            /\ at[c] # None /\ at[c].win = win}
        kept     == {c \in tracked : bufs[c] # None}
        fit      == [c \in kept |-> CopyRect(bufs[c].w, at[c].x, size)]
        now      == [c \in kept |->
                        [x |-> at[c].x, w |-> IF fit[c] = None THEN 0 ELSE fit[c].w]]
        moved    == {c \in kept : GeomChanged(child_surface_last_rect[c], now[c])}
        shown    == {c \in moved : fit[c] # None}
        base     == IF moved # {} /\ repaint_parent_first THEN Repaint(h, win, bufs) ELSE h
    IN  /\ child_surface_last_rect' =
               [c \in Surface |-> IF c \in tracked \ kept THEN None
                                  ELSE IF c \in moved THEN now[c]
                                  ELSE child_surface_last_rect[c]]
        /\ \E order \in SetToSeqs(shown) :
               LET On(p) == {i \in DOMAIN order : p \in Lit(bufs[order[i]], fit[order[i]])}
               IN  host' = [base EXCEPT ![win].px =
                               [p \in Pixel |-> IF On(p) = {} THEN @[p] ELSE order[Max(On(p))]]]

\* The commit of a window's root, which sends the whole buffer or nothing.
RootCommit(s, win, bufs, drawn, places) ==
    /\ IF drawn = None
       THEN /\ windows' = windows
            /\ RepaintMoved(win, windows[win].size, bufs, places, host, TRUE)
       ELSE /\ windows' = [windows EXCEPT ![win].size = drawn.w]
            /\ RepaintMoved(win, drawn.w, bufs, places,
                   RootTile(IF windows[win].size = drawn.w THEN host
                            ELSE ApplyConfigured(host, win, drawn.w), win, s, drawn), FALSE)
    /\ current_buffers' = bufs
    /\ UNCHANGED <<routes, child_surface_window, child_surfaces>>

\* The width a child's tile is clipped to.
ChildBounds(win) == windows[win].size

\* The commit of a child that draws: the root first if the child has moved or
\* changed its size, then the clipped tile.
ChildDraws(s, at, bufs, drawn) ==
    LET fit  == CopyRect(drawn.w, at.x, ChildBounds(at.win))
        now  == [x |-> at.x, w |-> fit.w]
        base == IF GeomChanged(child_surface_last_rect[s], now)
                THEN Repaint(host, at.win, bufs) ELSE host
    IN  IF fit = None
        THEN UNCHANGED <<child_surface_last_rect, host>>
        ELSE /\ child_surface_last_rect' = [child_surface_last_rect EXCEPT ![s] = now]
             /\ host' = ApplyTile(base, at.win, s, drawn, fit)

\* The commit of a popup or a subsurface, not detaching its buffer.
ChildCommit(s, at, bufs, drawn) ==
    /\ child_surface_window' = [child_surface_window EXCEPT ![s] = at.win]
    /\ child_surfaces' = child_surfaces \cup {s}
    /\ IF drawn = None THEN UNCHANGED <<child_surface_last_rect, host>>
       ELSE ChildDraws(s, at, bufs, drawn)
    /\ current_buffers' = bufs
    /\ UNCHANGED <<windows, routes>>

\* Mutant: the last rectangle is forgotten about.
ClearTrackingButRect(s, bufs) ==
    /\ current_buffers' = [bufs EXCEPT ![s] = None]
    /\ child_surface_window' = [child_surface_window EXCEPT ![s] = None]
    /\ child_surfaces' = child_surfaces \ {s}
    /\ UNCHANGED child_surface_last_rect

\* clear_child_surface_tracking.
ClearTracking(s, bufs) ==
    /\ current_buffers' = [bufs EXCEPT ![s] = None]
    /\ child_surface_window' = [child_surface_window EXCEPT ![s] = None]
    /\ child_surfaces' = child_surfaces \ {s}
    /\ child_surface_last_rect' = [child_surface_last_rect EXCEPT ![s] = None]

\* Mutant: the child is forgotten, its pixels stay.
DetachQuietly(s, win) ==
    /\ RemoveRoute(s)
    /\ ClearTracking(s, current_buffers)
    /\ UNCHANGED <<windows, host>>

\* The commit of a child with a null buffer: forget it, repaint the root.
Detach(s, win) ==
    /\ RemoveRoute(s)
    /\ ClearTracking(s, current_buffers)
    /\ host' = Repaint(host, win, [current_buffers EXCEPT ![s] = None])
    /\ UNCHANGED windows

\* The subsurface locations a commit of s may make current: its own and those
\* of its children, set by wl_subsurface.set_position before.
Placements(s) ==
    {l \in [Subs -> Place \cup {0}] :
        \A c \in Subs : l[c] # loc[c] => parent[c] # None /\ (c = s \/ parent[c] = s)}

\* CompositorHandler::commit with the buffer state of the commit: "none",
\* "damage" without a buffer, "removed", or "new" with buffer b.
Commit(s, kind, b) ==
    LET bufs  == IF kind = "new" THEN [current_buffers EXCEPT ![s] = b]
                 ELSE IF kind = "removed" THEN [current_buffers EXCEPT ![s] = None]
                 ELSE current_buffers
        drawn == IF kind = "new" THEN b
                 ELSE IF kind = "damage" THEN current_buffers[s] ELSE None
    IN  /\ s \in alive
        /\ \E places \in Placements(s) :
              LET at == WindowOffset(places, s)
              IN  /\ loc' = places
                  /\ IF at = None
                     THEN UNCHANGED <<windows, routes, children, current_buffers, host>>
                     ELSE IF surface_to_window[s] = at.win
                     THEN RootCommit(s, at.win, bufs, drawn, places)
                     ELSE IF kind = "removed" THEN Detach(s, at.win)
                     ELSE ChildCommit(s, at, bufs, drawn)
        /\ UNCHANGED <<alive, role, parent, surface_to_window, next_window_id>>

CommitNew(s) == \E b \in Content(s) : Commit(s, "new", b)
CommitDamage(s) == Commit(s, "damage", None)
CommitRemoved(s) == Commit(s, "removed", None)
CommitNone(s) == Commit(s, "none", None)

-----------------------------------------------------------------------------
(* Objects that come and go.                                               *)

\* A role object is made for a surface that has none, new or used before.
WithRole(s) ==
    /\ alive' = alive \cup {s}
    /\ role' = role \cup {s}

\* new_toplevel: the window exists on both sides.
NewToplevel(s) ==
    LET id == next_window_id
    IN  /\ s \in Tops /\ s \notin role
        /\ id <= MaxWindows
        /\ WithRole(s)
        /\ next_window_id' = id + 1
        /\ surface_to_window' = [surface_to_window EXCEPT ![s] = id]
        /\ windows' = [windows EXCEPT ![id] = [surface |-> s, size |-> 1]]
        /\ host' = [host EXCEPT ![id] = [size |-> 1, px |-> [p \in Pixel |-> None]]]
        /\ UNCHANGED <<parent, loc, routes, children, current_buffers>>

\* new_popup, at the place the positioner gives it.
NewPopup(s) ==
    /\ s \in Pops /\ s \notin role
    /\ WithRole(s)
    /\ \E on \in Parents[s] \cap alive, x \in Place :
           /\ parent' = [parent EXCEPT ![s] = on]
           /\ RoutePopup(s, on, x)
    /\ UNCHANGED <<loc, children, ids, current_buffers, host>>

\* reposition_request.
Reposition(s) ==
    /\ s \in Pops \cap role
    /\ \E x \in Place : RoutePopup(s, parent[s], x)
    /\ UNCHANGED <<client, children, ids, current_buffers, host>>

\* get_subsurface, in the compositor core: App has no handler for it.
NewSubsurface(s) ==
    /\ s \in Subs /\ s \notin role
    /\ WithRole(s)
    /\ \E on \in Parents[s] \cap alive : parent' = [parent EXCEPT ![s] = on]
    /\ loc' = [loc EXCEPT ![s] = 0]
    /\ UNCHANGED <<routes, children, ids, current_buffers, host>>

\* wl_subsurface.destroy, in the compositor core.
SubsurfaceDestroyed(s) ==
    /\ s \in Subs \cap role
    /\ role' = role \ {s}
    /\ parent' = [parent EXCEPT ![s] = None]
    /\ loc' = [loc EXCEPT ![s] = 0]
    /\ UNCHANGED <<alive, routes, children, ids, current_buffers, host>>

\* The part of toplevel_destroyed that drops the window's popups.
ForgetRoutes(id) ==
    LET left == [s \in Surface |-> IF popup_routes[s] # None /\ popup_routes[s].win = id
                                   THEN None ELSE popup_routes[s]]
    IN  /\ popup_routes' = left
        /\ popup_order' = SelectSeq(popup_order, LAMBDA s : left[s] # None)

\* toplevel_destroyed.
ToplevelDestroyed(s) ==
    LET id   == surface_to_window[s]
        csw  == [c \in Surface |-> IF child_surface_window[c] = id THEN None
                                   ELSE child_surface_window[c]]
    IN  /\ s \in Tops \cap role
        /\ role' = role \ {s}
        /\ surface_to_window' = [surface_to_window EXCEPT ![s] = None]
        /\ windows' = [windows EXCEPT ![id] = None]
        /\ current_buffers' = [current_buffers EXCEPT ![s] = None]
        /\ ForgetRoutes(id)
        /\ child_surface_window' = csw
        /\ child_surfaces' = {c \in child_surfaces : csw[c] # None}
        /\ child_surface_last_rect' = [c \in Surface |-> IF csw[c] = None THEN None
                                                         ELSE child_surface_last_rect[c]]
        /\ host' = [host EXCEPT ![id] = None]
        /\ UNCHANGED <<alive, parent, loc, next_window_id>>

\* popup_destroyed.
PopupDestroyed(s) ==
    /\ s \in Pops \cap role
    /\ role' = role \ {s}
    /\ RemoveRoute(s)
    /\ ClearTracking(s, current_buffers)
    /\ host' = IF popup_routes[s] = None THEN host
               ELSE Repaint(host, popup_routes[s].win, current_buffers')
    /\ parent' = [parent EXCEPT ![s] = None]
    /\ UNCHANGED <<alive, loc, ids>>

\* CompositorHandler::destroyed: only a routed popup has the root repainted.
SurfaceDestroyed(s) ==
    /\ s \in alive
    /\ alive' = alive \ {s}
    /\ parent' = [c \in Child |-> IF c \in Subs /\ (c = s \/ parent[c] = s) THEN None
                                  ELSE parent[c]]
    /\ loc' = IF s \in Subs THEN [loc EXCEPT ![s] = 0] ELSE loc
    /\ RemoveRoute(s)
    /\ ClearTracking(s, current_buffers)
    /\ host' = IF popup_routes[s] = None THEN Disown(host, s)
               ELSE Repaint(host, popup_routes[s].win, current_buffers')
    /\ UNCHANGED <<role, ids>>

\* buffer_destroyed.
BufferDestroyed(s) ==
    /\ s \in Disposable /\ current_buffers[s] # None
    /\ current_buffers' = [current_buffers EXCEPT ![s] = None]
    /\ UNCHANGED <<client, routes, children, ids, host>>

-----------------------------------------------------------------------------
Init ==
    /\ alive = {} /\ role = {} 
    /\ parent = [c \in Child |-> None]
    /\ loc = [s \in Subs |-> 0]
    /\ windows = [w \in Window |-> None]
    /\ surface_to_window = [s \in Surface |-> None]
    /\ popup_routes = [s \in Surface |-> None] /\ popup_order = <<>>
    /\ child_surface_window = [s \in Surface |-> None]
    /\ child_surfaces = {}
    /\ child_surface_last_rect = [s \in Surface |-> None]
    /\ current_buffers = [s \in Surface |-> None]
    /\ next_window_id = 1
    /\ host = [w \in Window |-> None]

Next ==
    \/ \E s \in Surface :
        \/ SurfaceDestroyed(s) \/ BufferDestroyed(s)
        \/ CommitNew(s) \/ CommitDamage(s) \/ CommitRemoved(s) \/ CommitNone(s)
    \/ \E s \in Tops : NewToplevel(s) \/ ToplevelDestroyed(s)
    \/ \E s \in Pops : NewPopup(s) \/ Reposition(s) \/ PopupDestroyed(s)
    \/ \E s \in Subs : NewSubsurface(s) \/ SubsurfaceDestroyed(s)

Spec == Init /\ [][Next]_vars

-----------------------------------------------------------------------------
(* Properties.                                                             *)

Root(w) == windows[w].surface

\* Whatever the order in which a surface and its role object die, nothing is
\* left of it in the seven maps ("this never accumulates dead entries").
NoStaleTracking ==
    /\ \A s \in Surface \ alive :
          /\ current_buffers[s] = None /\ s \notin child_surfaces
          /\ child_surface_window[s] = None /\ child_surface_last_rect[s] = None
    /\ \A s \in Surface \ (alive \cup role) :
          surface_to_window[s] = None /\ popup_routes[s] = None

\* The pixels of a dismissed popup do not stay on the viewer's screen: when a
\* window's root has a cached buffer, no pixel of the window belongs to a popup
\* that is not routed to it, however the popup went away (xdg_popup or
\* wl_surface destroyed, null buffer, its own parent gone first).
NoGhost ==
    \A w \in Window : windows[w] # None /\ current_buffers[Root(w)] # None =>
        \A p \in Pixel : host[w].px[p] \in Pops =>
            popup_routes[host[w].px[p]] # None /\ popup_routes[host[w].px[p]].win = w

\* The pixels a recorded rectangle stands for: its offset may be negative, its
\* width is the clipped one.
Covered(rect) == LET dst == IF rect.x < 0 THEN 0 ELSE rect.x
                 IN  dst .. dst + rect.w - 1

\* The rectangle recorded for a child covers every pixel of it the viewer still
\* shows, so that the comparison with the next rectangle is enough to decide
\* whether old pixels have to be painted over.
RectCovers ==
    \A w \in Window : windows[w] # None /\ current_buffers[Root(w)] # None =>
        \A p \in Pixel : \A c \in Child :
            host[w].px[p] = c /\ child_surface_last_rect[c] # None =>
                p \in Covered(child_surface_last_rect[c])

\* The rectangle of child c, as repaint_moved_child_surfaces would record it.
RectNow(c, win) ==
    LET at  == WindowOffset(loc, c)
        fit == CopyRect(current_buffers[c].w, at.x, windows[win].size)
    IN  [x |-> at.x, w |-> IF fit = None THEN 0 ELSE fit.w]

Settled(win) ==
    \A c \in child_surfaces :
        LET at == WindowOffset(loc, c)
        IN  /\ child_surface_window[c] = win
            /\ current_buffers[c] # None /\ child_surface_last_rect[c] # None
            /\ at # None /\ at.win = win
            => child_surface_last_rect[c] = RectNow(c, win)

CommitsRoot(s) ==
    /\ surface_to_window[s] # None
    /\ CommitNew(s) \/ CommitDamage(s) \/ CommitRemoved(s) \/ CommitNone(s)

\* After any commit of a window's root, with a buffer or without, the recorded
\* rectangle of each tracked child is where the child is now: a subsurface
\* moved by its parent's commit alone is noticed.
RootCommitSettles ==
    [][\A s \in Tops : Settled(surface_to_window[s])' \/ ~CommitsRoot(s)]_vars
====
