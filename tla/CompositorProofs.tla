-------------------------- MODULE CompositorProofs --------------------------
(***************************************************************************)
(* The properties of Compositor for every number of surfaces, windows,     *)
(* sizes and placements.                                                   *)
(*                                                                         *)
(* NoStaleTracking: the maps of the per-view compositor never keep an      *)
(* entry of a surface that is gone.  It is not inductive: an xdg_toplevel, *)
(* an xdg_popup or a wl_subsurface may go while its surface is already     *)
(* gone, so one has to know which map a surface of each role may be in     *)
(* (Roles).  Where a child ends up on the screen is not needed.            *)
(*                                                                         *)
(* The others are about the screen.  They need that windows, roots, cached *)
(* buffers and the viewer's framebuffers agree (BaseInv), which holds      *)
(* whoever a child belongs to and gives RootCommitSettles.  NoGhost and    *)
(* RectCovers need in addition that a child is routed, tracked and seen in *)
(* the window of one toplevel only (Homed, Placed), that a popup is seen   *)
(* while it is routed (Routed), and a child while it is tracked, at its    *)
(* rectangle (Tracked).  A surface's window is found by a walk up its      *)
(* parents, so facts about it are proved by induction on the depth of the  *)
(* surface, which ForestAssumption provides.                               *)
(***************************************************************************)
EXTENDS Compositor, FiniteSetTheorems, WellFoundedInduction, TLAPS

\* The maps keyed by surface have every surface in their domain.
Domains ==
    /\ DOMAIN current_buffers = Surface
    /\ DOMAIN child_surface_window = Surface
    /\ DOMAIN child_surface_last_rect = Surface
    /\ DOMAIN surface_to_window = Surface
    /\ DOMAIN popup_routes = Surface
    /\ child_surfaces \subseteq Surface
    /\ alive \subseteq Surface /\ role \subseteq Surface

\* Only a toplevel with its role object is a window, only a popup is routed.
Roles ==
    /\ \A s \in Surface : surface_to_window[s] # None => s \in Tops \cap role
    /\ \A s \in Surface : popup_routes[s] # None => s \in Pops

\* The two conjuncts of NoStaleTracking.
DeadUntracked ==
    \A s \in Surface \ alive :
        /\ current_buffers[s] = None /\ s \notin child_surfaces
        /\ child_surface_window[s] = None /\ child_surface_last_rect[s] = None
GoneUnmapped ==
    \A s \in Surface \ (alive \cup role) :
        surface_to_window[s] = None /\ popup_routes[s] = None

IndInv == Domains /\ Roles /\ DeadUntracked /\ GoneUnmapped

-----------------------------------------------------------------------------
(* Commits, by the branch they take.  A commit touches the entries of the  *)
(* surface that commits and the rectangles of children that are tracked.   *)

\* What a commit of s leaves of the child maps.
Touches(s) ==
    /\ DOMAIN current_buffers' = Surface
    /\ DOMAIN child_surface_window' = Surface
    /\ DOMAIN child_surface_last_rect' = Surface
    /\ child_surfaces' \subseteq child_surfaces \cup {s}
    /\ \A c \in Surface \ {s} :
          /\ current_buffers'[c] = current_buffers[c]
          /\ child_surface_window'[c] = child_surface_window[c]
          /\ c \notin child_surfaces =>
                child_surface_last_rect'[c] \in {child_surface_last_rect[c], None}

\* A commit of s adds no route: it may only take that of s away.
KeepsRoutes(s) ==
    /\ DOMAIN popup_routes' = Surface
    /\ \A c \in Surface : popup_routes'[c] \in {popup_routes[c], None}

\* repaint_moved_child_surfaces records rectangles of tracked children only.
LEMMA RepaintMovedTouches ==
    ASSUME NEW win, NEW size, NEW bufs, NEW places, NEW h, NEW first,
           RepaintMoved(win, size, bufs, places, h, first)
    PROVE  /\ DOMAIN child_surface_last_rect' = Surface
           /\ \A c \in Surface : c \notin child_surfaces =>
                 child_surface_last_rect'[c] = child_surface_last_rect[c]
  BY DEF RepaintMoved

\* A commit of a window's root touches nothing but its own entries.
LEMMA RootCommitTouches ==
    ASSUME Domains, NEW s \in Surface, NEW win, NEW drawn, NEW places,
           NEW bufs, DOMAIN bufs = Surface,
           \A c \in Surface \ {s} : bufs[c] = current_buffers[c],
           RootCommit(s, win, bufs, drawn, places)
    PROVE  Touches(s) /\ KeepsRoutes(s)
  <1>1. /\ DOMAIN child_surface_last_rect' = Surface
        /\ \A c \in Surface : c \notin child_surfaces =>
              child_surface_last_rect'[c] = child_surface_last_rect[c]
    <2>1. CASE drawn = None
      BY <2>1, RepaintMovedTouches DEF RootCommit
    <2>2. CASE drawn # None
      BY <2>2, RepaintMovedTouches DEF RootCommit
    <2> QED BY <2>1, <2>2
  <1>2. /\ current_buffers' = bufs
        /\ UNCHANGED <<routes, child_surface_window, child_surfaces>>
    BY DEF RootCommit
  <1> QED BY <1>1, <1>2 DEF Touches, KeepsRoutes, Domains, routes

\* A commit of a child with a buffer, or with none attached or detached.
LEMMA ChildCommitTouches ==
    ASSUME Domains, NEW s \in Surface, NEW at, NEW drawn,
           NEW bufs, DOMAIN bufs = Surface,
           \A c \in Surface \ {s} : bufs[c] = current_buffers[c],
           ChildCommit(s, at, bufs, drawn)
    PROVE  Touches(s) /\ KeepsRoutes(s)
  <1>1. /\ DOMAIN child_surface_last_rect' = Surface
        /\ \A c \in Surface \ {s} :
              child_surface_last_rect'[c] = child_surface_last_rect[c]
    <2>1. CASE UNCHANGED child_surface_last_rect
      BY <2>1 DEF Domains
    <2>2. CASE ChildDraws(s, at, bufs, drawn)
      <3>1. \/ UNCHANGED child_surface_last_rect
            \/ \E now : child_surface_last_rect' =
                           [child_surface_last_rect EXCEPT ![s] = now]
        BY <2>2, Zenon DEF ChildDraws
      <3> QED BY <3>1 DEF Domains
    <2> QED BY <2>1, <2>2 DEF ChildCommit
  <1>2. /\ current_buffers' = bufs
        /\ child_surface_window' = [child_surface_window EXCEPT ![s] = at.win]
        /\ child_surfaces' = child_surfaces \cup {s}
        /\ UNCHANGED routes
    BY DEF ChildCommit
  <1> QED BY <1>1, <1>2 DEF Touches, KeepsRoutes, Domains, routes

\* A commit of a child that detaches its buffer.
LEMMA DetachTouches ==
    ASSUME Domains, NEW s \in Surface, NEW win, Detach(s, win)
    PROVE  Touches(s) /\ KeepsRoutes(s)
  BY DEF Detach, RemoveRoute, ClearTracking, Touches, KeepsRoutes, Domains

\* CompositorHandler::commit, whatever it carries.
LEMMA CommitTouches ==
    ASSUME Domains, NEW s \in Surface, NEW kind, NEW b, Commit(s, kind, b)
    PROVE  Touches(s) /\ KeepsRoutes(s)
  <1> DEFINE bufs == IF kind = "new" THEN [current_buffers EXCEPT ![s] = b]
                     ELSE IF kind = "removed" THEN [current_buffers EXCEPT ![s] = None]
                     ELSE current_buffers
             drawn == IF kind = "new" THEN b
                      ELSE IF kind = "damage" THEN current_buffers[s] ELSE None
  <1>1. /\ DOMAIN bufs = Surface
        /\ \A c \in Surface \ {s} : bufs[c] = current_buffers[c]
    BY DEF Domains
  <1>2. PICK places \in Placements(s) :
           LET at == WindowOffset(places, s)
           IN  IF at = None
               THEN UNCHANGED <<windows, routes, children, current_buffers, host>>
               ELSE IF surface_to_window[s] = at.win
               THEN RootCommit(s, at.win, bufs, drawn, places)
               ELSE IF kind = "removed" THEN Detach(s, at.win)
               ELSE ChildCommit(s, at, bufs, drawn)
    BY Zenon DEF Commit
  <1> DEFINE at == WindowOffset(places, s)
  <1> HIDE DEF bufs, drawn, at
  <1>3. \/ UNCHANGED <<windows, routes, children, current_buffers, host>>
        \/ RootCommit(s, at.win, bufs, drawn, places)
        \/ Detach(s, at.win)
        \/ ChildCommit(s, at, bufs, drawn)
    BY <1>2, Zenon DEF at
  <1>4. CASE UNCHANGED <<windows, routes, children, current_buffers, host>>
    BY <1>4 DEF Touches, KeepsRoutes, Domains, routes, children
  <1>5. CASE RootCommit(s, at.win, bufs, drawn, places)
    BY <1>1, <1>5, RootCommitTouches
  <1>6. CASE Detach(s, at.win)
    BY <1>6, DetachTouches
  <1>7. CASE ChildCommit(s, at, bufs, drawn)
    BY <1>1, <1>7, ChildCommitTouches
  <1> QED BY <1>3, <1>4, <1>5, <1>6, <1>7

\* A commit of a surface that exists leaves nothing of one that does not.
LEMMA CommitStep ==
    ASSUME IndInv, NEW s \in Surface, NEW kind, NEW b, Commit(s, kind, b)
    PROVE  IndInv'
  <1>1. Touches(s) /\ KeepsRoutes(s)
    BY CommitTouches DEF IndInv
  <1>2. /\ s \in alive
        /\ UNCHANGED <<alive, role, surface_to_window>>
    BY Zenon DEF Commit
  <1> USE DEF IndInv
  <1>3. Domains'
    BY <1>1, <1>2 DEF Domains, Touches, KeepsRoutes
  <1>4. Roles'
    BY <1>1, <1>2 DEF Roles, KeepsRoutes
  <1>5. DeadUntracked'
    BY <1>1, <1>2 DEF DeadUntracked, Touches, Domains
  <1>6. GoneUnmapped'
    BY <1>1, <1>2 DEF GoneUnmapped, KeepsRoutes
  <1> QED BY <1>3, <1>4, <1>5, <1>6

-----------------------------------------------------------------------------
(* Objects that come and go.                                               *)

\* route_popup writes the route of one popup.
LEMMA RoutePopupKeeps ==
    ASSUME Domains, NEW s \in Surface, NEW on, NEW x, RoutePopup(s, on, x)
    PROVE  /\ DOMAIN popup_routes' = Surface
           /\ \A c \in Surface \ {s} : popup_routes'[c] = popup_routes[c]
  <1>1. \/ UNCHANGED popup_routes
        \/ \E r : popup_routes' = [popup_routes EXCEPT ![s] = r]
    BY Zenon DEF RoutePopup, routes
  <1> QED BY <1>1 DEF Domains

\* Every step keeps the invariant.
LEMMA NextKeeps ==
    ASSUME IndInv, [Next]_vars
    PROVE  IndInv'
  <1> USE CompositorAssumption
  <1>1. ASSUME NEW s \in Surface, SurfaceDestroyed(s) PROVE IndInv'
    <2> USE <1>1 DEF IndInv, SurfaceDestroyed, RemoveRoute, ClearTracking, ids
    <2>1. Domains' BY DEF Domains
    <2>2. Roles' BY DEF Roles, Domains
    <2>3. DeadUntracked' BY DEF DeadUntracked, Domains
    <2>4. GoneUnmapped' BY DEF GoneUnmapped, Roles, Domains
    <2> QED BY <2>1, <2>2, <2>3, <2>4
  <1>2. ASSUME NEW s \in Surface, BufferDestroyed(s) PROVE IndInv'
    BY <1>2 DEF IndInv, BufferDestroyed, client, routes, children, ids, Domains, Roles,
                DeadUntracked, GoneUnmapped
  <1>3. ASSUME NEW s \in Surface,
               CommitNew(s) \/ CommitDamage(s) \/ CommitRemoved(s) \/ CommitNone(s)
        PROVE  IndInv'
    BY <1>3, CommitStep DEF CommitNew, CommitDamage, CommitRemoved, CommitNone
  <1>4. ASSUME NEW s \in Tops, NewToplevel(s) PROVE IndInv'
    BY <1>4 DEF IndInv, NewToplevel, WithRole, routes, children, Domains, Roles, Surface,
                DeadUntracked, GoneUnmapped
  <1>5. ASSUME NEW s \in Tops, ToplevelDestroyed(s) PROVE IndInv'
    <2> USE <1>5 DEF IndInv, ToplevelDestroyed, ForgetRoutes
    <2>1. Domains' BY DEF Domains, Surface
    <2>2. Roles' BY DEF Roles, Domains, Surface
    <2>3. DeadUntracked' BY DEF DeadUntracked, Domains, Surface
    <2>4. GoneUnmapped' BY DEF GoneUnmapped, Roles, Domains, Surface
    <2> QED BY <2>1, <2>2, <2>3, <2>4
  <1>6. ASSUME NEW s \in Pops, NewPopup(s) \/ Reposition(s) PROVE IndInv'
    <2>1. /\ DOMAIN popup_routes' = Surface
          /\ \A c \in Surface \ {s} : popup_routes'[c] = popup_routes[c]
      BY <1>6, RoutePopupKeeps DEF NewPopup, Reposition, Surface, IndInv
    <2>2. /\ alive \subseteq alive' /\ role \subseteq role' /\ s \in role'
          /\ alive' \subseteq Surface /\ role' \subseteq Surface
          /\ UNCHANGED <<children, ids, current_buffers>>
      BY <1>6 DEF NewPopup, Reposition, WithRole, client, IndInv, Domains, Surface
    <2> QED BY <2>1, <2>2 DEF IndInv, Domains, Roles, DeadUntracked, GoneUnmapped, children,
                              ids, Surface
  <1>7. ASSUME NEW s \in Pops, PopupDestroyed(s) PROVE IndInv'
    <2> USE <1>7 DEF IndInv, PopupDestroyed, RemoveRoute, ClearTracking, ids
    <2>1. Domains' BY DEF Domains, Surface
    <2>2. Roles' BY DEF Roles, Domains, Surface
    <2>3. DeadUntracked' BY DEF DeadUntracked, Domains, Surface
    <2>4. GoneUnmapped' BY DEF GoneUnmapped, Roles, Domains, Surface
    <2> QED BY <2>1, <2>2, <2>3, <2>4
  <1>8. ASSUME NEW s \in Subs, NewSubsurface(s) \/ SubsurfaceDestroyed(s) PROVE IndInv'
    BY <1>8 DEF IndInv, NewSubsurface, SubsurfaceDestroyed, WithRole, routes, children, ids,
                Domains, Roles, DeadUntracked, GoneUnmapped, Surface
  <1>9. CASE UNCHANGED vars
    BY <1>9 DEF IndInv, vars, client, routes, children, ids, Domains, Roles, DeadUntracked,
                GoneUnmapped
  <1> QED BY <1>1, <1>2, <1>3, <1>4, <1>5, <1>6, <1>7, <1>8, <1>9 DEF Next

\* "This never accumulates dead entries": in whatever order a surface, its
\* role object, its parents and its buffers are destroyed, the maps of the
\* compositor hold nothing of a surface that is gone.
THEOREM NothingStaleTracked == Spec => []NoStaleTracking
  <1>1. Init => IndInv
    BY DEF Init, IndInv, Domains, Roles, DeadUntracked, GoneUnmapped
  <1>2. IndInv /\ [Next]_vars => IndInv'
    BY NextKeeps
  <1>3. IndInv => NoStaleTracking
    BY DEF IndInv, DeadUntracked, GoneUnmapped, NoStaleTracking
  <1> QED BY <1>1, <1>2, <1>3, PTL DEF Spec

-----------------------------------------------------------------------------
(* What the viewer shows.                                                  *)

\* A child slot belongs to one toplevel slot, however often it is used.
IsHome(home) ==
    /\ home \in [Surface -> Tops]
    /\ \A r \in Tops : home[r] = r
    /\ \A c \in Child : \A on \in Parents[c] : home[on] = home[c]

Home == CHOOSE home : IsHome(home)

\* TypeOK but for the order of the popups, and with the parents a child may have.
Typed ==
    /\ alive \subseteq Surface /\ role \subseteq Surface
    /\ parent \in [Child -> Surface \cup {None}]
    /\ \A c \in Child : parent[c] \in Parents[c] \cup {None}
    /\ loc \in [Subs -> Int]
    /\ windows \in [Window -> Toplevel \cup {None}]
    /\ surface_to_window \in [Surface -> Window \cup {None}]
    /\ popup_routes \in [Surface -> Route \cup {None}]
    /\ child_surface_window \in [Surface -> Window \cup {None}]
    /\ child_surfaces \subseteq Child
    /\ child_surface_last_rect \in [Surface -> Rect \cup {None}]
    /\ current_buffers \in [Surface -> Buffer \cup {None}]
    /\ next_window_id \in 1 .. MaxWindows + 1
    /\ host \in [Window -> Frame \cup {None}]

\* A window and its toplevel know each other, and what the viewer has of it.
Linked ==
    /\ \A w \in Window : windows[w] # None =>
          /\ surface_to_window[Root(w)] = w
          /\ w < next_window_id
          /\ host[w] # None /\ host[w].size = windows[w].size
    /\ \A s \in Tops : s \in role => surface_to_window[s] # None
    /\ \A s \in Surface : surface_to_window[s] # None =>
          /\ s \in Tops /\ s \in role
          /\ windows[surface_to_window[s]] # None
          /\ Root(surface_to_window[s]) = s
    /\ \A s \in Surface : popup_routes[s] # None =>
          s \in Pops /\ windows[popup_routes[s].win] # None
    /\ \A s \in Pops : s \in role => parent[s] # None

\* The buffer cached of a root is the size of its window.
Sized ==
    \A s \in Tops : current_buffers[s] # None =>
        /\ current_buffers[s] \in RootBuffer
        /\ surface_to_window[s] # None
        /\ current_buffers[s].w = windows[surface_to_window[s]].size

\* A child is routed to and tracked for the window of its toplevel only.
Homed ==
    /\ \A c \in Child : popup_routes[c] # None =>
          popup_routes[c].win = surface_to_window[Home[c]]
    /\ \A c \in Child : child_surface_window[c] # None =>
          child_surface_window[c] = surface_to_window[Home[c]]

\* It is seen in that window only, and within its size.
Placed ==
    \A w \in Window : windows[w] # None => \A p \in Pixel : host[w].px[p] \in Child =>
        p < windows[w].size /\ Home[host[w].px[p]] = Root(w)

\* A popup is seen in a window whose root can be painted again while it is routed.
Routed ==
    \A w \in Window : windows[w] # None /\ current_buffers[Root(w)] # None =>
        \A p \in Pixel : host[w].px[p] \in Pops => popup_routes[host[w].px[p]] # None

\* Child c is tracked, and pixel p is in the rectangle recorded for it.
TrackedAt(c, p) ==
    /\ c \in child_surfaces /\ child_surface_window[c] # None /\ current_buffers[c] # None
    /\ child_surface_last_rect[c] # None /\ p \in Covered(child_surface_last_rect[c])

\* A child is seen in a window whose root can be painted again while it is tracked.
Tracked ==
    \A w \in Window : windows[w] # None /\ current_buffers[Root(w)] # None =>
        \A p \in Pixel : host[w].px[p] \in Child => TrackedAt(host[w].px[p], p)

-----------------------------------------------------------------------------
(* Induction over the naturals, for a set.                                 *)

\* A set of naturals that is not empty has a least member.
LEMMA LeastMember ==
    ASSUME NEW T \in SUBSET Nat, T # {}
    PROVE  \E x \in T : \A y \in T : x <= y
  <1> DEFINE C == {0 .. x : x \in T}
             R == StrictSubsetOrdering(Nat)
  <1>1. \A x \in T : IsFiniteSet(0 .. x) /\ 0 .. x \in SUBSET Nat
    BY FS_Interval
  <1>2. C \subseteq FiniteSubsetsOf(Nat) /\ C # {}
    BY <1>1 DEF FiniteSubsetsOf
  <1>3. IsWellFoundedOn(R, FiniteSubsetsOf(Nat))
    BY FS_StrictSubsetOrderingWellFounded
  <1>4. PICK X \in C : \A Y \in C : <<Y, X>> \notin R
    <2> HIDE DEF C, R
    <2> QED BY <1>2, <1>3, WFMin
  <1>5. PICK x \in T : X = 0 .. x
    BY <1>4
  <1>6. ASSUME NEW y \in T, y < x PROVE FALSE
    <2>1. 0 .. y \in C /\ 0 .. y \subseteq Nat /\ X \subseteq Nat
      BY <1>1, <1>5
    <2>2. x \in X /\ x \notin 0 .. y
      BY <1>5, <1>6
    <2>3. 0 .. y \subseteq X /\ 0 .. y # X
      BY <2>2, <1>5, <1>6
    <2>4. <<0 .. y, X>> \in R
      BY <2>1, <2>3 DEF StrictSubsetOrdering
    <2> QED BY <2>1, <2>4, <1>4
  <1> QED BY <1>6

\* A set with 0 and the successor of each of its naturals has them all.
LEMMA Induction ==
    ASSUME NEW S, 0 \in S, \A n \in Nat : n \in S => n + 1 \in S
    PROVE  Nat \subseteq S
  <1> SUFFICES ASSUME NEW k \in Nat, k \notin S PROVE FALSE
    OBVIOUS
  <1> DEFINE T == Nat \ S
  <1>1. PICK x \in T : \A y \in T : x <= y
    BY LeastMember
  <1> QED BY <1>1

-----------------------------------------------------------------------------
(* The walk of surface_window_offset.                                      *)

\* One step of the walk, with f the rest of it.
Up(f, places, t) ==
    IF surface_to_window[t] # None THEN [win |-> surface_to_window[t], x |-> 0]
    ELSE IF popup_routes[t] # None THEN popup_routes[t]
    ELSE IF t \notin Subs \/ parent[t] = None THEN None
    ELSE IF f[parent[t]] = None THEN None
    ELSE [f[parent[t]] EXCEPT !.x = @ + places[t]]

\* Two walks that agree on the parent of a surface take the same step from it.
LEMMA UpDepends ==
    ASSUME NEW f, NEW g, NEW places, NEW t,
           t \in Subs /\ parent[t] # None => f[parent[t]] = g[parent[t]]
    PROVE  Up(f, places, t) = Up(g, places, t)
  <1>1. CASE t \in Subs /\ parent[t] # None
    BY <1>1, Zenon DEF Up
  <1>2. CASE ~(t \in Subs /\ parent[t] # None)
    BY <1>2, Zenon DEF Up
  <1> QED BY <1>1, <1>2

\* The walk ends: surfaces form a forest, so there is a function that takes
\* every step, and WindowOffset is that function.
LEMMA WalkSteps ==
    ASSUME Typed, NEW places
    PROVE  \E f : /\ \A t \in Surface : f[t] = Up(f, places, t)
                  /\ \A t \in Surface : WindowOffset(places, t) = f[t]
  <1>1. PICK depth \in [Surface -> 0 .. Cardinality(Surface)] :
           \A c \in Child : \A on \in Parents[c] : depth[on] < depth[c]
    BY ForestAssumption
  <1>2. Cardinality(Surface) \in Nat
    BY ForestAssumption, FS_CardinalityType
  <1>3. \A t \in Surface : depth[t] \in Nat /\ depth[t] <= Cardinality(Surface)
    BY <1>1, <1>2
  <1>4. \A t \in Subs : parent[t] # None => parent[t] \in Surface /\ depth[parent[t]] < depth[t]
    BY <1>1, CompositorAssumption DEF Typed, Child
  <1> DEFINE Good(f, n) == \A t \in Surface : depth[t] < n => f[t] = Up(f, places, t)
             S == {n \in Nat : \E f : Good(f, n)}
  <1>5. 0 \in S
    <2>1. Good([t \in Surface |-> None], 0)
      BY <1>3
    <2> QED BY <2>1
  <1>6. ASSUME NEW n \in Nat, n \in S PROVE n + 1 \in S
    <2>1. PICK f : Good(f, n)
      BY <1>6
    <2> DEFINE g == [t \in Surface |-> IF depth[t] < n THEN f[t] ELSE Up(f, places, t)]
    <2>2. Good(g, n + 1)
      <3> SUFFICES ASSUME NEW t \in Surface, depth[t] < n + 1 PROVE g[t] = Up(g, places, t)
        OBVIOUS
      <3>1. g[t] = Up(f, places, t)
        BY <2>1
      <3>2. t \in Subs /\ parent[t] # None => f[parent[t]] = g[parent[t]]
        <4> SUFFICES ASSUME t \in Subs, parent[t] # None PROVE f[parent[t]] = g[parent[t]]
          OBVIOUS
        <4>1. parent[t] \in Surface /\ depth[parent[t]] < n
          BY <1>3, <1>4
        <4> QED BY <4>1
      <3> HIDE DEF g
      <3> QED BY <3>1, <3>2, UpDepends
    <2>3. \E h : Good(h, n + 1)
      <3> HIDE DEF g, Good
      <3> QED BY <2>2
    <2> QED BY <2>3
  <1>7. PICK f : Good(f, Cardinality(Surface) + 1)
    <2> HIDE DEF S
    <2>1. Cardinality(Surface) + 1 \in S
      BY <1>2, <1>5, <1>6, Induction
    <2> QED BY <2>1 DEF S
  <1>8. \A t \in Surface : f[t] = Up(f, places, t)
    BY <1>2, <1>3, <1>7
  <1> DEFINE Walks(h) == h = [t \in Surface |->
            IF surface_to_window[t] # None THEN [win |-> surface_to_window[t], x |-> 0]
            ELSE IF popup_routes[t] # None THEN popup_routes[t]
            ELSE IF t \notin Subs \/ parent[t] = None THEN None
            ELSE LET up == h[parent[t]]
                 IN  IF up = None THEN None ELSE [up EXCEPT !.x = @ + places[t]]]
             g == [t \in Surface |-> f[t]]
             walk == CHOOSE h : Walks(h)
  <1>9. \A h : Walks(h) <=> h = [t \in Surface |-> Up(h, places, t)]
    BY Zenon DEF Up
  <1>10. Walks(g)
    <2>1. \A t \in Surface : g[t] = Up(g, places, t)
      <3> SUFFICES ASSUME NEW t \in Surface PROVE g[t] = Up(g, places, t)
        OBVIOUS
      <3>1. g[t] = Up(f, places, t)
        BY <1>8
      <3>2. t \in Subs /\ parent[t] # None => f[parent[t]] = g[parent[t]]
        BY <1>4
      <3> HIDE DEF g
      <3> QED BY <3>1, <3>2, UpDepends
    <2> DEFINE h == [t \in Surface |-> Up(g, places, t)]
    <2>2. \A t \in Surface : g[t] = h[t]
      <3> HIDE DEF g
      <3> QED BY <2>1
    <2>3. g = h
      BY <2>2, Zenon
    <2> QED BY <2>3, <1>9
  <1>11. Walks(walk)
    <2> HIDE DEF g, Walks
    <2> QED BY <1>10, Zenon
  <1>12. \A t \in Surface : WindowOffset(places, t) = walk[t]
    BY Zenon DEF WindowOffset
  <1>13. \A t \in Surface : walk[t] = Up(walk, places, t)
    <2>1. walk = [t \in Surface |-> Up(walk, places, t)]
      BY <1>9, <1>11
    <2> HIDE DEF walk
    <2> QED BY <2>1, Zenon
  <1> QED BY <1>12, <1>13

\* Induction along the walk.
LEMMA WalkInduction ==
    ASSUME Typed, NEW S,
           \A t \in Surface : (t \in Subs /\ parent[t] # None => parent[t] \in S) => t \in S
    PROVE  Surface \subseteq S
  <1>1. PICK depth \in [Surface -> 0 .. Cardinality(Surface)] :
           \A c \in Child : \A on \in Parents[c] : depth[on] < depth[c]
    BY ForestAssumption
  <1>2. \A t \in Surface : depth[t] \in Nat
    BY <1>1, ForestAssumption, FS_CardinalityType
  <1>3. \A t \in Subs : parent[t] # None => parent[t] \in Surface /\ depth[parent[t]] < depth[t]
    BY <1>1, CompositorAssumption DEF Typed, Child
  <1> SUFFICES ASSUME NEW t \in Surface, t \notin S PROVE FALSE
    OBVIOUS
  <1> DEFINE D == {depth[u] : u \in Surface \ S}
  <1>4. D \subseteq Nat /\ D # {}
    BY <1>2
  <1>5. PICK n \in D : \A m \in D : n <= m
    <2> HIDE DEF D
    <2> QED BY <1>4, LeastMember
  <1>6. PICK u \in Surface \ S : n = depth[u]
    BY <1>5
  <1>7. u \in Subs /\ parent[u] # None => parent[u] \in S
    <2> SUFFICES ASSUME u \in Subs, parent[u] # None, parent[u] \notin S PROVE FALSE
      OBVIOUS
    <2>1. parent[u] \in Surface /\ depth[parent[u]] < depth[u]
      BY <1>3
    <2>2. depth[parent[u]] \in D
      BY <2>1
    <2> HIDE DEF D
    <2> QED BY <2>1, <2>2, <1>2, <1>5, <1>6
  <1> QED BY <1>6, <1>7

\* Where the walk from a surface ends: nowhere, or in the window of its toplevel.
Ends(at, s) ==
    at # None => at \in Route /\ at.win = surface_to_window[Home[s]]

\* So does every walk.
LEMMA OffsetEnds ==
    ASSUME Typed, Linked, Homed, IsHome(Home), NEW places \in [Subs -> Int], NEW s \in Surface
    PROVE  Ends(WindowOffset(places, s), s)
  <1> USE CompositorAssumption
  <1>1. PICK f : /\ \A t \in Surface : f[t] = Up(f, places, t)
                 /\ \A t \in Surface : WindowOffset(places, t) = f[t]
    BY WalkSteps
  <1> DEFINE S == {t \in Surface : Ends(f[t], t)}
  <1>2. ASSUME NEW t \in Surface, t \in Subs /\ parent[t] # None => parent[t] \in S
        PROVE  t \in S
    <2>0. f[t] = Up(f, places, t)
      BY <1>1
    <2>1. CASE surface_to_window[t] # None
      <3>1. f[t] = [win |-> surface_to_window[t], x |-> 0]
        BY <2>0, <2>1, Zenon DEF Up
      <3>2. surface_to_window[t] \in Window /\ Home[t] = t
        BY <2>1 DEF Typed, Linked, IsHome
      <3> QED BY <3>1, <3>2 DEF Ends, Route
    <2>2. CASE surface_to_window[t] = None /\ popup_routes[t] # None
      <3>1. f[t] = popup_routes[t]
        BY <2>0, <2>2, Zenon DEF Up
      <3> QED BY <3>1, <2>2 DEF Ends, Typed, Linked, Homed, Child
    <2>3. CASE surface_to_window[t] = None /\ popup_routes[t] = None /\ (t \notin Subs \/ parent[t] = None)
      <3>1. f[t] = None
        BY <2>0, <2>3, Zenon DEF Up
      <3> QED BY <3>1 DEF Ends
    <2>4. CASE /\ surface_to_window[t] = None /\ popup_routes[t] = None
               /\ t \in Subs /\ parent[t] # None
      <3>1. parent[t] \in Surface /\ Ends(f[parent[t]], parent[t])
        BY <1>2, <2>4
      <3>2. Home[parent[t]] = Home[t]
        BY <2>4 DEF Typed, IsHome, Child
      <3>3. CASE f[parent[t]] = None
        <4>1. f[t] = None
          BY <2>0, <2>4, <3>3, Zenon DEF Up
        <4> QED BY <4>1 DEF Ends
      <3>4. CASE f[parent[t]] # None
        <4> DEFINE up == f[parent[t]]
        <4>1. f[t] = [up EXCEPT !.x = @ + places[t]]
          BY <2>0, <2>4, <3>4, Zenon DEF Up
        <4>2. up \in Route /\ up.win = surface_to_window[Home[t]]
          BY <3>1, <3>2, <3>4 DEF Ends
        <4>3. places[t] \in Int
          BY <2>4
        <4> HIDE DEF up
        <4> QED BY <4>1, <4>2, <4>3 DEF Ends, Route
      <3> QED BY <3>3, <3>4
    <2> QED BY <2>1, <2>2, <2>3, <2>4
  <1>3. Surface \subseteq S
    <2> HIDE DEF S
    <2> QED BY <1>2, WalkInduction
  <1> QED BY <1>1, <1>3

\* The walk from a toplevel and from a popup has no more than one step.
LEMMA OffsetHere ==
    ASSUME Typed, NEW places, NEW s \in Surface
    PROVE  /\ surface_to_window[s] # None =>
                 WindowOffset(places, s) = [win |-> surface_to_window[s], x |-> 0]
           /\ surface_to_window[s] = None /\ s \notin Subs =>
                 WindowOffset(places, s) = popup_routes[s]
  <1>1. PICK f : /\ \A t \in Surface : f[t] = Up(f, places, t)
                 /\ \A t \in Surface : WindowOffset(places, t) = f[t]
    BY WalkSteps
  <1>2. WindowOffset(places, s) = Up(f, places, s)
    BY <1>1
  <1> QED BY <1>2, Zenon DEF Up

\* The walk from any surface ends nowhere or in a window that lives.
Lives(at) == at # None => at \in Route /\ windows[at.win] # None
\* So does every walk.
LEMMA OffsetLives ==
    ASSUME Typed, Linked, NEW places \in [Subs -> Int], NEW s \in Surface
    PROVE  Lives(WindowOffset(places, s))
  <1> USE CompositorAssumption
  <1>1. PICK f : /\ \A t \in Surface : f[t] = Up(f, places, t)
                 /\ \A t \in Surface : WindowOffset(places, t) = f[t]
    BY WalkSteps
  <1> DEFINE S == {t \in Surface : Lives(f[t])}
  <1>2. ASSUME NEW t \in Surface, t \in Subs /\ parent[t] # None => parent[t] \in S
        PROVE  t \in S
    <2>0. f[t] = Up(f, places, t)
      BY <1>1
    <2>1. CASE surface_to_window[t] # None
      <3>1. f[t] = [win |-> surface_to_window[t], x |-> 0]
        BY <2>0, <2>1, Zenon DEF Up
      <3>2. surface_to_window[t] \in Window /\ windows[surface_to_window[t]] # None
        BY <2>1 DEF Typed, Linked
      <3> QED BY <3>1, <3>2 DEF Lives, Route
    <2>2. CASE surface_to_window[t] = None /\ popup_routes[t] # None
      <3>1. f[t] = popup_routes[t]
        BY <2>0, <2>2, Zenon DEF Up
      <3> QED BY <3>1, <2>2 DEF Lives, Typed, Linked
    <2>3. CASE surface_to_window[t] = None /\ popup_routes[t] = None /\ (t \notin Subs \/ parent[t] = None)
      <3>1. f[t] = None
        BY <2>0, <2>3, Zenon DEF Up
      <3> QED BY <3>1 DEF Lives
    <2>4. CASE /\ surface_to_window[t] = None /\ popup_routes[t] = None
               /\ t \in Subs /\ parent[t] # None
      <3>1. Lives(f[parent[t]])
        BY <1>2, <2>4
      <3>2. CASE f[parent[t]] = None
        <4>1. f[t] = None
          BY <2>0, <2>4, <3>2, Zenon DEF Up
        <4> QED BY <4>1 DEF Lives
      <3>3. CASE f[parent[t]] # None
        <4> DEFINE up == f[parent[t]]
        <4>1. f[t] = [up EXCEPT !.x = @ + places[t]]
          BY <2>0, <2>4, <3>3, Zenon DEF Up
        <4>2. up \in Route /\ windows[up.win] # None /\ places[t] \in Int
          BY <3>1, <3>3, <2>4 DEF Lives
        <4> HIDE DEF up
        <4> QED BY <4>1, <4>2 DEF Lives, Route
      <3> QED BY <3>2, <3>3
    <2> QED BY <2>1, <2>2, <2>3, <2>4
  <1>3. Surface \subseteq S
    <2> HIDE DEF S
    <2> QED BY <1>2, WalkInduction
  <1> QED BY <1>1, <1>3

-----------------------------------------------------------------------------
(* The viewer's framebuffers.                                              *)

Frames == [Window -> Frame \cup {None}]

\* The part of a buffer that is sent lies within the bound.
LEMMA CopyRectFits ==
    ASSUME NEW w \in 1 .. MaxWidth, NEW x \in Int, NEW bound \in 1 .. MaxWidth,
           NEW fit, fit = CopyRect(w, x, bound), fit # None
    PROVE  /\ fit \in Fit /\ fit.w \in 1 .. MaxWidth /\ fit.dst + fit.w <= bound
           /\ fit.dst = IF x < 0 THEN 0 ELSE x
  BY CompositorAssumption DEF CopyRect, Fit

\* A tile is lit within its rectangle only.
LEMMA LitInside ==
    ASSUME NEW b, NEW r \in Fit, NEW p \in Lit(b, r)
    PROVE  p \in Pixel /\ r.dst <= p /\ p < r.dst + r.w
  BY DEF Lit

\* g is h with window win painted in, not resized.
Painted(g, h, win) ==
    /\ g \in Frames
    /\ \A w \in Window \ {win} : g[w] = h[w]
    /\ g[win] # None /\ g[win].size = h[win].size

\* A tile within a framebuffer changes the pixels it lights.
LEMMA TilePaints ==
    ASSUME NEW h \in Frames, NEW win \in Window, h[win] # None,
           NEW s \in Surface, NEW b, NEW r \in Fit, r.dst + r.w <= h[win].size,
           NEW g, g = ApplyTile(h, win, s, b, r)
    PROVE  /\ Painted(g, h, win)
           /\ \A p \in Pixel : g[win].px[p] = IF p \in Lit(b, r) THEN s ELSE h[win].px[p]
  <1> USE CompositorAssumption
  <1> DEFINE px == [p \in Pixel |-> IF p \in Lit(b, r) THEN s ELSE h[win].px[p]]
             frame == [size |-> h[win].size, px |-> px]
  <1>1. h[win] \in Frame
    BY DEF Frames
  <1>2. g = [h EXCEPT ![win] = frame]
    <2>1. (IF h[win].size < r.dst + r.w THEN r.dst + r.w ELSE h[win].size) = h[win].size
      BY <1>1 DEF Frame, Fit
    <2> QED BY <2>1, Zenon DEF ApplyTile
  <1>3. px \in [Pixel -> Surface \cup {None}]
    BY <1>1 DEF Frame
  <1>4. frame \in Frame
    <2> HIDE DEF px
    <2> QED BY <1>1, <1>3 DEF Frame
  <1>5. frame.size = h[win].size /\ frame.px = px
    OBVIOUS
  <1> HIDE DEF frame
  <1>6. Painted(g, h, win) /\ g[win] = frame
    <2> HIDE DEF px
    <2> QED BY <1>2, <1>4, <1>5 DEF Painted, Frames
  <1>7. \A p \in Pixel : px[p] = IF p \in Lit(b, r) THEN s ELSE h[win].px[p]
    OBVIOUS
  <1> QED BY <1>5, <1>6, <1>7

\* The tile of an opaque root lights every pixel it has.
LEMMA RootTilePaints ==
    ASSUME NEW h \in Frames, NEW win \in Window, h[win] # None,
           NEW s \in Surface, NEW b \in Buffer, b.w = h[win].size,
           NEW g, g = RootTile(h, win, s, b)
    PROVE  /\ Painted(g, h, win)
           /\ \A p \in Pixel : g[win].px[p] \in {s, h[win].px[p]}
           /\ b.holes = {} => \A p \in Pixel : p < b.w => g[win].px[p] = s
  <1> USE CompositorAssumption
  <1> DEFINE r == [skip |-> 0, dst |-> 0, w |-> b.w]
  <1>1. r \in Fit /\ r.dst + r.w <= h[win].size /\ r.dst = 0 /\ r.skip = 0 /\ r.w = b.w
    BY DEF Fit, Buffer
  <1>2. g = ApplyTile(h, win, s, b, r)
    BY DEF RootTile
  <1> HIDE DEF r
  <1>3. /\ Painted(g, h, win)
        /\ \A p \in Pixel : g[win].px[p] = IF p \in Lit(b, r) THEN s ELSE h[win].px[p]
    BY <1>1, <1>2, TilePaints
  <1>4. b.holes = {} => \A p \in Pixel : p < b.w => p \in Lit(b, r)
    BY <1>1 DEF Lit, Pixel, Buffer
  <1> QED BY <1>3, <1>4

\* A root painted again from a buffer of the window's size covers the window.
LEMMA RepaintPaints ==
    ASSUME NEW h \in Frames, NEW win \in Window, h[win] # None,
           windows[win] \in Toplevel, NEW size, NEW bufs, size = h[win].size,
           bufs[Root(win)] # None => bufs[Root(win)] \in Buffer /\ bufs[Root(win)].w = size,
           NEW g, g = Repaint(h, win, bufs)
    PROVE  /\ Painted(g, h, win)
           /\ \A p \in Pixel : g[win].px[p] \in {Root(win), h[win].px[p]}
           /\ bufs[Root(win)] # None /\ bufs[Root(win)].holes = {} =>
                 \A p \in Pixel : p < size => g[win].px[p] = Root(win)
  <1> USE CompositorAssumption
  <1>1. windows[win] # None /\ Root(win) \in Surface
    BY DEF Root, Toplevel, Surface
  <1>2. CASE bufs[Root(win)] = None
    <2>1. g = h
      BY <1>1, <1>2 DEF Repaint, Root
    <2> QED BY <1>2, <2>1 DEF Painted
  <1>3. CASE bufs[Root(win)] # None
    <2> DEFINE b == bufs[Root(win)]
               r == Root(win)
    <2>1. g = RootTile(h, win, r, b)
      BY <1>1, <1>3 DEF Repaint, Root
    <2>2. b \in Buffer /\ b.w = h[win].size /\ r \in Surface
      BY <1>1, <1>3
    <2> HIDE DEF b, r
    <2>3. /\ Painted(g, h, win)
          /\ \A p \in Pixel : g[win].px[p] \in {r, h[win].px[p]}
          /\ b.holes = {} => \A p \in Pixel : p < b.w => g[win].px[p] = r
      BY <2>1, <2>2, RootTilePaints
    <2> QED BY <2>2, <2>3 DEF b, r
  <1> QED BY <1>2, <1>3

\* A new size empties a framebuffer that shrinks and leaves one that grows.
LEMMA ConfiguredFrame ==
    ASSUME NEW h \in Frames, NEW win \in Window, h[win] # None, NEW size \in 1 .. MaxWidth,
           NEW g, g = ApplyConfigured(h, win, size)
    PROVE  /\ g \in Frames /\ g[win] # None /\ g[win].size = size
           /\ \A w \in Window \ {win} : g[w] = h[w]
           /\ size < h[win].size => \A p \in Pixel : g[win].px[p] = None
           /\ size >= h[win].size => \A p \in Pixel : g[win].px[p] = h[win].px[p]
  <1> USE CompositorAssumption
  <1>1. h[win] \in Frame
    BY DEF Frames
  <1> DEFINE px == IF size < h[win].size THEN [p \in Pixel |-> None] ELSE h[win].px
             frame == [size |-> size, px |-> px]
  <1>2. g = [h EXCEPT ![win] = frame]
    BY Zenon DEF ApplyConfigured
  <1>3. px \in [Pixel -> Surface \cup {None}]
    BY <1>1 DEF Frame
  <1>4. frame \in Frame /\ frame.size = size /\ frame.px = px
    <2> HIDE DEF px
    <2> QED BY <1>3 DEF Frame
  <1>5. /\ size < h[win].size => \A p \in Pixel : px[p] = None
        /\ size >= h[win].size => \A p \in Pixel : px[p] = h[win].px[p]
    BY <1>1 DEF Frame
  <1> HIDE DEF px, frame
  <1>6. /\ g \in Frames /\ g[win] = frame
        /\ \A w \in Window \ {win} : g[w] = h[w]
    BY <1>2, <1>4 DEF Frames
  <1> QED BY <1>4, <1>5, <1>6

\* Disown only takes pixels of a subsurface away.
LEMMA DisownFrames ==
    ASSUME NEW h \in Frames, NEW s \in Surface, NEW g, g = Disown(h, s)
    PROVE  /\ g \in Frames
           /\ \A w \in Window : h[w] # None =>
                 /\ g[w] # None /\ g[w].size = h[w].size
                 /\ \A p \in Pixel : g[w].px[p] \in {h[w].px[p], None}
                 /\ s \in Subs => \A p \in Pixel : g[w].px[p] # s
           /\ \A w \in Window : h[w] = None => g[w] = None
  <1> USE CompositorAssumption
  <1> DEFINE Px(w) == [p \in Pixel |-> IF h[w].px[p] = s THEN None ELSE h[w].px[p]]
  <1>1. DOMAIN g = Window /\ \A w \in Window :
           g[w] = IF h[w] = None \/ s \notin Subs THEN h[w] ELSE [h[w] EXCEPT !.px = Px(w)]
    BY Zenon DEF Disown
  <1>2. ASSUME NEW w \in Window, h[w] # None
        PROVE  /\ g[w] \in Frame /\ g[w].size = h[w].size
               /\ \A p \in Pixel : g[w].px[p] \in {h[w].px[p], None}
               /\ s \in Subs => \A p \in Pixel : g[w].px[p] # s
    <2>1. h[w] \in Frame
      BY <1>2 DEF Frames
    <2>2. CASE s \notin Subs
      BY <1>1, <1>2, <2>1, <2>2 DEF Frame
    <2>3. CASE s \in Subs
      <3> DEFINE px == Px(w)
      <3>1. g[w] = [h[w] EXCEPT !.px = px]
        BY <1>1, <1>2, <2>3
      <3>2. px \in [Pixel -> Surface \cup {None}]
        BY <2>1 DEF Frame
      <3>3. \A p \in Pixel : px[p] \in {h[w].px[p], None} /\ px[p] # s
        BY <2>1 DEF Frame
      <3> HIDE DEF px
      <3>4. g[w] \in Frame /\ g[w].size = h[w].size /\ g[w].px = px
        BY <3>1, <3>2, <2>1 DEF Frame
      <3> QED BY <3>3, <3>4
    <2> QED BY <2>2, <2>3
  <1>3. \A w \in Window : h[w] = None => g[w] = None
    BY <1>1
  <1>4. g \in Frames
    <2>1. g = [w \in Window |-> g[w]]
      <3>1. g = [w \in Window |->
                   IF h[w] = None \/ s \notin Subs THEN h[w]
                   ELSE [h[w] EXCEPT !.px = [p \in Pixel |-> IF @[p] = s THEN None ELSE @[p]]]]
        BY DEF Disown
      <3> QED BY <3>1, Zenon
    <2>2. \A w \in Window : g[w] \in Frame \cup {None}
      BY <1>2, <1>3
    <2> QED BY <2>1, <2>2, Zenon DEF Frames
  <1> QED BY <1>2, <1>3, <1>4

\* The largest member of a bounded set of naturals is in it.
LEMMA MaxIn ==
    ASSUME NEW N \in Nat, NEW S \in SUBSET (1 .. N), S # {}
    PROVE  Max(S) \in S
  <1> DEFINE T == {N - x : x \in S}
  <1>0. \A x \in S : N - x \in Nat
    OBVIOUS
  <1>1. T \subseteq Nat /\ T # {}
    BY <1>0
  <1>2. PICK m \in T : \A y \in T : m <= y
    <2> HIDE DEF T
    <2> QED BY <1>1, LeastMember
  <1>3. PICK x \in S : m = N - x
    BY <1>2
  <1>4. \A y \in S : x >= y
    <2> SUFFICES ASSUME NEW y \in S PROVE x >= y
      OBVIOUS
    <2>1. N - y \in T
      OBVIOUS
    <2>2. N - x <= N - y
      <3> HIDE DEF T
      <3> QED BY <1>2, <1>3, <2>1
    <2> QED BY <2>2, <1>3
  <1>5. \E z \in S : \A y \in S : z >= y
    BY <1>3, <1>4
  <1> QED BY <1>5, Zenon DEF Max

\* Child v is on pixel p since the commit that moved it, with bufs and places.
Fresh(v, p, win, size, bufs, places) ==
    /\ v \in child_surfaces /\ child_surface_window[v] = win /\ bufs[v] # None
    /\ p < size
    /\ child_surface_last_rect'[v] # None /\ p \in Covered(child_surface_last_rect'[v])
    /\ WindowOffset(places, v) # None

\* Every pixel of the window after repaint_moved_child_surfaces is the root's, a
\* moved child's where it is now, or what it was.
AfterMoved(win, size, bufs, places, h, first) ==
    /\ Painted(host', h, win)
    /\ child_surface_last_rect' \in [Surface -> Rect \cup {None}]
    /\ \A c \in Surface : \/ child_surface_last_rect'[c] = child_surface_last_rect[c]
                          \/ c \in child_surfaces /\ child_surface_window[c] = win
    /\ \A p \in Pixel :
          \/ Fresh(host'[win].px[p], p, win, size, bufs, places)
          \/ host'[win].px[p] = Root(win)
          \/ /\ host'[win].px[p] = h[win].px[p]
             /\ first /\ bufs[Root(win)] # None /\ bufs[Root(win)].holes = {} /\ p < size =>
                   \A c \in Surface : bufs[c] # None =>
                       child_surface_last_rect'[c] = child_surface_last_rect[c]

\* That is what RepaintMoved does.
LEMMA MovedPaints ==
    ASSUME Typed, Linked, NEW win \in Window, windows[win] \in Toplevel, NEW size \in 1 .. MaxWidth,
           NEW bufs \in [Surface -> Buffer \cup {None}], NEW places \in [Subs -> Int],
           NEW h \in Frames, h[win] # None, h[win].size = size, NEW first \in BOOLEAN,
           first /\ bufs[Root(win)] # None => bufs[Root(win)].w = size,
           RepaintMoved(win, size, bufs, places, h, first)
    PROVE  AfterMoved(win, size, bufs, places, h, first)
  <1> USE CompositorAssumption
  <1> DEFINE at       == [c \in child_surfaces |-> WindowOffset(places, c)]
             tracked  == {c \in child_surfaces : /\ child_surface_window[c] = win
                                                 /\ at[c] # None /\ at[c].win = win}
             kept     == {c \in tracked : bufs[c] # None}
             fit      == [c \in kept |-> CopyRect(bufs[c].w, at[c].x, size)]
             now      == [c \in kept |->
                            [x |-> at[c].x, w |-> IF fit[c] = None THEN 0 ELSE fit[c].w]]
             moved    == {c \in kept : GeomChanged(child_surface_last_rect[c], now[c])}
             shown    == {c \in moved : fit[c] # None}
             base     == IF moved # {} /\ first THEN Repaint(h, win, bufs) ELSE h
  <1>1. child_surface_last_rect' = [c \in Surface |-> IF c \in tracked \ kept THEN None
                                                      ELSE IF c \in moved THEN now[c]
                                                      ELSE child_surface_last_rect[c]]
    BY Zenon DEF RepaintMoved
  <1>2. PICK order \in SetToSeqs(shown) :
           host' = [base EXCEPT ![win].px =
                      [p \in Pixel |->
                         IF {i \in DOMAIN order : p \in Lit(bufs[order[i]], fit[order[i]])} = {}
                         THEN @[p]
                         ELSE order[Max({i \in DOMAIN order :
                                            p \in Lit(bufs[order[i]], fit[order[i]])})]]]
    BY Zenon DEF RepaintMoved
  <1>3. ASSUME NEW c \in kept
        PROVE  /\ c \in child_surfaces /\ c \in Surface /\ child_surface_window[c] = win
               /\ bufs[c] \in Buffer /\ WindowOffset(places, c) # None
               /\ now[c] \in Rect
               /\ fit[c] # None =>
                     /\ fit[c] \in Fit /\ fit[c].dst + fit[c].w <= size
                     /\ Covered(now[c]) = fit[c].dst .. fit[c].dst + fit[c].w - 1
    <2>1. c \in child_surfaces /\ c \in Surface /\ child_surface_window[c] = win
      BY DEF Typed, Child, Surface
    <2>2. at[c] = WindowOffset(places, c) /\ at[c] \in Route
      <3>1. Lives(WindowOffset(places, c))
        BY <2>1, OffsetLives
      <3> QED BY <2>1, <3>1 DEF Lives
    <2>3. bufs[c] \in Buffer
      BY <2>1
    <2> DEFINE x == at[c].x
               w == bufs[c].w
               f == fit[c]
    <2>4. x \in Int /\ w \in 1 .. MaxWidth
      BY <2>2, <2>3 DEF Route, Buffer
    <2>5. f = CopyRect(w, x, size) /\ now[c] = [x |-> x, w |-> IF f = None THEN 0 ELSE f.w]
      OBVIOUS
    <2>6. WindowOffset(places, c) # None
      BY <2>2
    <2> HIDE DEF x, w, f, at, now
    <2>7. f # None => /\ f \in Fit /\ f.w \in 1 .. MaxWidth /\ f.dst + f.w <= size
                      /\ f.dst = IF x < 0 THEN 0 ELSE x
      BY <2>4, <2>5, CopyRectFits
    <2>8. now[c] \in Rect
      BY <2>4, <2>5, <2>7 DEF Rect
    <2>9. f # None => Covered(now[c]) = f.dst .. f.dst + f.w - 1
      BY <2>4, <2>5, <2>7 DEF Covered
    <2> QED BY <2>1, <2>3, <2>6, <2>7, <2>8, <2>9 DEF f
  <1>4. tracked \subseteq child_surfaces /\ kept \subseteq tracked /\ moved \subseteq kept /\ shown \subseteq moved
        /\ (\A c \in tracked : child_surface_window[c] = win) /\ (\A c \in shown : fit[c] # None)
        /\ (\A c \in tracked : bufs[c] # None => c \in kept)
        /\ (\A c \in kept : bufs[c] # None)
    OBVIOUS
  <1> HIDE DEF at, tracked, kept, fit, now, moved, shown
  <1>5. Painted(base, h, win) /\ \A p \in Pixel : base[win].px[p] \in {Root(win), h[win].px[p]}
    <2>1. CASE moved # {} /\ first
      <3>1. base = Repaint(h, win, bufs)
        BY <2>1
      <3>2. bufs[Root(win)] # None => bufs[Root(win)] \in Buffer /\ bufs[Root(win)].w = size
        BY <2>1 DEF Root, Toplevel, Surface
      <3> HIDE DEF base
      <3> QED BY <3>1, <3>2, RepaintPaints
    <2>2. CASE ~(moved # {} /\ first)
      <3>1. base = h
        BY <2>2
      <3> QED BY <3>1 DEF Painted
    <2> QED BY <2>1, <2>2
  <1>6. moved # {} /\ first /\ bufs[Root(win)] # None /\ bufs[Root(win)].holes = {} =>
           \A p \in Pixel : p < size => base[win].px[p] = Root(win)
    <2> SUFFICES ASSUME moved # {}, first, bufs[Root(win)] # None, bufs[Root(win)].holes = {}
                 PROVE  \A p \in Pixel : p < size => base[win].px[p] = Root(win)
      OBVIOUS
    <2>1. base = Repaint(h, win, bufs)
      OBVIOUS
    <2>2. bufs[Root(win)] \in Buffer /\ bufs[Root(win)].w = size
      BY DEF Root, Toplevel, Surface
    <2> HIDE DEF base
    <2> QED BY <2>1, <2>2, RepaintPaints
  <1> HIDE DEF base
  <1> DEFINE On(p) == {i \in DOMAIN order : p \in Lit(bufs[order[i]], fit[order[i]])}
             px == [p \in Pixel |-> IF On(p) = {} THEN base[win].px[p] ELSE order[Max(On(p))]]
  <1>7. base[win] \in Frame /\ base \in Frames
    BY <1>5 DEF Painted, Frames
  <1>8. host' = [base EXCEPT ![win].px = px]
    BY <1>2, Zenon
  <1>9. ASSUME NEW p \in Pixel, On(p) # {}
        PROVE  /\ order[Max(On(p))] \in shown
               /\ p \in Lit(bufs[order[Max(On(p))]], fit[order[Max(On(p))]])
    <2>1. shown \subseteq Surface
      BY <1>3, <1>4
    <2>2. Cardinality(shown) \in Nat
      BY <2>1, ForestAssumption, FS_Subset, FS_CardinalityType
    <2>3. order \in [1 .. Cardinality(shown) -> shown]
      BY <1>2 DEF SetToSeqs
    <2>4. On(p) \in SUBSET (1 .. Cardinality(shown))
      BY <2>3
    <2>5. Max(On(p)) \in On(p)
      <3> HIDE DEF On
      <3> QED BY <2>2, <2>4, <1>9, MaxIn
    <2> QED BY <2>3, <2>5
  <1>10. ASSUME NEW p \in Pixel
         PROVE  \/ /\ px[p] \in shown /\ p < size
                   /\ p \in Covered(now[px[p]])
                \/ px[p] = base[win].px[p]
    <2>1. CASE On(p) = {}
      <3>1. px[p] = base[win].px[p]
        BY <2>1
      <3> QED BY <3>1
    <2>2. CASE On(p) # {}
      <3> DEFINE v == order[Max(On(p))]
      <3>1. px[p] = v
        BY <2>2
      <3>2. v \in shown /\ p \in Lit(bufs[v], fit[v])
        BY <2>2, <1>9
      <3> HIDE DEF v, px
      <3>3. v \in kept /\ fit[v] # None
        BY <3>2, <1>4
      <3>4. fit[v] \in Fit /\ fit[v].dst + fit[v].w <= size
            /\ Covered(now[v]) = fit[v].dst .. fit[v].dst + fit[v].w - 1
        BY <3>3, <1>3
      <3>5. fit[v].dst <= p /\ p < fit[v].dst + fit[v].w
        BY <3>2, <3>4, LitInside
      <3>6. p < size /\ p \in Covered(now[v])
        BY <3>4, <3>5 DEF Fit, Pixel
      <3> QED BY <3>1, <3>2, <3>6
    <2> QED BY <2>1, <2>2
  <1>11. px \in [Pixel -> Surface \cup {None}]
    <2>1. \A p \in Pixel : px[p] \in Surface \cup {None}
      <3> HIDE DEF px
      <3> QED BY <1>3, <1>4, <1>7, <1>10 DEF Frame
    <2> QED BY <2>1
  <1> HIDE DEF px, On
  <1>12. Painted(host', h, win) /\ host'[win].px = px
    <2>1. /\ host' \in Frames /\ host'[win] \in Frame
          /\ host'[win].size = base[win].size /\ host'[win].px = px
          /\ \A w \in Window \ {win} : host'[w] = base[w]
      BY <1>7, <1>8, <1>11 DEF Frames, Frame
    <2> QED BY <2>1, <1>5 DEF Painted
  <1>13. child_surface_last_rect' \in [Surface -> Rect \cup {None}]
    BY <1>1, <1>3, <1>4 DEF Typed
  <1>14. \A c \in Surface : child_surface_last_rect'[c] = child_surface_last_rect[c]
                            \/ (c \in child_surfaces /\ child_surface_window[c] = win)
    <2> SUFFICES ASSUME NEW c \in Surface, c \notin tracked
                 PROVE  child_surface_last_rect'[c] = child_surface_last_rect[c]
      BY <1>4
    <2>1. c \notin moved
      BY <1>4
    <2> QED BY <1>1, <2>1
  <1>15. \A c \in shown : child_surface_last_rect'[c] = now[c] /\ now[c] # None
    BY <1>1, <1>3, <1>4
  <1>16. moved = {} => \A c \in Surface : bufs[c] # None =>
                           child_surface_last_rect'[c] = child_surface_last_rect[c]
    BY <1>1, <1>4
  <1>17. ASSUME NEW p \in Pixel
         PROVE  \/ Fresh(px[p], p, win, size, bufs, places)
                \/ px[p] = Root(win)
                \/ /\ px[p] = h[win].px[p]
                   /\ first /\ bufs[Root(win)] # None /\ bufs[Root(win)].holes = {} /\ p < size =>
                          \A c \in Surface : bufs[c] # None =>
                              child_surface_last_rect'[c] = child_surface_last_rect[c]
    <2>1. CASE px[p] \in shown /\ p < size /\ p \in Covered(now[px[p]])
      BY <2>1, <1>3, <1>4, <1>15 DEF Fresh
    <2>2. CASE px[p] = base[win].px[p]
      BY <2>2, <1>5, <1>6, <1>16
    <2> QED BY <2>1, <2>2, <1>10
  <1> QED BY <1>12, <1>13, <1>14, <1>17 DEF AfterMoved

-----------------------------------------------------------------------------
(* Commits, by what they do to the window.                                 *)

\* The window of a toplevel, as Typed and Linked describe it.
LEMMA WindowOf ==
    ASSUME Typed, Linked, NEW s \in Surface, surface_to_window[s] # None
    PROVE  LET win == surface_to_window[s]
           IN  /\ s \in Tops /\ win \in Window
               /\ windows[win] \in Toplevel /\ windows[win].surface = s
               /\ host \in Frames /\ host[win] \in Frame /\ host[win] # None
               /\ host[win].size = windows[win].size /\ windows[win].size \in 1 .. MaxWidth
  BY CompositorAssumption DEF Typed, Linked, Root, Frames, Toplevel

\* What pixel p of window win shows after a commit of its root, drawing or not.
AfterRoot(p, win, size, bufs, places, drawn) ==
    \/ Fresh(host'[win].px[p], p, win, size, bufs, places)
    \/ host'[win].px[p] \notin Child
    \/ /\ drawn # None /\ host'[win].px[p] = host[win].px[p]
       /\ drawn.holes = {} => p >= windows[win].size
    \/ /\ drawn = None /\ host'[win].px[p] = host[win].px[p]
       /\ bufs[Root(win)] # None /\ bufs[Root(win)].holes = {} /\ p < size =>
             \A c \in Surface : bufs[c] # None =>
                 child_surface_last_rect'[c] = child_surface_last_rect[c]

\* The commit of a root.
LEMMA RootPaints ==
    ASSUME Typed, Linked, Sized, NEW s \in Tops, NEW win, surface_to_window[s] = win, win # None,
           NEW bufs \in [Surface -> Buffer \cup {None}], NEW drawn \in Buffer \cup {None},
           drawn = None => bufs[s] \in {current_buffers[s], None},
           NEW places \in [Subs -> Int], RootCommit(s, win, bufs, drawn, places),
           NEW size, size = IF drawn = None THEN windows[win].size ELSE drawn.w
    PROVE  /\ windows' \in [Window -> Toplevel \cup {None}]
           /\ windows'[win] # None /\ windows'[win].surface = s /\ windows'[win].size = size
           /\ \A w \in Window \ {win} : windows'[w] = windows[w]
           /\ host' \in Frames /\ host'[win] # None /\ host'[win].size = size
           /\ \A w \in Window \ {win} : host'[w] = host[w]
           /\ child_surface_last_rect' \in [Surface -> Rect \cup {None}]
           /\ \A c \in Surface : \/ child_surface_last_rect'[c] = child_surface_last_rect[c]
                                 \/ c \in child_surfaces /\ child_surface_window[c] = win
           /\ \A p \in Pixel : AfterRoot(p, win, size, bufs, places, drawn)
  <1> USE CompositorAssumption
  <1>1. /\ win \in Window /\ s \in Surface
        /\ windows[win] \in Toplevel /\ windows[win].surface = s
        /\ host \in Frames /\ host[win] \in Frame /\ host[win] # None
        /\ host[win].size = windows[win].size /\ windows[win].size \in 1 .. MaxWidth
    BY WindowOf DEF Surface
  <1>2. s \notin Child /\ Root(win) = s
    BY <1>1 DEF Child, Root
  <1>3. CASE drawn = None
    <2>1. size = windows[win].size /\ size \in 1 .. MaxWidth
      BY <1>1, <1>3
    <2>2. windows' = windows /\ RepaintMoved(win, size, bufs, places, host, TRUE)
      BY <1>3, <2>1 DEF RootCommit
    <2>3. bufs[Root(win)] # None => bufs[Root(win)].w = size
      BY <1>1, <1>2, <1>3, <2>1 DEF Sized
    <2>4. /\ Painted(host', host, win)
          /\ child_surface_last_rect' \in [Surface -> Rect \cup {None}]
          /\ \A c \in Surface : \/ child_surface_last_rect'[c] = child_surface_last_rect[c]
                                \/ c \in child_surfaces /\ child_surface_window[c] = win
          /\ \A p \in Pixel :
                 \/ Fresh(host'[win].px[p], p, win, size, bufs, places)
                 \/ host'[win].px[p] = Root(win)
                 \/ /\ host'[win].px[p] = host[win].px[p]
                    /\ TRUE /\ bufs[Root(win)] # None /\ bufs[Root(win)].holes = {} /\ p < size =>
                          \A c \in Surface : bufs[c] # None =>
                              child_surface_last_rect'[c] = child_surface_last_rect[c]
      <3>1. AfterMoved(win, size, bufs, places, host, TRUE)
        BY <1>1, <2>1, <2>2, <2>3, MovedPaints
      <3> QED BY <3>1 DEF AfterMoved
    <2>5. \A p \in Pixel : AfterRoot(p, win, size, bufs, places, drawn)
      BY <2>4, <1>2, <1>3 DEF AfterRoot
    <2>6. /\ host' \in Frames /\ host'[win] # None /\ host'[win].size = size
          /\ \A w \in Window \ {win} : host'[w] = host[w]
      BY <2>4, <2>1, <1>1 DEF Painted
    <2>7. /\ windows' \in [Window -> Toplevel \cup {None}]
          /\ windows'[win] # None /\ windows'[win].surface = s /\ windows'[win].size = size
          /\ \A w \in Window \ {win} : windows'[w] = windows[w]
      BY <1>1, <2>1, <2>2 DEF Typed
    <2> QED BY <2>4, <2>5, <2>6, <2>7
  <1>4. CASE drawn # None
    <2>1. size = drawn.w /\ size \in 1 .. MaxWidth /\ drawn \in Buffer
      BY <1>4 DEF Buffer
    <2> DEFINE f == IF windows[win].size = size THEN host ELSE ApplyConfigured(host, win, size)
               h == RootTile(f, win, s, drawn)
    <2>2. windows' = [windows EXCEPT ![win].size = size] /\ RepaintMoved(win, size, bufs, places, h, FALSE)
      BY <1>4, <2>1, Zenon DEF RootCommit
    <2>3. /\ f \in Frames /\ f[win] # None /\ f[win].size = size
          /\ \A w \in Window \ {win} : f[w] = host[w]
          /\ \A p \in Pixel : \/ f[win].px[p] = None
                              \/ f[win].px[p] = host[win].px[p] /\ size >= windows[win].size
      <3>1. CASE windows[win].size = size
        BY <3>1, <1>1
      <3>2. CASE windows[win].size # size
        <4>1. f = ApplyConfigured(host, win, size)
          BY <3>2
        <4> HIDE DEF f
        <4>2. /\ f \in Frames /\ f[win] # None /\ f[win].size = size
              /\ \A w \in Window \ {win} : f[w] = host[w]
              /\ size < host[win].size => \A p \in Pixel : f[win].px[p] = None
              /\ size >= host[win].size => \A p \in Pixel : f[win].px[p] = host[win].px[p]
          BY <4>1, <1>1, <2>1, ConfiguredFrame
        <4> QED BY <4>2, <1>1, <2>1
      <3> QED BY <3>1, <3>2
    <2> HIDE DEF f
    <2>4. /\ Painted(h, f, win)
          /\ \A p \in Pixel : h[win].px[p] \in {s, f[win].px[p]}
          /\ drawn.holes = {} => \A p \in Pixel : p < drawn.w => h[win].px[p] = s
      BY <1>1, <2>1, <2>3, RootTilePaints
    <2> HIDE DEF h
    <2>5. /\ h \in Frames /\ h[win] # None /\ h[win].size = size
          /\ \A w \in Window \ {win} : h[w] = host[w]
      BY <2>3, <2>4 DEF Painted
    <2>6. \A p \in Pixel : \/ h[win].px[p] \notin Child
                           \/ /\ h[win].px[p] = host[win].px[p]
                              /\ drawn.holes = {} => p >= windows[win].size
      <3> SUFFICES ASSUME NEW p \in Pixel
                   PROVE  \/ h[win].px[p] \notin Child
                          \/ /\ h[win].px[p] = host[win].px[p]
                             /\ drawn.holes = {} => p >= windows[win].size
        OBVIOUS
      <3>1. None \notin Child
        BY DEF Child, Surface
      <3>2. h[win].px[p] \in {s, None} \/ (h[win].px[p] = host[win].px[p] /\ size >= windows[win].size)
        BY <2>3, <2>4
      <3>3. drawn.holes = {} /\ p < size => h[win].px[p] = s
        BY <2>1, <2>4
      <3>4. p \in Int
        BY DEF Pixel
      <3> QED BY <3>1, <3>2, <3>3, <3>4, <1>1, <1>2, <2>1
    <2>7. /\ Painted(host', h, win)
          /\ child_surface_last_rect' \in [Surface -> Rect \cup {None}]
          /\ \A c \in Surface : \/ child_surface_last_rect'[c] = child_surface_last_rect[c]
                                \/ c \in child_surfaces /\ child_surface_window[c] = win
          /\ \A p \in Pixel :
                 \/ Fresh(host'[win].px[p], p, win, size, bufs, places)
                 \/ host'[win].px[p] = Root(win)
                 \/ /\ host'[win].px[p] = h[win].px[p]
                    /\ FALSE /\ bufs[Root(win)] # None /\ bufs[Root(win)].holes = {} /\ p < size =>
                          \A c \in Surface : bufs[c] # None =>
                              child_surface_last_rect'[c] = child_surface_last_rect[c]
      <3>1. AfterMoved(win, size, bufs, places, h, FALSE)
        BY <1>1, <2>1, <2>2, <2>5, MovedPaints
      <3> QED BY <3>1 DEF AfterMoved
    <2>8. \A p \in Pixel : AfterRoot(p, win, size, bufs, places, drawn)
      <3> SUFFICES ASSUME NEW p \in Pixel PROVE AfterRoot(p, win, size, bufs, places, drawn)
        OBVIOUS
      <3>1. \/ Fresh(host'[win].px[p], p, win, size, bufs, places)
            \/ host'[win].px[p] = Root(win)
            \/ host'[win].px[p] = h[win].px[p]
        BY <2>7
      <3> QED BY <3>1, <2>6, <1>2, <1>4 DEF AfterRoot
    <2>9. /\ host' \in Frames /\ host'[win] # None /\ host'[win].size = size
          /\ \A w \in Window \ {win} : host'[w] = host[w]
      BY <2>5, <2>7 DEF Painted
    <2>10. /\ windows' \in [Window -> Toplevel \cup {None}]
           /\ windows'[win] # None /\ windows'[win].surface = s /\ windows'[win].size = size
           /\ \A w \in Window \ {win} : windows'[w] = windows[w]
      <3>1. [windows[win] EXCEPT !.size = size] \in Toplevel
        BY <1>1, <2>1 DEF Toplevel
      <3> QED BY <3>1, <1>1, <2>1, <2>2 DEF Typed, Toplevel
    <2> QED BY <2>7, <2>8, <2>9, <2>10
  <1> QED BY <1>3, <1>4

\* Roots without transparent pixels: the viewer does not write those.
Opaque == \A b \in RootBuffer : b.holes = {}

\* g is what the viewer shows once the root of window win is painted again.
Repainted(g, win, bufs) ==
    /\ Painted(g, host, win)
    /\ \A p \in Pixel : g[win].px[p] \in {Root(win), host[win].px[p]}
    /\ Opaque /\ bufs[Root(win)] # None =>
          \A p \in Pixel : p < windows[win].size => g[win].px[p] = Root(win)

\* A live window's root painted again.
LEMMA RepaintNow ==
    ASSUME Typed, Linked, Sized, NEW win \in Window, windows[win] # None,
           NEW bufs, bufs[Root(win)] \in {current_buffers[Root(win)], None},
           NEW g, g = Repaint(host, win, bufs)
    PROVE  Repainted(g, win, bufs)
  <1> USE CompositorAssumption
  <1>1. /\ windows[win] \in Toplevel /\ Root(win) \in Tops /\ surface_to_window[Root(win)] = win
        /\ host \in Frames /\ host[win] # None /\ host[win].size = windows[win].size
    BY DEF Typed, Linked, Frames, Toplevel, Root
  <1> DEFINE size == windows[win].size
  <1>2. bufs[Root(win)] # None =>
           /\ bufs[Root(win)] \in RootBuffer
           /\ bufs[Root(win)] \in Buffer /\ bufs[Root(win)].w = size
    BY <1>1 DEF Sized
  <1>3. size = host[win].size
    BY <1>1
  <1> HIDE DEF size
  <1>4. /\ Painted(g, host, win)
        /\ \A p \in Pixel : g[win].px[p] \in {Root(win), host[win].px[p]}
        /\ bufs[Root(win)] # None /\ bufs[Root(win)].holes = {} =>
              \A p \in Pixel : p < size => g[win].px[p] = Root(win)
    BY <1>1, <1>2, <1>3, RepaintPaints
  <1> QED BY <1>2, <1>4 DEF Opaque, size, Repainted

\* What pixel p of window win shows after a commit of child s with buffer drawn.
AfterChild(p, win, s, drawn) ==
    \/ /\ host'[win].px[p] = s /\ drawn # None /\ p < windows[win].size
       /\ child_surface_last_rect'[s] # None /\ p \in Covered(child_surface_last_rect'[s])
    \/ host'[win].px[p] \notin Child
    \/ /\ host'[win].px[p] = host[win].px[p]
       /\ \/ child_surface_last_rect'[s] = child_surface_last_rect[s]
          \/ child_surface_last_rect[s] = None
          \/ Opaque /\ current_buffers[Root(win)] # None => p >= windows[win].size

\* The commit of a child.
LEMMA ChildPaints ==
    ASSUME Typed, Linked, Sized, NEW s \in Child, NEW at \in Route, windows[at.win] # None,
           NEW bufs, NEW drawn \in Buffer \cup {None},
           bufs[Root(at.win)] = current_buffers[Root(at.win)],
           ChildCommit(s, at, bufs, drawn)
    PROVE  /\ Painted(host', host, at.win)
           /\ child_surface_last_rect' \in [Surface -> Rect \cup {None}]
           /\ \A c \in Surface \ {s} : child_surface_last_rect'[c] = child_surface_last_rect[c]
           /\ \A p \in Pixel : AfterChild(p, at.win, s, drawn)
  <1> USE CompositorAssumption
  <1> DEFINE win == at.win
             size == windows[win].size
  <1>1. /\ win \in Window /\ s \in Surface /\ at.x \in Int
        /\ windows[win] \in Toplevel /\ Root(win) \in Tops /\ Root(win) \notin Child
        /\ host \in Frames /\ host[win] # None /\ host[win].size = size /\ size \in 1 .. MaxWidth
    BY DEF Typed, Linked, Frames, Toplevel, Root, Route, Child, Surface
  <1> HIDE DEF win, size
  <1>2. CASE UNCHANGED <<child_surface_last_rect, host>>
    BY <1>1, <1>2 DEF Painted, AfterChild, Typed, win
  <1>3. CASE drawn # None /\ ChildDraws(s, at, bufs, drawn) /\ ~UNCHANGED <<child_surface_last_rect, host>>
    <2> DEFINE fit  == CopyRect(drawn.w, at.x, ChildBounds(at.win))
               now  == [x |-> at.x, w |-> fit.w]
               base == IF GeomChanged(child_surface_last_rect[s], now)
                       THEN Repaint(host, at.win, bufs) ELSE host
    <2>1. /\ fit # None
          /\ child_surface_last_rect' = [child_surface_last_rect EXCEPT ![s] = now]
          /\ host' = ApplyTile(base, at.win, s, drawn, fit)
      BY <1>3, Zenon DEF ChildDraws
    <2>2. drawn.w \in 1 .. MaxWidth /\ ChildBounds(at.win) = size
      BY <1>3 DEF Buffer, ChildBounds, size, win
    <2>3. fit = CopyRect(drawn.w, at.x, size)
      BY <2>2
    <2> HIDE DEF fit
    <2>4. /\ fit \in Fit /\ fit.w \in 1 .. MaxWidth /\ fit.dst + fit.w <= size
          /\ fit.dst = IF at.x < 0 THEN 0 ELSE at.x
      BY <1>1, <2>1, <2>2, <2>3, CopyRectFits
    <2>5. now \in Rect /\ Covered(now) = fit.dst .. fit.dst + fit.w - 1
      BY <1>1, <2>4 DEF Rect, Covered
    <2> HIDE DEF now
    <2>6. /\ Painted(base, host, win)
          /\ \A p \in Pixel : base[win].px[p] \in {Root(win), host[win].px[p]}
          /\ \/ base = host /\ child_surface_last_rect[s] \in {None, now}
             \/ Opaque /\ current_buffers[Root(win)] # None =>
                   \A p \in Pixel : p < size => base[win].px[p] = Root(win)
      <3>1. CASE GeomChanged(child_surface_last_rect[s], now)
        <4>1. base = Repaint(host, win, bufs)
          BY <3>1 DEF win
        <4> HIDE DEF base
        <4>2. bufs[Root(win)] = current_buffers[Root(win)] /\ windows[win] # None
          BY DEF win
        <4>3. Repainted(base, win, bufs)
          BY <1>1, <4>1, <4>2, RepaintNow
        <4> QED BY <4>2, <4>3 DEF size, Repainted
      <3>2. CASE ~GeomChanged(child_surface_last_rect[s], now)
        <4>1. base = host
          BY <3>2
        <4> QED BY <4>1, <3>2, <1>1 DEF Painted, GeomChanged
      <3> QED BY <3>1, <3>2
    <2> HIDE DEF base
    <2>7. base \in Frames /\ base[win] # None /\ fit.dst + fit.w <= base[win].size
      BY <1>1, <2>4, <2>6 DEF Painted
    <2>8. /\ Painted(host', base, win)
          /\ \A p \in Pixel : host'[win].px[p] = IF p \in Lit(drawn, fit) THEN s ELSE base[win].px[p]
      BY <1>1, <2>1, <2>4, <2>7, TilePaints DEF win
    <2>9. Painted(host', host, win)
      BY <2>6, <2>8 DEF Painted
    <2>10. /\ child_surface_last_rect' \in [Surface -> Rect \cup {None}]
           /\ child_surface_last_rect'[s] = now /\ now # None
           /\ \A c \in Surface \ {s} : child_surface_last_rect'[c] = child_surface_last_rect[c]
      BY <1>1, <2>1, <2>5 DEF Typed
    <2>11. ASSUME NEW p \in Pixel PROVE AfterChild(p, win, s, drawn)
      <3>1. CASE p \in Lit(drawn, fit)
        <4>1. fit.dst <= p /\ p < fit.dst + fit.w
          BY <3>1, <2>4, LitInside
        <4>2. p < size /\ p \in Covered(now)
          BY <4>1, <1>1, <2>4, <2>5 DEF Fit, Pixel
        <4> QED BY <3>1, <4>2, <2>8, <2>10, <1>3 DEF AfterChild, size
      <3>2. CASE p \notin Lit(drawn, fit)
        <4>1. host'[win].px[p] = base[win].px[p]
          BY <3>2, <2>8
        <4>2. CASE base = host /\ child_surface_last_rect[s] \in {None, now}
          BY <4>1, <4>2, <2>10 DEF AfterChild
        <4>3. CASE Opaque /\ current_buffers[Root(win)] # None =>
                      \A q \in Pixel : q < size => base[win].px[q] = Root(win)
          <5>1. base[win].px[p] = Root(win) \/ base[win].px[p] = host[win].px[p]
            BY <2>6
          <5>2. p \in Int /\ size \in Int
            BY <1>1 DEF Pixel
          <5> QED BY <4>1, <4>3, <5>1, <5>2, <1>1 DEF AfterChild, size
        <4> QED BY <4>2, <4>3, <2>6
      <3> QED BY <3>1, <3>2
    <2> QED BY <2>9, <2>10, <2>11 DEF win
  <1>4. UNCHANGED <<child_surface_last_rect, host>> \/ (drawn # None /\ ChildDraws(s, at, bufs, drawn))
    BY Zenon DEF ChildCommit
  <1> QED BY <1>2, <1>3, <1>4

\* A commit of s, with the locations and buffers it makes current and what it draws.
CommitOf(s, places, bufs, drawn) ==
    /\ s \in alive /\ loc' = places /\ places \in [Subs -> Int]
    /\ UNCHANGED <<alive, role, parent, surface_to_window, next_window_id>>
    /\ bufs \in [Surface -> Buffer \cup {None}] /\ drawn \in Buffer \cup {None}
    /\ \A c \in Surface \ {s} : bufs[c] = current_buffers[c]
    /\ drawn # None => bufs[s] = drawn /\ (s \in Tops => drawn \in RootBuffer)
    /\ drawn = None => bufs[s] \in {current_buffers[s], None}

CommitNowhere == UNCHANGED <<windows, routes, children, current_buffers, host>>

CommitAt(s, places, bufs, drawn) ==
    LET at == WindowOffset(places, s)
    IN  /\ s \in Child /\ at \in Route /\ windows[at.win] # None
        /\ \/ Detach(s, at.win)
           \/ /\ ChildCommit(s, at, bufs, drawn)
              /\ bufs[s] # None \/ bufs[s] = current_buffers[s]

\* A commit does nothing, is one of a root, or is one of a child.
LEMMA CommitCases ==
    ASSUME Typed, Linked, Sized, NEW s \in Surface, NEW kind, NEW b,
           kind = "new" => b \in Content(s), Commit(s, kind, b)
    PROVE  \E places, bufs, drawn :
              /\ CommitOf(s, places, bufs, drawn)
              /\ \/ CommitNowhere /\ surface_to_window[s] = None
                 \/ /\ surface_to_window[s] # None
                    /\ RootCommit(s, surface_to_window[s], bufs, drawn, places)
                 \/ CommitAt(s, places, bufs, drawn)
  <1> USE CompositorAssumption
  <1> DEFINE bufs == IF kind = "new" THEN [current_buffers EXCEPT ![s] = b]
                     ELSE IF kind = "removed" THEN [current_buffers EXCEPT ![s] = None]
                     ELSE current_buffers
             drawn == IF kind = "new" THEN b
                      ELSE IF kind = "damage" THEN current_buffers[s] ELSE None
  <1>1. PICK places \in Placements(s) :
           LET at == WindowOffset(places, s)
           IN  /\ loc' = places
               /\ IF at = None
                  THEN UNCHANGED <<windows, routes, children, current_buffers, host>>
                  ELSE IF surface_to_window[s] = at.win
                  THEN RootCommit(s, at.win, bufs, drawn, places)
                  ELSE IF kind = "removed" THEN Detach(s, at.win)
                  ELSE ChildCommit(s, at, bufs, drawn)
    BY Zenon DEF Commit
  <1>2. s \in alive /\ UNCHANGED <<alive, role, parent, surface_to_window, next_window_id>>
    BY Zenon DEF Commit
  <1> DEFINE at == WindowOffset(places, s)
  <1>3. places \in [Subs -> Int]
    <2>1. places \in [Subs -> Place \cup {0}]
      BY Zenon DEF Placements
    <2>2. \A x \in Place \cup {0} : x \in Int
      OBVIOUS
    <2> HIDE DEF bufs, drawn
    <2> QED BY <2>1, <2>2
  <1>4. kind = "new" => b \in Buffer /\ (s \in Tops => b \in RootBuffer)
    BY DEF Content
  <1>5. current_buffers \in [Surface -> Buffer \cup {None}] /\ (s \in Tops /\ current_buffers[s] # None => current_buffers[s] \in RootBuffer)
    BY DEF Typed, Sized
  <1>6. /\ bufs \in [Surface -> Buffer \cup {None}] /\ drawn \in Buffer \cup {None}
        /\ \A c \in Surface \ {s} : bufs[c] = current_buffers[c]
    BY <1>4, <1>5
  <1>7. drawn # None => bufs[s] = drawn /\ (s \in Tops => drawn \in RootBuffer)
    BY <1>4, <1>5
  <1>8. drawn = None => bufs[s] \in {current_buffers[s], None}
    BY <1>4, <1>5
  <1>9. kind # "removed" => bufs[s] # None \/ bufs[s] = current_buffers[s]
    BY <1>4, <1>5
  <1>10. \/ at = None /\ CommitNowhere
         \/ at # None /\ surface_to_window[s] = at.win /\ RootCommit(s, at.win, bufs, drawn, places)
         \/ at # None /\ surface_to_window[s] # at.win /\ kind = "removed" /\ Detach(s, at.win)
         \/ at # None /\ surface_to_window[s] # at.win /\ kind # "removed" /\ ChildCommit(s, at, bufs, drawn)
    <2> HIDE DEF bufs, drawn
    <2> QED BY <1>1, Zenon DEF CommitNowhere
  <1>11. Lives(at)
    BY <1>3, OffsetLives
  <1>12. surface_to_window[s] # None => at = [win |-> surface_to_window[s], x |-> 0]
    BY <1>3, OffsetHere
  <1>13. surface_to_window[s] = None /\ s \notin Subs => at = popup_routes[s]
    BY <1>3, OffsetHere
  <1>14. loc' = places
    BY <1>1
  <1> HIDE DEF bufs, drawn, at
  <1>15. CommitOf(s, places, bufs, drawn)
    BY <1>2, <1>3, <1>6, <1>7, <1>8, <1>14 DEF CommitOf
  <1>16. CASE at # None /\ surface_to_window[s] = at.win /\ RootCommit(s, at.win, bufs, drawn, places)
    <2>1. surface_to_window[s] # None
      BY <1>11, <1>16 DEF Lives, Route, Window
    <2> QED BY <1>15, <1>16, <2>1
  <1>17. CASE /\ at # None /\ surface_to_window[s] # at.win
              /\ \/ kind = "removed" /\ Detach(s, at.win)
                 \/ kind # "removed" /\ ChildCommit(s, at, bufs, drawn)
    <2>1. surface_to_window[s] = None
      BY <1>12, <1>17
    <2>2. s \in Child
      BY <2>1, <1>13, <1>17 DEF Linked, Child, Surface
    <2>3. at \in Route /\ windows[at.win] # None
      BY <1>11, <1>17 DEF Lives
    <2>4. CommitAt(s, places, bufs, drawn)
      BY <2>2, <2>3, <1>9, <1>17 DEF CommitAt, at
    <2> QED BY <1>15, <2>4
  <1>18. at = None => surface_to_window[s] = None
    <2> SUFFICES ASSUME surface_to_window[s] # None PROVE at # None
      OBVIOUS
    <2>1. surface_to_window[s] \in Window
      BY DEF Typed
    <2> QED BY <2>1, <1>12 DEF Route
  <1> QED BY <1>10, <1>15, <1>16, <1>17, <1>18

-----------------------------------------------------------------------------
(* What holds of the windows, whoever a child belongs to.                  *)

BaseInv == Typed /\ Linked /\ Sized

\* A commit of a root.
LEMMA RootBase ==
    ASSUME BaseInv, NEW s \in Surface, NEW places, NEW bufs, NEW drawn,
           CommitOf(s, places, bufs, drawn), surface_to_window[s] # None,
           RootCommit(s, surface_to_window[s], bufs, drawn, places)
    PROVE  BaseInv'
  <1> USE CompositorAssumption
  <1> DEFINE win == surface_to_window[s]
             size == IF drawn = None THEN windows[win].size ELSE drawn.w
  <1>1. s \in Tops /\ win \in Window /\ Root(win) = s
    BY DEF BaseInv, Typed, Linked
  <1>2. /\ windows' \in [Window -> Toplevel \cup {None}]
        /\ windows'[win] # None /\ windows'[win].surface = s /\ windows'[win].size = size
        /\ \A w \in Window \ {win} : windows'[w] = windows[w]
        /\ host' \in Frames /\ host'[win] # None /\ host'[win].size = size
        /\ \A w \in Window \ {win} : host'[w] = host[w]
        /\ child_surface_last_rect' \in [Surface -> Rect \cup {None}]
    <2>1. /\ Typed /\ Linked /\ Sized
          /\ bufs \in [Surface -> Buffer \cup {None}] /\ drawn \in Buffer \cup {None}
          /\ (drawn = None => bufs[s] \in {current_buffers[s], None})
          /\ places \in [Subs -> Int]
      BY DEF BaseInv, CommitOf
    <2> HIDE DEF size, win
    <2>2. win = surface_to_window[s] /\ size = IF drawn = None THEN windows[win].size ELSE drawn.w
      BY DEF win, size
    <2>3. win # None /\ RootCommit(s, win, bufs, drawn, places)
      BY DEF win
    <2> QED BY <1>1, <2>1, <2>2, <2>3, RootPaints
  <1>3. current_buffers' = bufs /\ UNCHANGED <<routes, child_surface_window, child_surfaces>>
    BY DEF RootCommit
  <1>4. /\ UNCHANGED <<alive, role, parent, surface_to_window, next_window_id>>
        /\ loc' \in [Subs -> Int] /\ bufs \in [Surface -> Buffer \cup {None}]
    BY DEF CommitOf
  <1>5. size = IF drawn = None THEN windows[win].size ELSE drawn.w
    OBVIOUS
  <1> HIDE DEF size
  <1>6. Typed'
    BY <1>2, <1>3, <1>4 DEF BaseInv, Typed, routes, Frames
  <1>7. Linked'
    <2>1. ASSUME NEW w \in Window, windows'[w] # None
          PROVE  /\ surface_to_window'[windows'[w].surface] = w /\ w < next_window_id'
                 /\ host'[w] # None /\ host'[w].size = windows'[w].size
      BY <1>1, <1>2, <1>4, <2>1 DEF BaseInv, Linked, Root
    <2>2. \A t \in Surface : surface_to_window'[t] # None =>
             /\ t \in Tops /\ t \in role' /\ windows'[surface_to_window'[t]] # None
             /\ windows'[surface_to_window'[t]].surface = t
      BY <1>1, <1>2, <1>4 DEF BaseInv, Typed, Linked, Root
    <2>3. \A t \in Surface : popup_routes'[t] # None =>
             t \in Pops /\ windows'[popup_routes'[t].win] # None
      BY <1>2, <1>3 DEF BaseInv, Typed, Linked, routes, Route
    <2>4. \A t \in Pops : t \in role' => parent'[t] # None
      BY <1>4 DEF BaseInv, Linked
    <2> QED BY <2>1, <2>2, <2>3, <2>4, <1>4 DEF BaseInv, Linked, Root
  <1>8. Sized'
    <2> SUFFICES ASSUME NEW t \in Tops, bufs[t] # None
                 PROVE  /\ bufs[t] \in RootBuffer /\ surface_to_window[t] # None
                        /\ bufs[t].w = windows'[surface_to_window[t]].size
      BY <1>3, <1>4 DEF Sized
    <2>1. CASE t = s
      BY <2>1, <1>1, <1>2, <1>5 DEF BaseInv, Sized, CommitOf
    <2>2. CASE t # s
      <3>1. bufs[t] = current_buffers[t]
        BY <2>2 DEF CommitOf, Surface
      <3>2. surface_to_window[t] # None /\ surface_to_window[t] # win /\ surface_to_window[t] \in Window
        BY <1>1, <2>2, <3>1 DEF BaseInv, Sized, Linked, Typed, Surface
      <3> QED BY <1>2, <3>1, <3>2 DEF BaseInv, Sized
    <2> QED BY <2>1, <2>2
  <1> QED BY <1>6, <1>7, <1>8 DEF BaseInv

\* Nothing that is painted in a live window, and no change of the children's
\* maps or of their buffers, disturbs the windows.
LEMMA PaintedBase ==
    ASSUME BaseInv, NEW win \in Window, windows[win] # None, Painted(host', host, win),
           UNCHANGED ids, loc' \in [Subs -> Int],
           alive' \subseteq Surface, UNCHANGED <<role>>,
           parent' \in [Child -> Surface \cup {None}],
           \A c \in Child : parent'[c] \in Parents[c] \cup {None},
           \A c \in Pops : parent'[c] = parent[c],
           popup_routes' \in [Surface -> Route \cup {None}],
           \A c \in Surface : popup_routes'[c] \in {popup_routes[c], None},
           child_surface_window' \in [Surface -> Window \cup {None}],
           child_surfaces' \subseteq Child,
           child_surface_last_rect' \in [Surface -> Rect \cup {None}],
           current_buffers' \in [Surface -> Buffer \cup {None}],
           \A t \in Tops : current_buffers'[t] \in {current_buffers[t], None}
    PROVE  BaseInv'
  <1> USE CompositorAssumption
  <1>1. Typed'
    BY DEF BaseInv, Typed, ids, Painted, Frames
  <1>2. Linked'
    BY DEF BaseInv, Linked, Typed, ids, Painted, Root
  <1>3. Sized'
    BY DEF BaseInv, Sized, ids
  <1> QED BY <1>1, <1>2, <1>3 DEF BaseInv

\* CompositorHandler::commit.
LEMMA CommitBase ==
    ASSUME BaseInv, NEW s \in Surface, NEW kind, NEW b,
           kind = "new" => b \in Content(s), Commit(s, kind, b)
    PROVE  BaseInv'
  <1> USE CompositorAssumption
  <1>1. PICK places, bufs, drawn :
              /\ CommitOf(s, places, bufs, drawn)
              /\ \/ CommitNowhere /\ surface_to_window[s] = None
                 \/ /\ surface_to_window[s] # None
                    /\ RootCommit(s, surface_to_window[s], bufs, drawn, places)
                 \/ CommitAt(s, places, bufs, drawn)
    BY CommitCases DEF BaseInv
  <1>2. CASE CommitNowhere
    BY <1>1, <1>2 DEF CommitOf, CommitNowhere, BaseInv, Typed, Linked, Sized, Root, routes, children
  <1>3. CASE surface_to_window[s] # None /\ RootCommit(s, surface_to_window[s], bufs, drawn, places)
    BY <1>1, <1>3, RootBase
  <1>4. CASE CommitAt(s, places, bufs, drawn)
    <2> DEFINE at == WindowOffset(places, s)
    <2>1. /\ s \in Child /\ at \in Route /\ windows[at.win] # None
          /\ Detach(s, at.win) \/ ChildCommit(s, at, bufs, drawn)
      BY <1>4 DEF CommitAt
    <2> HIDE DEF at
    <2>2. at.win \in Window /\ Root(at.win) \in Tops /\ Root(at.win) # s /\ s \in Surface /\ s \notin Tops
      BY <2>1 DEF Route, BaseInv, Typed, Toplevel, Root, Child, Surface
    <2>3. /\ UNCHANGED <<alive, role, parent, surface_to_window, next_window_id>>
          /\ loc' \in [Subs -> Int]
          /\ bufs \in [Surface -> Buffer \cup {None}] /\ drawn \in Buffer \cup {None}
          /\ \A c \in Surface \ {s} : bufs[c] = current_buffers[c]
      BY <1>1 DEF CommitOf
    <2>4. /\ alive' \subseteq Surface /\ UNCHANGED role
          /\ parent' \in [Child -> Surface \cup {None}]
          /\ \A c \in Child : parent'[c] \in Parents[c] \cup {None}
          /\ \A c \in Pops : parent'[c] = parent[c]
      BY <2>3 DEF BaseInv, Typed
    <2>5. CASE Detach(s, at.win)
      <3>1. Painted(host', host, at.win)
        <4> DEFINE cleared == [current_buffers EXCEPT ![s] = None]
        <4>1. host' = Repaint(host, at.win, cleared)
          BY <2>5 DEF Detach
        <4>2. cleared[Root(at.win)] \in {current_buffers[Root(at.win)], None}
          BY <2>2 DEF BaseInv, Typed
        <4> HIDE DEF cleared
        <4>3. Repainted(host', at.win, cleared)
          BY <2>1, <2>2, <4>1, <4>2, RepaintNow DEF BaseInv
        <4> QED BY <4>3 DEF Repainted
      <3>2. /\ popup_routes' \in [Surface -> Route \cup {None}]
            /\ \A c \in Surface : popup_routes'[c] \in {popup_routes[c], None}
        BY <2>5 DEF Detach, RemoveRoute, BaseInv, Typed
      <3>3. /\ child_surface_window' \in [Surface -> Window \cup {None}]
            /\ child_surfaces' \subseteq Child
            /\ child_surface_last_rect' \in [Surface -> Rect \cup {None}]
            /\ current_buffers' \in [Surface -> Buffer \cup {None}]
            /\ \A t \in Tops : current_buffers'[t] \in {current_buffers[t], None}
        BY <2>5 DEF Detach, ClearTracking, BaseInv, Typed, Surface
      <3>4. UNCHANGED ids
        BY <2>3, <2>5 DEF Detach, ids
      <3> QED BY <2>1, <2>2, <2>3, <2>4, <3>1, <3>2, <3>3, <3>4, PaintedBase
    <2>6. CASE ChildCommit(s, at, bufs, drawn)
      <3>1. bufs[Root(at.win)] = current_buffers[Root(at.win)]
        BY <2>2, <2>3 DEF Surface
      <3>2. Painted(host', host, at.win) /\ child_surface_last_rect' \in [Surface -> Rect \cup {None}]
        BY <2>1, <2>3, <2>6, <3>1, ChildPaints DEF BaseInv
      <3>3. /\ popup_routes' \in [Surface -> Route \cup {None}]
            /\ \A c \in Surface : popup_routes'[c] \in {popup_routes[c], None}
        BY <2>6 DEF ChildCommit, routes, BaseInv, Typed
      <3>4. /\ child_surface_window' \in [Surface -> Window \cup {None}]
            /\ child_surfaces' \subseteq Child
        BY <2>1, <2>2, <2>6 DEF ChildCommit, BaseInv, Typed
      <3>5. /\ current_buffers' \in [Surface -> Buffer \cup {None}]
            /\ \A t \in Tops : current_buffers'[t] \in {current_buffers[t], None}
        BY <2>2, <2>3, <2>6 DEF ChildCommit, Surface
      <3>6. UNCHANGED ids
        BY <2>3, <2>6 DEF ChildCommit, ids
      <3> QED BY <2>1, <2>2, <2>3, <2>4, <3>2, <3>3, <3>4, <3>5, <3>6, PaintedBase
    <2> QED BY <2>1, <2>5, <2>6
  <1> QED BY <1>1, <1>2, <1>3, <1>4

\* The framebuffers after a popup or a surface is gone.
LEMMA GonePaints ==
    ASSUME BaseInv, NEW s \in Surface, popup_routes[s] # None,
           NEW g, g = Repaint(host, popup_routes[s].win, [current_buffers EXCEPT ![s] = None])
    PROVE  LET win == popup_routes[s].win
           IN  /\ win \in Window /\ windows[win] # None /\ s \in Pops /\ Root(win) # s
               /\ Painted(g, host, win)
               /\ \A p \in Pixel : g[win].px[p] \in {Root(win), host[win].px[p]}
               /\ Opaque /\ current_buffers[Root(win)] # None =>
                     \A p \in Pixel : p < windows[win].size => g[win].px[p] = Root(win)
  <1> USE CompositorAssumption
  <1> DEFINE win == popup_routes[s].win
             bufs == [current_buffers EXCEPT ![s] = None]
  <1>1. win \in Window /\ windows[win] # None /\ s \in Pops /\ Root(win) \in Tops
    BY DEF BaseInv, Typed, Linked, Route, Root, Toplevel
  <1>2. Root(win) # s /\ Root(win) \in Surface
    BY <1>1 DEF Surface
  <1>3. bufs[Root(win)] = current_buffers[Root(win)]
    BY <1>2 DEF BaseInv, Typed
  <1>4. g = Repaint(host, win, bufs)
    OBVIOUS
  <1> HIDE DEF win, bufs
  <1>5. Repainted(g, win, bufs)
    <2>1. bufs[Root(win)] \in {current_buffers[Root(win)], None}
      BY <1>3
    <2>2. Typed /\ Linked /\ Sized
      BY DEF BaseInv
    <2> QED BY <1>1, <1>4, <2>1, <2>2, RepaintNow
  <1> QED BY <1>1, <1>2, <1>3, <1>5 DEF win, Repainted

\* popup_destroyed and CompositorHandler::destroyed.
LEMMA GoneBase ==
    ASSUME BaseInv, NEW s \in Surface,
           (s \in Pops /\ PopupDestroyed(s)) \/ SurfaceDestroyed(s)
    PROVE  BaseInv'
  <1> USE CompositorAssumption
  <1>1. /\ popup_routes' = [popup_routes EXCEPT ![s] = None]
        /\ ClearTracking(s, current_buffers) /\ UNCHANGED ids
    BY DEF PopupDestroyed, SurfaceDestroyed, RemoveRoute
  <1>2. /\ alive' \subseteq Surface /\ role' \subseteq role /\ role \ role' \subseteq Pops
        /\ parent' \in [Child -> Surface \cup {None}]
        /\ \A c \in Child : parent'[c] \in Parents[c] \cup {None}
        /\ loc' \in [Subs -> Int]
    <2>1. CASE s \in Pops /\ PopupDestroyed(s)
      BY <2>1 DEF PopupDestroyed, BaseInv, Typed
    <2>2. CASE SurfaceDestroyed(s)
      BY <2>2 DEF SurfaceDestroyed, BaseInv, Typed
    <2> QED BY <2>1, <2>2
  <1>3. /\ popup_routes' \in [Surface -> Route \cup {None}]
        /\ \A c \in Surface : popup_routes'[c] \in {popup_routes[c], None}
        /\ child_surface_window' \in [Surface -> Window \cup {None}]
        /\ child_surfaces' \subseteq Child
        /\ child_surface_last_rect' \in [Surface -> Rect \cup {None}]
        /\ current_buffers' \in [Surface -> Buffer \cup {None}]
        /\ \A t \in Tops : current_buffers'[t] \in {current_buffers[t], None}
    BY <1>1 DEF ClearTracking, BaseInv, Typed, Surface
  <1>4. /\ host' \in Frames
        /\ \A w \in Window : host[w] # None => host'[w] # None /\ host'[w].size = host[w].size
    <2>0. host \in Frames
      BY DEF BaseInv, Typed, Frames
    <2>1. CASE popup_routes[s] # None
      <3>1. host' = Repaint(host, popup_routes[s].win, [current_buffers EXCEPT ![s] = None])
        BY <1>1, <2>1 DEF PopupDestroyed, SurfaceDestroyed, ClearTracking
      <3> DEFINE win == popup_routes[s].win
      <3>2. win \in Window /\ windows[win] # None /\ Painted(host', host, win)
        BY <2>1, <3>1, GonePaints
      <3> HIDE DEF win
      <3> QED BY <3>2 DEF Painted
    <2>2. CASE popup_routes[s] = None
      <3>1. host' = host \/ host' = Disown(host, s)
        BY <2>2 DEF PopupDestroyed, SurfaceDestroyed
      <3>2. CASE host' = host
        BY <2>0, <3>2
      <3>3. CASE host' = Disown(host, s)
        BY <2>0, <3>3, DisownFrames
      <3> QED BY <3>1, <3>2, <3>3
    <2> QED BY <2>1, <2>2
  <1>5. Typed'
    BY <1>1, <1>2, <1>3, <1>4 DEF BaseInv, Typed, ids, Frames
  <1>6. Linked'
    <2>1. \A w \in Window : windows'[w] # None =>
             /\ surface_to_window'[windows'[w].surface] = w
             /\ w < next_window_id'
             /\ host'[w] # None /\ host'[w].size = windows'[w].size
      BY <1>1, <1>4 DEF BaseInv, Linked, ids, Root
    <2>2. \A t \in Surface : surface_to_window'[t] # None =>
             /\ t \in Tops /\ t \in role'
             /\ windows'[surface_to_window'[t]] # None
             /\ windows'[surface_to_window'[t]].surface = t
      BY <1>1, <1>2 DEF BaseInv, Linked, ids, Root
    <2>3. \A t \in Tops : t \in role' => surface_to_window'[t] # None
      BY <1>1, <1>2 DEF BaseInv, Linked, ids
    <2>4. \A t \in Surface : popup_routes'[t] # None =>
             t \in Pops /\ windows'[popup_routes'[t].win] # None
      BY <1>1, <1>3 DEF BaseInv, Linked, ids
    <2>5. \A t \in Pops : t \in role' => parent'[t] # None
      <3>1. CASE s \in Pops /\ PopupDestroyed(s)
        BY <3>1 DEF PopupDestroyed, BaseInv, Typed, Linked, Child
      <3>2. CASE SurfaceDestroyed(s)
        BY <3>2 DEF SurfaceDestroyed, BaseInv, Typed, Linked, Child
      <3> QED BY <3>1, <3>2
    <2> QED BY <2>1, <2>2, <2>3, <2>4, <2>5 DEF Linked, Root
  <1>7. Sized'
    BY <1>1, <1>3 DEF BaseInv, Sized, ids
  <1> QED BY <1>5, <1>6, <1>7 DEF BaseInv

\* new_toplevel and toplevel_destroyed.
LEMMA ToplevelBase ==
    ASSUME BaseInv, NEW s \in Tops, NewToplevel(s) \/ ToplevelDestroyed(s)
    PROVE  BaseInv'
  <1> USE CompositorAssumption
  <1>0. s \in Surface /\ s \notin Child
    BY DEF Surface, Child
  <1>1. CASE NewToplevel(s)
    <2> DEFINE id == next_window_id
               top == [surface |-> s, size |-> 1]
               blank == [p \in Pixel |-> None]
               frame == [size |-> 1, px |-> blank]
    <2>1. top \in Toplevel /\ top.surface = s /\ top.size = 1
      BY DEF Toplevel
    <2>2. blank \in [Pixel -> Surface \cup {None}]
      OBVIOUS
    <2> HIDE DEF blank
    <2>3. frame \in Frame /\ frame.size = 1
      BY <2>2 DEF Frame
    <2>4. id \in Window
      BY <1>1 DEF NewToplevel, BaseInv, Typed, Window
    <2>5. /\ s \notin role /\ alive' = alive \cup {s} /\ role' = role \cup {s}
          /\ next_window_id' = id + 1
          /\ surface_to_window' = [surface_to_window EXCEPT ![s] = id]
          /\ windows' = [windows EXCEPT ![id] = top]
          /\ host' = [host EXCEPT ![id] = frame]
          /\ UNCHANGED <<parent, loc, routes, children, current_buffers>>
      BY <1>1 DEF NewToplevel, WithRole, blank
    <2> HIDE DEF top, frame, id
    <2>6. id \in Int /\ id = next_window_id /\ id <= MaxWindows
      BY <2>4 DEF Window, id
    <2>7. windows[id] = None
      BY <2>4, <2>6 DEF BaseInv, Linked
    <2>8. Typed'
      BY <1>0, <2>1, <2>3, <2>4, <2>5, <2>6 DEF BaseInv, Typed, routes, children
    <2>9. surface_to_window[s] = None
      BY <1>0, <2>5 DEF BaseInv, Linked
    <2>10. Linked'
      <3>1. ASSUME NEW w \in Window, windows'[w] # None
            PROVE  /\ surface_to_window'[windows'[w].surface] = w
                   /\ w < next_window_id'
                   /\ host'[w] # None /\ host'[w].size = windows'[w].size
        <4>1. CASE w = id
          BY <4>1, <1>0, <2>1, <2>3, <2>4, <2>5, <2>6 DEF BaseInv, Typed
        <4>2. CASE w # id
          <5>1. windows'[w] = windows[w] /\ host'[w] = host[w]
            BY <4>2, <2>4, <2>5 DEF BaseInv, Typed
          <5>2. surface_to_window[windows[w].surface] = w /\ windows[w].surface # s
            BY <3>1, <5>1, <2>9 DEF BaseInv, Linked, Root, Window
          <5>3. surface_to_window'[windows[w].surface] = w
            BY <5>2, <2>5 DEF BaseInv, Typed
          <5>4. w < next_window_id' /\ host[w] # None /\ host[w].size = windows[w].size
            BY <3>1, <5>1, <2>5, <2>6 DEF BaseInv, Linked, Root, Window
          <5> QED BY <5>1, <5>3, <5>4
        <4> QED BY <4>1, <4>2
      <3>2. ASSUME NEW t \in Surface, surface_to_window'[t] # None
            PROVE  /\ t \in Tops /\ t \in role'
                   /\ windows'[surface_to_window'[t]] # None
                   /\ windows'[surface_to_window'[t]].surface = t
        <4>1. CASE t = s
          BY <4>1, <1>0, <2>1, <2>4, <2>5 DEF BaseInv, Typed
        <4>2. CASE t # s
          <5>1. surface_to_window'[t] = surface_to_window[t] /\ surface_to_window[t] \in Window
            BY <3>2, <4>2, <2>5 DEF BaseInv, Typed
          <5>2. surface_to_window[t] # id
            BY <3>2, <5>1, <2>7 DEF BaseInv, Linked
          <5>3. windows'[surface_to_window[t]] = windows[surface_to_window[t]]
            BY <5>1, <5>2, <2>5 DEF BaseInv, Typed
          <5> QED BY <3>2, <5>1, <5>3, <2>5 DEF BaseInv, Linked, Root
        <4> QED BY <4>1, <4>2
      <3>3. \A t \in Tops : t \in role' => surface_to_window'[t] # None
        BY <1>0, <2>4, <2>5 DEF BaseInv, Linked, Typed, Window, Surface
      <3>4. \A t \in Surface : popup_routes'[t] # None =>
               t \in Pops /\ windows'[popup_routes'[t].win] # None
        BY <2>1, <2>4, <2>5 DEF BaseInv, Linked, Typed, Route, routes
      <3>5. \A t \in Pops : t \in role' => parent'[t] # None
        BY <2>5 DEF BaseInv, Linked
      <3> QED BY <3>1, <3>2, <3>3, <3>4, <3>5 DEF Linked, Root
    <2>11. Sized'
      <3> SUFFICES ASSUME NEW t \in Tops, current_buffers[t] # None
                   PROVE  /\ current_buffers[t] \in RootBuffer
                          /\ surface_to_window'[t] # None
                          /\ current_buffers[t].w = windows'[surface_to_window'[t]].size
        BY <2>5 DEF Sized
      <3>1. /\ current_buffers[t] \in RootBuffer /\ surface_to_window[t] # None
            /\ current_buffers[t].w = windows[surface_to_window[t]].size
        BY DEF BaseInv, Sized
      <3>2. t # s /\ surface_to_window'[t] = surface_to_window[t] /\ surface_to_window[t] \in Window
        BY <3>1, <2>5, <2>9 DEF BaseInv, Typed, Surface
      <3>3. surface_to_window[t] # id
        BY <3>1, <2>7 DEF BaseInv, Linked, Surface
      <3> QED BY <3>1, <3>2, <3>3, <2>5 DEF BaseInv, Typed
    <2> QED BY <2>8, <2>10, <2>11 DEF BaseInv
  <1>2. CASE ToplevelDestroyed(s)
    <2> DEFINE id == surface_to_window[s]
    <2>1. /\ id \in Window /\ windows[id] # None /\ Root(id) = s /\ id # None
      BY <1>0, <1>2 DEF ToplevelDestroyed, BaseInv, Linked, Typed
    <2>2. /\ role' = role \ {s}
          /\ surface_to_window' = [surface_to_window EXCEPT ![s] = None]
          /\ windows' = [windows EXCEPT ![id] = None]
          /\ current_buffers' = [current_buffers EXCEPT ![s] = None]
          /\ popup_routes' = [t \in Surface |-> IF popup_routes[t] # None /\ popup_routes[t].win = id
                                                THEN None ELSE popup_routes[t]]
          /\ child_surface_window' = [c \in Surface |-> IF child_surface_window[c] = id THEN None
                                                        ELSE child_surface_window[c]]
          /\ child_surfaces' \subseteq child_surfaces
          /\ child_surface_last_rect' \in [Surface -> Rect \cup {None}]
          /\ host' = [host EXCEPT ![id] = None]
          /\ UNCHANGED <<alive, parent, loc, next_window_id>>
      <3>1. child_surface_last_rect' \in [Surface -> Rect \cup {None}]
        BY <1>2 DEF ToplevelDestroyed, BaseInv, Typed
      <3> QED BY <1>2, <3>1 DEF ToplevelDestroyed, ForgetRoutes
    <2> HIDE DEF id
    <2>3. \A t \in Surface : t # s => surface_to_window[t] # id
      BY <2>1 DEF BaseInv, Linked
    <2>4. Typed'
      BY <1>0, <2>1, <2>2 DEF BaseInv, Typed
    <2>5. Linked'
      <3>1. ASSUME NEW w \in Window, windows'[w] # None
            PROVE  /\ surface_to_window'[windows'[w].surface] = w
                   /\ w < next_window_id'
                   /\ host'[w] # None /\ host'[w].size = windows'[w].size
        <4>1. w # id /\ windows'[w] = windows[w] /\ host'[w] = host[w]
          BY <3>1, <2>1, <2>2 DEF BaseInv, Typed
        <4>2. windows[w].surface # s
          BY <3>1, <4>1 DEF BaseInv, Linked, Root, id
        <4> QED BY <3>1, <4>1, <4>2, <2>2 DEF BaseInv, Linked, Root, Typed
      <3>2. ASSUME NEW t \in Surface, surface_to_window'[t] # None
            PROVE  /\ t \in Tops /\ t \in role'
                   /\ windows'[surface_to_window'[t]] # None
                   /\ windows'[surface_to_window'[t]].surface = t
        <4>1. t # s /\ surface_to_window'[t] = surface_to_window[t]
          BY <3>2, <2>2, <1>0 DEF BaseInv, Typed
        <4>2. windows'[surface_to_window[t]] = windows[surface_to_window[t]]
          BY <4>1, <2>2, <2>3 DEF BaseInv, Typed
        <4> QED BY <3>2, <4>1, <4>2, <2>2 DEF BaseInv, Linked, Root
      <3>3. \A t \in Tops : t \in role' => surface_to_window'[t] # None
        BY <2>2 DEF BaseInv, Linked, Typed, Surface
      <3>4. \A t \in Surface : popup_routes'[t] # None =>
               t \in Pops /\ windows'[popup_routes'[t].win] # None
        BY <2>2 DEF BaseInv, Linked, Typed, Route
      <3>5. \A t \in Pops : t \in role' => parent'[t] # None
        BY <2>2 DEF BaseInv, Linked
      <3> QED BY <3>1, <3>2, <3>3, <3>4, <3>5 DEF Linked, Root
    <2>6. Sized'
      <3> SUFFICES ASSUME NEW t \in Tops, current_buffers'[t] # None
                   PROVE  /\ current_buffers'[t] \in RootBuffer
                          /\ surface_to_window'[t] # None
                          /\ current_buffers'[t].w = windows'[surface_to_window'[t]].size
        BY DEF Sized
      <3>1. /\ t # s /\ t \in Surface /\ current_buffers'[t] = current_buffers[t]
            /\ surface_to_window'[t] = surface_to_window[t]
        BY <2>2 DEF BaseInv, Typed, Surface
      <3>2. windows'[surface_to_window[t]] = windows[surface_to_window[t]]
        BY <3>1, <2>2, <2>3 DEF BaseInv, Typed
      <3> QED BY <3>1, <3>2 DEF BaseInv, Sized
    <2> QED BY <2>4, <2>5, <2>6 DEF BaseInv
  <1> QED BY <1>1, <1>2

\* route_popup leaves the route it had or gives it one to a window that lives.
LEMMA RouteLives ==
    ASSUME Typed, Linked, NEW s \in Pops, NEW on \in Surface, NEW x \in Place, RoutePopup(s, on, x)
    PROVE  /\ popup_routes' \in [Surface -> Route \cup {None}]
           /\ \A c \in Surface \ {s} : popup_routes'[c] = popup_routes[c]
           /\ \/ popup_routes' = popup_routes
              \/ /\ WindowOffset(loc, on) \in Route /\ windows[WindowOffset(loc, on).win] # None
                 /\ popup_routes'[s] # None
                 /\ popup_routes'[s].win = WindowOffset(loc, on).win
  <1> USE CompositorAssumption
  <1> DEFINE at == WindowOffset(loc, on)
  <1>1. Lives(at)
    BY OffsetLives DEF Typed
  <1>2. \/ UNCHANGED routes
        \/ at # None /\ popup_routes' = [popup_routes EXCEPT ![s] = [win |-> at.win, x |-> at.x + x]]
    BY Zenon DEF RoutePopup
  <1> HIDE DEF at
  <1>3. CASE UNCHANGED routes
    BY <1>3 DEF routes, Typed
  <1>4. CASE at # None /\ popup_routes' = [popup_routes EXCEPT ![s] = [win |-> at.win, x |-> at.x + x]]
    <2> DEFINE to == [win |-> at.win, x |-> at.x + x]
    <2>1. at \in Route /\ windows[at.win] # None
      BY <1>1, <1>4 DEF Lives
    <2>2. to \in Route /\ to.win = at.win
      BY <2>1 DEF Route
    <2>3. popup_routes' = [popup_routes EXCEPT ![s] = to]
      BY <1>4
    <2> HIDE DEF to
    <2>4. s \in Surface /\ to # None
      BY <2>2 DEF Surface
    <2> QED BY <2>1, <2>2, <2>3, <2>4 DEF Typed, at
  <1> QED BY <1>2, <1>3, <1>4

\* Role objects and buffers of children.
LEMMA ChildBase ==
    ASSUME BaseInv, NEW s \in Surface,
           \/ s \in Pops /\ (NewPopup(s) \/ Reposition(s))
           \/ s \in Subs /\ (NewSubsurface(s) \/ SubsurfaceDestroyed(s))
           \/ BufferDestroyed(s)
    PROVE  BaseInv'
  <1> USE CompositorAssumption
  <1>1. CASE s \in Pops /\ (NewPopup(s) \/ Reposition(s))
    <2>1. PICK on \in Surface, x \in Place :
             /\ RoutePopup(s, on, x)
             /\ parent' \in {parent, [parent EXCEPT ![s] = on]}
             /\ parent' = [parent EXCEPT ![s] = on] => on \in Parents[s]
      <3>1. CASE NewPopup(s)
        BY <1>1, <3>1 DEF NewPopup, Child
      <3>2. CASE Reposition(s)
        <4>1. parent[s] \in Surface /\ parent[s] \in Parents[s] /\ parent' = parent
          BY <1>1, <3>2 DEF Reposition, client, BaseInv, Typed, Linked, Child
        <4>2. PICK x \in Place : RoutePopup(s, parent[s], x)
          BY <3>2 DEF Reposition
        <4> QED BY <4>1, <4>2
      <3> QED BY <1>1, <3>1, <3>2
    <2>2. /\ alive' \subseteq Surface /\ role' \subseteq role \cup {s} /\ role \subseteq role'
          /\ UNCHANGED <<loc, children, ids, current_buffers, host>>
          /\ s \in role' => parent'[s] # None
      <3>1. CASE NewPopup(s)
        BY <1>1, <3>1 DEF NewPopup, WithRole, BaseInv, Typed, Child
      <3>2. CASE Reposition(s)
        BY <1>1, <3>2 DEF Reposition, client, BaseInv, Typed, Linked
      <3> QED BY <1>1, <3>1, <3>2
    <2>3. /\ popup_routes' \in [Surface -> Route \cup {None}]
          /\ \A c \in Surface : popup_routes'[c] # None =>
                c \in Pops /\ windows[popup_routes'[c].win] # None
      <3>1. /\ popup_routes' \in [Surface -> Route \cup {None}]
            /\ \A c \in Surface \ {s} : popup_routes'[c] = popup_routes[c]
            /\ \/ popup_routes' = popup_routes
               \/ /\ WindowOffset(loc, on) \in Route /\ windows[WindowOffset(loc, on).win] # None
                  /\ popup_routes'[s] # None
                  /\ popup_routes'[s].win = WindowOffset(loc, on).win
        BY <1>1, <2>1, RouteLives DEF BaseInv
      <3> QED BY <1>1, <3>1 DEF BaseInv, Linked
    <2>4. /\ parent' \in [Child -> Surface \cup {None}]
          /\ \A c \in Child : parent'[c] \in Parents[c] \cup {None}
          /\ \A c \in Pops \ {s} : parent'[c] = parent[c]
      BY <1>1, <2>1 DEF BaseInv, Typed, Child
    <2>5. Typed'
      BY <1>1, <2>2, <2>3, <2>4 DEF BaseInv, Typed, children, ids
    <2>6. Linked'
      BY <1>1, <2>2, <2>3, <2>4 DEF BaseInv, Linked, ids, Root
    <2>7. Sized'
      BY <2>2 DEF BaseInv, Sized, ids
    <2> QED BY <2>5, <2>6, <2>7 DEF BaseInv
  <1>2. CASE s \in Subs /\ (NewSubsurface(s) \/ SubsurfaceDestroyed(s))
    <2>1. /\ alive' \subseteq Surface /\ role' \subseteq role \cup {s} /\ role \ {s} \subseteq role'
          /\ UNCHANGED <<routes, children, ids, current_buffers, host>>
      BY <1>2 DEF NewSubsurface, SubsurfaceDestroyed, WithRole, BaseInv, Typed
    <2>2. /\ parent' \in [Child -> Surface \cup {None}] /\ loc' \in [Subs -> Int]
          /\ \A c \in Child : parent'[c] \in Parents[c] \cup {None}
          /\ \A c \in Pops : parent'[c] = parent[c]
      BY <1>2 DEF NewSubsurface, SubsurfaceDestroyed, BaseInv, Typed, Child
    <2>3. s \in Surface /\ s \notin Tops /\ s \notin Pops
      BY <1>2
    <2>4. Typed'
      BY <2>1, <2>2, <2>3 DEF BaseInv, Typed, routes, children, ids
    <2>5. Linked'
      BY <2>1, <2>2, <2>3 DEF BaseInv, Linked, routes, ids, Root
    <2>6. Sized'
      BY <2>1 DEF BaseInv, Sized, ids
    <2> QED BY <2>4, <2>5, <2>6 DEF BaseInv
  <1>3. CASE BufferDestroyed(s)
    <2> USE <1>3 DEF BaseInv, BufferDestroyed, client, routes, children, ids
    <2>1. Typed' BY DEF Typed
    <2>2. Linked' BY DEF Linked, Root
    <2>3. Sized' BY DEF Sized, Typed, Surface
    <2> QED BY <2>1, <2>2, <2>3
  <1> QED BY <1>1, <1>2, <1>3

\* Every step keeps the windows in order.
LEMMA BaseNext ==
    ASSUME BaseInv, [Next]_vars
    PROVE  BaseInv'
  <1>1. ASSUME NEW s \in Surface,
               CommitNew(s) \/ CommitDamage(s) \/ CommitRemoved(s) \/ CommitNone(s)
        PROVE  BaseInv'
    <2>1. PICK kind, b : (kind = "new" => b \in Content(s)) /\ Commit(s, kind, b)
      BY <1>1 DEF CommitNew, CommitDamage, CommitRemoved, CommitNone
    <2> QED BY <2>1, CommitBase
  <1>2. ASSUME NEW s \in Surface, SurfaceDestroyed(s) \/ BufferDestroyed(s) PROVE BaseInv'
    BY <1>2, GoneBase, ChildBase
  <1>3. ASSUME NEW s \in Tops, NewToplevel(s) \/ ToplevelDestroyed(s) PROVE BaseInv'
    BY <1>3, ToplevelBase
  <1>4. ASSUME NEW s \in Pops, NewPopup(s) \/ Reposition(s) \/ PopupDestroyed(s) PROVE BaseInv'
    <2>1. s \in Surface
      BY DEF Surface
    <2> QED BY <1>4, <2>1, GoneBase, ChildBase
  <1>5. ASSUME NEW s \in Subs, NewSubsurface(s) \/ SubsurfaceDestroyed(s) PROVE BaseInv'
    <2>1. s \in Surface
      BY DEF Surface
    <2> QED BY <1>5, <2>1, ChildBase
  <1>6. CASE UNCHANGED vars
    BY <1>6 DEF BaseInv, Typed, Linked, Sized, Root, vars, client, routes, children, ids
  <1> QED BY <1>1, <1>2, <1>3, <1>4, <1>5, <1>6 DEF Next

\* The windows are in order from the start.
LEMMA BaseInit ==
    ASSUME Init
    PROVE  BaseInv
  <1> USE CompositorAssumption DEF Init
  <1>1. Typed BY DEF Typed
  <1>2. Linked BY DEF Linked, Root
  <1>3. Sized BY DEF Sized, Surface
  <1> QED BY <1>1, <1>2, <1>3 DEF BaseInv

-----------------------------------------------------------------------------
(* A commit of a root leaves every rectangle where the child is.           *)

\* The rectangle of a child at `at', as it is recorded.
RectAt(buffer, at, size) ==
    LET fit == CopyRect(buffer.w, at.x, size)
    IN  [x |-> at.x, w |-> IF fit = None THEN 0 ELSE fit.w]

\* repaint_moved_child_surfaces records it for every child it looks at.
LEMMA MovedSettles ==
    ASSUME NEW win, NEW size, NEW bufs, NEW places, NEW h, NEW first,
           RepaintMoved(win, size, bufs, places, h, first),
           NEW c \in child_surfaces, child_surfaces \subseteq Surface,
           child_surface_window[c] = win, bufs[c] # None,
           child_surface_last_rect'[c] # None,
           WindowOffset(places, c) # None, WindowOffset(places, c).win = win
    PROVE  child_surface_last_rect'[c] = RectAt(bufs[c], WindowOffset(places, c), size)
  <1> DEFINE at       == [d \in child_surfaces |-> WindowOffset(places, d)]
             tracked  == {d \in child_surfaces : /\ child_surface_window[d] = win
                                                 /\ at[d] # None /\ at[d].win = win}
             kept     == {d \in tracked : bufs[d] # None}
             fit      == [d \in kept |-> CopyRect(bufs[d].w, at[d].x, size)]
             now      == [d \in kept |->
                            [x |-> at[d].x, w |-> IF fit[d] = None THEN 0 ELSE fit[d].w]]
             moved    == {d \in kept : GeomChanged(child_surface_last_rect[d], now[d])}
  <1>1. child_surface_last_rect' = [d \in Surface |-> IF d \in tracked \ kept THEN None
                                                      ELSE IF d \in moved THEN now[d]
                                                      ELSE child_surface_last_rect[d]]
    BY Zenon DEF RepaintMoved
  <1>2. at[c] = WindowOffset(places, c) /\ c \in kept /\ c \in Surface
    OBVIOUS
  <1>3. now[c] = RectAt(bufs[c], WindowOffset(places, c), size)
    BY <1>2 DEF RectAt
  <1>4. c \notin moved => child_surface_last_rect[c] \in {None, now[c]}
    BY <1>2 DEF GeomChanged
  <1> HIDE DEF at, tracked, kept, fit, now, moved
  <1> QED BY <1>1, <1>2, <1>3, <1>4

\* A walk over the same maps ends in the same place.
LEMMA OffsetUnchanged ==
    ASSUME UNCHANGED <<surface_to_window, popup_routes, parent>>, NEW c
    PROVE  WindowOffset(loc, c)' = WindowOffset(loc', c)
  BY Zenon DEF WindowOffset

\* A commit of a root settles its window.
LEMMA RootSettles ==
    ASSUME BaseInv, NEW s \in Tops, CommitsRoot(s)
    PROVE  Settled(surface_to_window[s])'
  <1> USE CompositorAssumption
  <1>1. PICK kind, b : (kind = "new" => b \in Content(s)) /\ Commit(s, kind, b)
    BY DEF CommitsRoot, CommitNew, CommitDamage, CommitRemoved, CommitNone
  <1>2. surface_to_window[s] # None /\ s \in Surface /\ s \notin Child
    BY DEF CommitsRoot, Surface, Child
  <1>3. PICK places, bufs, drawn :
              /\ CommitOf(s, places, bufs, drawn)
              /\ \/ CommitNowhere /\ surface_to_window[s] = None
                 \/ /\ surface_to_window[s] # None
                    /\ RootCommit(s, surface_to_window[s], bufs, drawn, places)
                 \/ CommitAt(s, places, bufs, drawn)
    BY <1>1, <1>2, CommitCases DEF BaseInv
  <1>4. RootCommit(s, surface_to_window[s], bufs, drawn, places)
    BY <1>2, <1>3 DEF CommitAt
  <1> DEFINE win == surface_to_window[s]
             size == IF drawn = None THEN windows[win].size ELSE drawn.w
  <1>5. win \in Window /\ windows[win] \in Toplevel
    BY <1>2, WindowOf DEF BaseInv
  <1>6. \E h, first : RepaintMoved(win, size, bufs, places, h, first)
    BY <1>4, Zenon DEF RootCommit
  <1>7. windows'[win].size = size
    <2>1. CASE drawn = None
      <3>1. windows' = windows
        BY <1>4, <2>1 DEF RootCommit
      <3> QED BY <2>1, <3>1
    <2>2. CASE drawn # None
      <3>1. windows' = [windows EXCEPT ![win].size = drawn.w]
        BY <1>4, <2>2 DEF RootCommit
      <3>2. windows \in [Window -> Toplevel \cup {None}]
        BY DEF BaseInv, Typed
      <3> QED BY <1>5, <2>2, <3>1, <3>2 DEF Toplevel
    <2> QED BY <2>1, <2>2
  <1>8. /\ current_buffers' = bufs
        /\ UNCHANGED <<popup_routes, child_surface_window, child_surfaces>>
    BY <1>4 DEF RootCommit, routes
  <1>9. loc' = places /\ UNCHANGED <<surface_to_window, parent>>
    BY <1>3 DEF CommitOf
  <1>10. surface_to_window'[s] = win
    BY <1>9
  <1> HIDE DEF win, size
  <1> SUFFICES ASSUME NEW c \in child_surfaces', child_surface_window'[c] = win,
                      current_buffers'[c] # None, child_surface_last_rect'[c] # None,
                      WindowOffset(loc, c)' # None, (WindowOffset(loc, c)').win = win
               PROVE  child_surface_last_rect'[c] = RectNow(c, win)'
    BY <1>9, <1>10, Zenon DEF Settled, win
  <1>11. WindowOffset(loc, c)' = WindowOffset(places, c)
    BY <1>8, <1>9, OffsetUnchanged
  <1>12. PICK h, first : RepaintMoved(win, size, bufs, places, h, first)
    BY <1>6
  <1>13. child_surface_last_rect'[c] = RectAt(bufs[c], WindowOffset(places, c), size)
    <2>1. c \in child_surfaces /\ child_surfaces \subseteq Surface
      BY <1>8 DEF BaseInv, Typed, Child, Surface
    <2> QED BY <1>8, <1>11, <1>12, <2>1, MovedSettles
  <1>14. RectNow(c, win)' = RectAt(bufs[c], WindowOffset(places, c), size)
    <2>1. RectNow(c, win)' = RectAt(current_buffers'[c], WindowOffset(loc, c)', windows'[win].size)
      <3>1. win' = win
        BY <1>10 DEF win
      <3> QED BY <3>1, Zenon DEF RectNow, RectAt
    <2> QED BY <2>1, <1>7, <1>8, <1>11
  <1> QED BY <1>13, <1>14

\* repaint_moved_child_surfaces keeps its promise for any forest of surfaces,
\* any number of windows and any buffers: after a commit of a window's root, with
\* a buffer or without, the rectangle recorded of each tracked child is where the
\* child is now.
THEOREM RootCommitAlwaysSettles == Spec => RootCommitSettles
  <1>1. Init => BaseInv
    BY BaseInit
  <1>2. BaseInv /\ [Next]_vars => BaseInv'
    BY BaseNext
  <1>3. BaseInv /\ [Next]_vars =>
           [\A s \in Tops : Settled(surface_to_window[s])' \/ ~CommitsRoot(s)]_vars
    BY RootSettles
  <1> QED BY <1>1, <1>2, <1>3, PTL DEF Spec, RootCommitSettles

-----------------------------------------------------------------------------
(* What is seen of the children.                                           *)

GhostInv == BaseInv /\ Homed /\ Placed /\ Routed

\* What is asked of pixel p of window w after a step.
NextOK(w, p) ==
    windows'[w] # None /\ host'[w].px[p] \in Child =>
        /\ p < windows'[w].size /\ Home[host'[w].px[p]] = windows'[w].surface
        /\ current_buffers'[windows'[w].surface] # None /\ host'[w].px[p] \in Pops =>
              popup_routes'[host'[w].px[p]] # None
NextTrackedAt(c, p) ==
    /\ c \in child_surfaces' /\ child_surface_window'[c] # None /\ current_buffers'[c] # None
    /\ child_surface_last_rect'[c] # None /\ p \in Covered(child_surface_last_rect'[c])
NextTracked(w, p) ==
    windows'[w] # None /\ current_buffers'[windows'[w].surface] # None /\ host'[w].px[p] \in Child =>
        NextTrackedAt(host'[w].px[p], p)

\* What a step has to keep, besides the windows.
Kept ==
    /\ Homed'
    /\ \A w \in Window : \A p \in Pixel : NextOK(w, p)
    /\ Tracked => \A w \in Window : \A p \in Pixel : NextTracked(w, p)

\* The invariants after a step that keeps that.
LEMMA KeptHolds ==
    ASSUME Kept
    PROVE  /\ Homed' /\ Placed' /\ Routed'
           /\ Tracked => Tracked'
  <1>1. Placed'
    BY DEF Kept, NextOK, Placed, Root
  <1>2. Routed'
    BY CompositorAssumption DEF Kept, NextOK, Routed, Root, Child
  <1>3. Tracked => Tracked'
    BY DEF Kept, NextTracked, NextTrackedAt, Tracked, TrackedAt, Root
  <1> QED BY <1>1, <1>2, <1>3 DEF Kept

\* A child whose toplevel is the root of w belongs to w and to no other window.
LEMMA OneWindow ==
    ASSUME BaseInv, IsHome(Home), NEW c \in Child, NEW w \in Window, windows[w] # None
    PROVE  Home[c] = Root(w) <=> surface_to_window[Home[c]] = w
  <1>1. Home[c] \in Surface
    BY DEF IsHome, Child, Surface
  <1> QED BY <1>1, CompositorAssumption DEF BaseInv, Typed, Linked, Window

\* A window a step does not touch stays right if it leaves its children alone.
LEMMA OtherWindow ==
    ASSUME GhostInv, NEW w \in Window, NEW p \in Pixel,
           windows'[w] = windows[w], host'[w] = host[w],
           windows[w] # None => current_buffers'[Root(w)] \in {current_buffers[Root(w)], None},
           host[w].px[p] \in Pops => popup_routes'[host[w].px[p]] = popup_routes[host[w].px[p]]
    PROVE  NextOK(w, p)
  BY DEF GhostInv, Placed, Routed, NextOK, Root

\* A commit of a root.
LEMMA RootKept ==
    ASSUME GhostInv, IsHome(Home), Opaque, NEW s \in Surface, NEW places, NEW bufs, NEW drawn,
           CommitOf(s, places, bufs, drawn), surface_to_window[s] # None,
           RootCommit(s, surface_to_window[s], bufs, drawn, places)
    PROVE  Kept
  <1> USE CompositorAssumption
  <1> DEFINE win == surface_to_window[s]
             size == IF drawn = None THEN windows[win].size ELSE drawn.w
  <1>1. s \in Tops /\ s \notin Child /\ win \in Window /\ Root(win) = s /\ windows[win] # None
    BY DEF GhostInv, BaseInv, Typed, Linked, Child
  <1>2. /\ UNCHANGED <<surface_to_window, parent>>
        /\ places \in [Subs -> Int]
        /\ bufs \in [Surface -> Buffer \cup {None}] /\ drawn \in Buffer \cup {None}
        /\ \A c \in Surface \ {s} : bufs[c] = current_buffers[c]
        /\ drawn # None => bufs[s] = drawn /\ drawn \in RootBuffer
        /\ drawn = None => bufs[s] \in {current_buffers[s], None}
    BY <1>1 DEF CommitOf
  <1>3. /\ current_buffers' = bufs
        /\ UNCHANGED <<popup_routes, child_surface_window, child_surfaces>>
    BY DEF RootCommit, routes
  <1>4. /\ windows'[win] # None /\ windows'[win].surface = s /\ windows'[win].size = size
        /\ \A w \in Window \ {win} : windows'[w] = windows[w]
        /\ \A w \in Window \ {win} : host'[w] = host[w]
        /\ \A c \in Surface : \/ child_surface_last_rect'[c] = child_surface_last_rect[c]
                              \/ c \in child_surfaces /\ child_surface_window[c] = win
        /\ \A p \in Pixel : AfterRoot(p, win, size, bufs, places, drawn)
    <2> HIDE DEF size, win
    <2>2. win = surface_to_window[s] /\ size = IF drawn = None THEN windows[win].size ELSE drawn.w
      BY DEF win, size
    <2>3. win # None /\ RootCommit(s, win, bufs, drawn, places)
      BY DEF win
    <2> QED BY <1>1, <1>2, <2>2, <2>3, RootPaints DEF GhostInv, BaseInv
  <1>5. drawn = None => size = windows[win].size
    OBVIOUS
  <1> HIDE DEF size
  <1>6. Homed'
    BY <1>2, <1>3 DEF GhostInv, Homed
  <1>7. \A c \in Child : c \in Surface /\ c # s /\ bufs[c] = current_buffers[c]
    BY <1>1, <1>2 DEF Child, Surface
  <1>8. ASSUME NEW w \in Window \ {win}, NEW p \in Pixel
        PROVE  NextOK(w, p) /\ (Tracked => NextTracked(w, p))
    <2>1. windows'[w] = windows[w] /\ host'[w] = host[w]
      BY <1>4
    <2>2. windows[w] # None => Root(w) # s /\ bufs[Root(w)] = current_buffers[Root(w)]
      BY <1>2 DEF GhostInv, BaseInv, Typed, Linked, Root, Toplevel, Surface
    <2>3. NextOK(w, p)
      BY <2>1, <2>2, <1>3, OtherWindow
    <2>4. ASSUME Tracked, windows[w] # None, current_buffers[Root(w)] # None, host[w].px[p] \in Child
          PROVE  NextTrackedAt(host[w].px[p], p)
      <3> DEFINE v == host[w].px[p]
      <3>1. TrackedAt(v, p) /\ v \in Child
        BY <2>4 DEF Tracked
      <3>2. Home[v] = Root(w)
        BY <2>4 DEF GhostInv, Placed
      <3> HIDE DEF v
      <3>3. child_surface_window[v] # win
        BY <2>4, <3>1, <3>2, OneWindow DEF GhostInv, Homed, TrackedAt
      <3>4. child_surface_last_rect'[v] = child_surface_last_rect[v] /\ bufs[v] = current_buffers[v]
        BY <1>4, <1>7, <3>1, <3>3
      <3>5. NextTrackedAt(v, p)
        BY <3>1, <3>4, <1>3 DEF TrackedAt, NextTrackedAt
      <3> QED BY <3>5 DEF v
    <2> QED BY <2>1, <2>2, <2>3, <2>4, <1>3 DEF NextTracked, Root
  <1>9. ASSUME NEW p \in Pixel
        PROVE  NextOK(win, p) /\ (Tracked => NextTracked(win, p))
    <2> DEFINE v == host'[win].px[p]
    <2>0. AfterRoot(p, win, size, bufs, places, drawn)
      BY <1>4
    <2>1. CASE v \notin Child
      BY <2>1 DEF NextOK, NextTracked, v
    <2>2. CASE v \in Child /\ Fresh(v, p, win, size, bufs, places)
      <3>1. /\ v \in child_surfaces /\ child_surface_window[v] = win /\ bufs[v] # None
            /\ p < size
            /\ child_surface_last_rect'[v] # None /\ p \in Covered(child_surface_last_rect'[v])
            /\ WindowOffset(places, v) # None
        BY <2>2 DEF Fresh
      <3>2. Home[v] = s
        BY <1>1, <2>2, <3>1, OneWindow DEF GhostInv, Homed
      <3>3. v \in Pops => popup_routes[v] # None
        <4> SUFFICES ASSUME v \in Pops PROVE popup_routes[v] # None
          OBVIOUS
        <4>1. v \in Surface /\ v \notin Tops /\ v \notin Subs
          BY DEF Surface
        <4>2. surface_to_window[v] = None
          BY <4>1 DEF GhostInv, BaseInv, Linked
        <4> QED BY <3>1, <4>1, <4>2, OffsetHere DEF GhostInv, BaseInv
      <3>4. NextOK(win, p)
        BY <3>1, <3>2, <3>3, <1>3, <1>4 DEF NextOK, Root
      <3>5. NextTrackedAt(v, p)
        BY <3>1, <1>1, <1>3 DEF NextTrackedAt, v
      <3>6. NextTracked(win, p)
        BY <3>5 DEF NextTracked, v
      <3> QED BY <3>4, <3>6
    <2>3. CASE v \in Child /\ drawn # None /\ v = host[win].px[p] /\ (drawn.holes = {} => p >= windows[win].size)
      <3>1. p >= windows[win].size
        BY <2>3, <1>2 DEF Opaque
      <3>2. p < windows[win].size
        BY <2>3, <1>1 DEF GhostInv, Placed
      <3>3. p \in Int /\ windows[win].size \in Int
        BY <1>1 DEF Pixel, GhostInv, BaseInv, Typed, Toplevel
      <3> QED BY <3>1, <3>2, <3>3
    <2>4. CASE /\ v \in Child /\ drawn = None /\ v = host[win].px[p]
               /\ bufs[Root(win)] # None /\ bufs[Root(win)].holes = {} /\ p < size =>
                     \A c \in Surface : bufs[c] # None =>
                         child_surface_last_rect'[c] = child_surface_last_rect[c]
      <3>1. p < windows[win].size /\ Home[v] = s
        BY <2>4, <1>1 DEF GhostInv, Placed
      <3>2. bufs[s] # None => bufs[s] = current_buffers[s] /\ bufs[s].holes = {}
        BY <1>1, <1>2, <2>4 DEF GhostInv, BaseInv, Sized, Opaque
      <3>3. bufs[s] # None /\ v \in Pops => popup_routes[v] # None
        BY <1>1, <2>4, <3>2 DEF GhostInv, Routed
      <3>4. NextOK(win, p)
        BY <3>1, <3>3, <2>4, <1>3, <1>4, <1>5 DEF NextOK, Root
      <3>5. ASSUME Tracked, bufs[s] # None PROVE NextTrackedAt(v, p)
        <4>1. TrackedAt(v, p)
          BY <1>1, <2>4, <3>2, <3>5 DEF Tracked
        <4>2. bufs[v] = current_buffers[v] /\ v \in Surface
          BY <1>7, <2>4
        <4>3. child_surface_last_rect'[v] = child_surface_last_rect[v]
          BY <1>1, <1>5, <2>4, <3>1, <3>2, <3>5, <4>1, <4>2 DEF TrackedAt
        <4> QED BY <4>1, <4>2, <4>3, <1>3 DEF TrackedAt, NextTrackedAt, v
      <3>6. Tracked => NextTracked(win, p)
        BY <3>5, <1>3, <1>4 DEF NextTracked, Root, v
      <3> QED BY <3>4, <3>6
    <2>5. \/ v \notin Child
          \/ v \in Child /\ Fresh(v, p, win, size, bufs, places)
          \/ v \in Child /\ drawn # None /\ v = host[win].px[p] /\ (drawn.holes = {} => p >= windows[win].size)
          \/ /\ v \in Child /\ drawn = None /\ v = host[win].px[p]
             /\ bufs[Root(win)] # None /\ bufs[Root(win)].holes = {} /\ p < size =>
                   \A c \in Surface : bufs[c] # None =>
                       child_surface_last_rect'[c] = child_surface_last_rect[c]
      BY <2>0 DEF AfterRoot
    <2> HIDE DEF v
    <2> QED BY <2>1, <2>2, <2>3, <2>4, <2>5
  <1> QED BY <1>6, <1>8, <1>9 DEF Kept

\* A commit of a child.
LEMMA ChildKept ==
    ASSUME GhostInv, IsHome(Home), Opaque, NEW s \in Child, NEW places, NEW bufs, NEW drawn,
           CommitOf(s, places, bufs, drawn), NEW at \in Route, at = WindowOffset(places, s),
           windows[at.win] # None, bufs[s] # None \/ bufs[s] = current_buffers[s],
           ChildCommit(s, at, bufs, drawn)
    PROVE  Kept
  <1> USE CompositorAssumption
  <1>0. PICK win : win = at.win
    OBVIOUS
  <1>1. /\ win \in Window /\ windows[win] # None /\ s \in Surface /\ s \notin Tops
        /\ Root(win) \in Tops /\ Root(win) \in Surface /\ Root(win) # s
    BY <1>0 DEF Route, GhostInv, BaseInv, Typed, Toplevel, Root, Child, Surface
  <1>2. /\ UNCHANGED <<surface_to_window, parent>>
        /\ places \in [Subs -> Int]
        /\ bufs \in [Surface -> Buffer \cup {None}] /\ drawn \in Buffer \cup {None}
        /\ \A c \in Surface \ {s} : bufs[c] = current_buffers[c]
        /\ drawn # None => bufs[s] = drawn
    BY DEF CommitOf
  <1>3. /\ current_buffers' = bufs
        /\ child_surface_window' = [child_surface_window EXCEPT ![s] = win]
        /\ child_surfaces' = child_surfaces \cup {s}
        /\ UNCHANGED <<windows, popup_routes>>
    BY <1>0 DEF ChildCommit, routes
  <1>4. /\ \A w \in Window \ {win} : host'[w] = host[w]
        /\ \A c \in Surface \ {s} : child_surface_last_rect'[c] = child_surface_last_rect[c]
        /\ \A p \in Pixel : AfterChild(p, win, s, drawn)
    <2>1. bufs[Root(at.win)] = current_buffers[Root(at.win)]
      BY <1>0, <1>1, <1>2
    <2>2. /\ Painted(host', host, at.win)
          /\ \A c \in Surface \ {s} : child_surface_last_rect'[c] = child_surface_last_rect[c]
          /\ \A p \in Pixel : AfterChild(p, at.win, s, drawn)
      BY <1>2, <2>1, ChildPaints DEF GhostInv, BaseInv
    <2> QED BY <1>0, <2>2 DEF Painted
  <1>5. win = surface_to_window[Home[s]] /\ Home[s] = Root(win)
    <2>1. Ends(at, s)
      BY <1>1, <1>2, OffsetEnds DEF GhostInv, BaseInv
    <2>2. win = surface_to_window[Home[s]]
      BY <1>0, <2>1 DEF Ends
    <2> QED BY <1>1, <2>2, OneWindow DEF GhostInv
  <1>6. s \in Pops => popup_routes[s] # None
    <2> SUFFICES ASSUME s \in Pops PROVE popup_routes[s] # None
      OBVIOUS
    <2>1. s \notin Subs /\ surface_to_window[s] = None
      BY <1>1 DEF GhostInv, BaseInv, Linked
    <2> QED BY <1>1, <2>1, OffsetHere DEF GhostInv, BaseInv
  <1>7. Homed'
    <2>1. \A c \in Child : popup_routes'[c] # None =>
             popup_routes'[c].win = surface_to_window'[Home[c]]
      BY <1>2, <1>3 DEF GhostInv, Homed
    <2>2. ASSUME NEW c \in Child, child_surface_window'[c] # None
          PROVE  child_surface_window'[c] = surface_to_window'[Home[c]]
      <3>1. c \in Surface /\ DOMAIN child_surface_window = Surface
        BY DEF Child, Surface, GhostInv, BaseInv, Typed
      <3>2. CASE c = s
        BY <3>1, <3>2, <1>2, <1>3, <1>5
      <3>3. CASE c # s
        <4>1. child_surface_window'[c] = child_surface_window[c]
          BY <3>1, <3>3, <1>3
        <4> QED BY <4>1, <2>2, <1>2 DEF GhostInv, Homed
      <3> QED BY <3>2, <3>3
    <2> QED BY <2>1, <2>2 DEF Homed
  <1>8. \A c \in Child \ {s} : /\ c \in Surface /\ bufs[c] = current_buffers[c]
                               /\ child_surface_window'[c] = child_surface_window[c]
                               /\ child_surface_last_rect'[c] = child_surface_last_rect[c]
    BY <1>2, <1>3, <1>4 DEF Child, Surface, GhostInv, BaseInv, Typed
  <1>9. \A w \in Window : windows[w] # None => bufs[Root(w)] = current_buffers[Root(w)]
    BY <1>1, <1>2 DEF GhostInv, BaseInv, Typed, Root, Toplevel, Surface
  <1>10. child_surface_window'[s] = win /\ win # None
    BY <1>1, <1>3 DEF GhostInv, BaseInv, Typed, Window
  <1>11. ASSUME NEW v \in Child \ {s}, NEW p, TrackedAt(v, p) PROVE NextTrackedAt(v, p)
    BY <1>3, <1>8, <1>11 DEF TrackedAt, NextTrackedAt
  <1>12. ASSUME NEW w \in Window \ {win}, NEW p \in Pixel
         PROVE  NextOK(w, p) /\ (Tracked => NextTracked(w, p))
    <2>1. host'[w] = host[w] /\ windows'[w] = windows[w]
      BY <1>3, <1>4
    <2>2. NextOK(w, p)
      BY <2>1, <1>3, <1>9, OtherWindow
    <2>3. ASSUME Tracked, windows[w] # None, current_buffers[Root(w)] # None, host[w].px[p] \in Child
          PROVE  NextTrackedAt(host[w].px[p], p)
      <3>1. TrackedAt(host[w].px[p], p) /\ Home[host[w].px[p]] = Root(w)
        BY <2>3 DEF Tracked, GhostInv, Placed
      <3>2. host[w].px[p] # s
        BY <3>1, <2>3, <1>5, OneWindow DEF GhostInv
      <3> QED BY <3>1, <3>2, <2>3, <1>11
    <2> QED BY <2>1, <2>2, <2>3, <1>3, <1>9 DEF NextTracked, Root
  <1>13. ASSUME NEW p \in Pixel
         PROVE  NextOK(win, p) /\ (Tracked => NextTracked(win, p))
    <2> DEFINE v == host'[win].px[p]
    <2>1. CASE v \notin Child
      BY <2>1 DEF NextOK, NextTracked
    <2>2. CASE /\ v = s /\ drawn # None /\ p < windows[win].size
               /\ child_surface_last_rect'[s] # None /\ p \in Covered(child_surface_last_rect'[s])
      <3>1. NextOK(win, p)
        BY <2>2, <1>3, <1>5, <1>6 DEF NextOK, Root
      <3>2. NextTrackedAt(s, p)
        BY <2>2, <1>2, <1>3, <1>10 DEF NextTrackedAt
      <3> QED BY <2>2, <3>1, <3>2 DEF NextTracked
    <2>3. CASE /\ v \in Child /\ v = host[win].px[p]
               /\ \/ child_surface_last_rect'[s] = child_surface_last_rect[s]
                  \/ child_surface_last_rect[s] = None
                  \/ Opaque /\ current_buffers[Root(win)] # None => p >= windows[win].size
      <3>1. p < windows[win].size /\ Home[v] = Root(win)
        BY <2>3, <1>1 DEF GhostInv, Placed
      <3>2. current_buffers[Root(win)] # None /\ v \in Pops => popup_routes[v] # None
        BY <2>3, <1>1 DEF GhostInv, Routed
      <3>3. NextOK(win, p)
        BY <2>3, <3>1, <3>2, <1>1, <1>3, <1>9 DEF NextOK, Root
      <3>4. ASSUME Tracked, current_buffers[Root(win)] # None PROVE NextTrackedAt(v, p)
        <4>1. TrackedAt(v, p)
          BY <1>1, <2>3, <3>4 DEF Tracked
        <4>2. CASE v # s
          <5> HIDE DEF v
          <5> QED BY <2>3, <4>1, <4>2, <1>11
        <4>3. CASE v = s
          <5>1. ~(p >= windows[win].size)
            BY <3>1, <1>1 DEF Pixel, GhostInv, BaseInv, Typed, Toplevel
          <5>2. child_surface_last_rect'[s] = child_surface_last_rect[s]
            BY <2>3, <3>4, <4>1, <4>3, <5>1 DEF TrackedAt
          <5> QED BY <4>1, <4>3, <5>2, <1>3, <1>10 DEF TrackedAt, NextTrackedAt
        <4> QED BY <4>2, <4>3
      <3>5. Tracked => NextTracked(win, p)
        BY <3>4, <1>1, <1>3, <1>9 DEF NextTracked, Root
      <3> QED BY <3>3, <3>5
    <2>4. AfterChild(p, win, s, drawn)
      BY <1>4
    <2>5. \/ v \notin Child
          \/ /\ v = s /\ drawn # None /\ p < windows[win].size
             /\ child_surface_last_rect'[s] # None /\ p \in Covered(child_surface_last_rect'[s])
          \/ /\ v \in Child /\ v = host[win].px[p]
             /\ \/ child_surface_last_rect'[s] = child_surface_last_rect[s]
                \/ child_surface_last_rect[s] = None
                \/ Opaque /\ current_buffers[Root(win)] # None => p >= windows[win].size
      BY <2>4 DEF AfterChild
    <2> HIDE DEF v
    <2> QED BY <2>1, <2>2, <2>3, <2>5
  <1> QED BY <1>7, <1>12, <1>13 DEF Kept

\* A child that goes, from tracking and from its routes, and from the screen.
LEMMA ForgottenKept ==
    ASSUME GhostInv, IsHome(Home), NEW s \in Surface,
           popup_routes' = [popup_routes EXCEPT ![s] = None],
           ClearTracking(s, current_buffers), UNCHANGED <<windows, surface_to_window>>,
           \A w \in Window : windows[w] # None => \A p \in Pixel :
              /\ host'[w].px[p] \in Child => host'[w].px[p] = host[w].px[p]
              /\ current_buffers[Root(w)] # None /\ s \in Child => host'[w].px[p] # s
    PROVE  Kept
  <1> USE CompositorAssumption
  <1>1. Homed'
    BY DEF GhostInv, BaseInv, Typed, Homed, ClearTracking, Child, Surface
  <1>2. \A w \in Window : windows[w] # None =>
           current_buffers'[Root(w)] \in {current_buffers[Root(w)], None}
    BY DEF ClearTracking, GhostInv, BaseInv, Typed, Root, Toplevel, Surface
  <1>3. \A c \in Child \ {s} : /\ popup_routes'[c] = popup_routes[c]
                               /\ current_buffers'[c] = current_buffers[c]
                               /\ child_surface_window'[c] = child_surface_window[c]
                               /\ child_surface_last_rect'[c] = child_surface_last_rect[c]
                               /\ c \in child_surfaces => c \in child_surfaces'
    BY DEF ClearTracking, GhostInv, BaseInv, Typed, Child, Surface
  <1>4. ASSUME NEW w \in Window, NEW p \in Pixel, windows[w] # None, host'[w].px[p] \in Child
        PROVE  NextOK(w, p) /\ (Tracked => NextTracked(w, p))
    <2> DEFINE v == host[w].px[p]
    <2>1. host'[w].px[p] = v /\ v \in Child
      BY <1>4
    <2>2. p < windows[w].size /\ Home[v] = Root(w)
      BY <1>4, <2>1 DEF GhostInv, Placed
    <2>3. CASE current_buffers[Root(w)] = None
      <3>1. current_buffers'[Root(w)] = None
        BY <1>2, <1>4, <2>3
      <3> HIDE DEF v
      <3> QED BY <2>1, <2>2, <3>1 DEF NextOK, NextTracked, Root
    <2>4. CASE current_buffers[Root(w)] # None
      <3>1. v # s
        BY <1>4, <2>1, <2>4 DEF Child
      <3>2. v \in Pops => popup_routes[v] # None
        BY <1>4, <2>4 DEF GhostInv, Routed
      <3>3. Tracked => TrackedAt(v, p)
        BY <1>4, <2>1, <2>4 DEF Tracked
      <3> HIDE DEF v
      <3>4. NextOK(w, p)
        BY <2>1, <2>2, <3>1, <3>2, <1>3 DEF NextOK, Root
      <3>5. Tracked => NextTrackedAt(v, p)
        BY <2>1, <3>1, <3>3, <1>3 DEF TrackedAt, NextTrackedAt
      <3> QED BY <2>1, <3>4, <3>5 DEF NextTracked
    <2> QED BY <2>3, <2>4
  <1>5. \A w \in Window : \A p \in Pixel : NextOK(w, p) /\ (Tracked => NextTracked(w, p))
    BY <1>4 DEF NextOK, NextTracked
  <1> QED BY <1>1, <1>5 DEF Kept

\* A child whose window has its root painted again is not seen any more.
LEMMA PaintedOver ==
    ASSUME GhostInv, IsHome(Home), NEW s \in Child, NEW win \in Window, windows[win] # None,
           win = surface_to_window[Home[s]], Painted(host', host, win),
           \A p \in Pixel : host'[win].px[p] \in {Root(win), host[win].px[p]},
           current_buffers[Root(win)] # None =>
              \A p \in Pixel : p < windows[win].size => host'[win].px[p] = Root(win)
    PROVE  \A w \in Window : windows[w] # None => \A p \in Pixel :
              /\ host'[w].px[p] \in Child => host'[w].px[p] = host[w].px[p]
              /\ current_buffers[Root(w)] # None /\ s \in Child => host'[w].px[p] # s
  <1> USE CompositorAssumption
  <1>1. Root(win) \in Tops /\ Root(win) \notin Child
    BY DEF GhostInv, BaseInv, Typed, Toplevel, Root, Child
  <1> SUFFICES ASSUME NEW w \in Window, windows[w] # None, NEW p \in Pixel
               PROVE  /\ host'[w].px[p] \in Child => host'[w].px[p] = host[w].px[p]
                      /\ current_buffers[Root(w)] # None => host'[w].px[p] # s
    OBVIOUS
  <1>2. CASE w = win
    <2>1. host'[win].px[p] \in Child => host'[win].px[p] = host[win].px[p]
      BY <1>1
    <2>2. ASSUME current_buffers[Root(win)] # None, host'[win].px[p] = s PROVE FALSE
      <3>1. host[win].px[p] = s
        BY <2>1, <2>2
      <3>2. p < windows[win].size
        BY <3>1 DEF GhostInv, Placed
      <3> QED BY <3>2, <2>2, <1>1
    <2> QED BY <1>2, <2>1, <2>2
  <1>3. CASE w # win
    <2>1. host'[w] = host[w]
      BY <1>3 DEF Painted
    <2>2. host[w].px[p] # s
      <3> SUFFICES ASSUME host[w].px[p] = s PROVE FALSE
        OBVIOUS
      <3>1. Home[s] = Root(w)
        BY DEF GhostInv, Placed
      <3> QED BY <3>1, <1>3, OneWindow DEF GhostInv
    <2> QED BY <2>1, <2>2
  <1> QED BY <1>2, <1>3

\* A commit that takes the buffer of a child away.
LEMMA DetachKept ==
    ASSUME GhostInv, IsHome(Home), Opaque, NEW s \in Child, NEW places, NEW bufs, NEW drawn,
           CommitOf(s, places, bufs, drawn), NEW at \in Route, at = WindowOffset(places, s),
           windows[at.win] # None, Detach(s, at.win)
    PROVE  Kept
  <1> USE CompositorAssumption
  <1>0. PICK win : win = at.win
    OBVIOUS
  <1>1. /\ win \in Window /\ windows[win] # None /\ s \in Surface /\ s \notin Tops
        /\ Root(win) \in Tops /\ Root(win) \in Surface /\ Root(win) # s
    BY <1>0 DEF Route, GhostInv, BaseInv, Typed, Toplevel, Root, Child, Surface
  <1>2. win = surface_to_window[Home[s]]
    <2>1. places \in [Subs -> Int]
      BY DEF CommitOf
    <2>2. Ends(at, s)
      BY <1>1, <2>1, OffsetEnds DEF GhostInv, BaseInv
    <2> QED BY <1>0, <2>2 DEF Ends
  <1>3. PICK cleared : cleared = [current_buffers EXCEPT ![s] = None]
    OBVIOUS
  <1>4. cleared[Root(win)] = current_buffers[Root(win)]
    BY <1>1, <1>3 DEF GhostInv, BaseInv, Typed
  <1>5. Repainted(host', win, cleared)
    <2>1. host' = Repaint(host, win, cleared)
      BY <1>0, <1>3 DEF Detach
    <2>2. cleared[Root(win)] \in {current_buffers[Root(win)], None}
      BY <1>4
    <2> QED BY <1>1, <2>1, <2>2, RepaintNow DEF GhostInv, BaseInv
  <1>6. \A w \in Window : windows[w] # None => \A p \in Pixel :
              /\ host'[w].px[p] \in Child => host'[w].px[p] = host[w].px[p]
              /\ current_buffers[Root(w)] # None /\ s \in Child => host'[w].px[p] # s
    <2>1. /\ Painted(host', host, win)
          /\ \A p \in Pixel : host'[win].px[p] \in {Root(win), host[win].px[p]}
          /\ current_buffers[Root(win)] # None =>
                \A p \in Pixel : p < windows[win].size => host'[win].px[p] = Root(win)
      BY <1>4, <1>5 DEF Repainted
    <2> QED BY <1>1, <1>2, <2>1, PaintedOver
  <1>7. /\ popup_routes' = [popup_routes EXCEPT ![s] = None]
        /\ ClearTracking(s, current_buffers) /\ UNCHANGED <<windows, surface_to_window>>
    BY DEF Detach, RemoveRoute, CommitOf
  <1> QED BY <1>1, <1>6, <1>7, ForgottenKept

\* popup_destroyed and CompositorHandler::destroyed.
LEMMA GoneKept ==
    ASSUME GhostInv, IsHome(Home), Opaque, NEW s \in Surface,
           (s \in Pops /\ PopupDestroyed(s)) \/ SurfaceDestroyed(s)
    PROVE  Kept
  <1> USE CompositorAssumption
  <1>1. /\ popup_routes' = [popup_routes EXCEPT ![s] = None]
        /\ ClearTracking(s, current_buffers) /\ UNCHANGED <<windows, surface_to_window>>
    BY DEF PopupDestroyed, SurfaceDestroyed, RemoveRoute, ids
  <1>2. \A w \in Window : windows[w] # None => \A p \in Pixel :
              /\ host'[w].px[p] \in Child => host'[w].px[p] = host[w].px[p]
              /\ current_buffers[Root(w)] # None /\ s \in Child => host'[w].px[p] # s
    <2>1. CASE popup_routes[s] # None
      <3>0. PICK win : win = popup_routes[s].win
        OBVIOUS
      <3>1. host' = Repaint(host, popup_routes[s].win, [current_buffers EXCEPT ![s] = None])
        BY <1>1, <2>1 DEF PopupDestroyed, SurfaceDestroyed, ClearTracking
      <3>2. /\ win \in Window /\ windows[win] # None /\ s \in Pops
            /\ Painted(host', host, win)
            /\ \A p \in Pixel : host'[win].px[p] \in {Root(win), host[win].px[p]}
            /\ current_buffers[Root(win)] # None =>
                  \A p \in Pixel : p < windows[win].size => host'[win].px[p] = Root(win)
        <4> DEFINE at == popup_routes[s].win
        <4>1. /\ at \in Window /\ windows[at] # None /\ s \in Pops
              /\ Painted(host', host, at)
              /\ \A p \in Pixel : host'[at].px[p] \in {Root(at), host[at].px[p]}
              /\ Opaque /\ current_buffers[Root(at)] # None =>
                    \A p \in Pixel : p < windows[at].size => host'[at].px[p] = Root(at)
          <5>1. BaseInv
            BY DEF GhostInv
          <5>2. PICK g : g = host'
            OBVIOUS
          <5>3. g = Repaint(host, popup_routes[s].win, [current_buffers EXCEPT ![s] = None])
            BY <3>1, <5>2
          <5> QED BY <2>1, <5>1, <5>2, <5>3, GonePaints, Zenon
        <4>2. win = at
          BY <3>0
        <4> HIDE DEF at
        <4> QED BY <4>1, <4>2
      <3>3. s \in Child /\ win = surface_to_window[Home[s]]
        BY <2>1, <3>0, <3>2 DEF Child, GhostInv, Homed
      <3> QED BY <3>2, <3>3, PaintedOver
    <2>2. CASE popup_routes[s] = None
      <3>1. s \in Pops => \A w \in Window : windows[w] # None /\ current_buffers[Root(w)] # None =>
               \A p \in Pixel : host[w].px[p] # s
        BY <2>2 DEF GhostInv, Routed
      <3>2. CASE host' = host /\ s \in Pops
        BY <3>1, <3>2
      <3>3. CASE host' = Disown(host, s)
        <4>1. host \in Frames /\ \A w \in Window : windows[w] # None => host[w] # None
          BY DEF GhostInv, BaseInv, Typed, Linked, Frames
        <4>2. \A w \in Window : host[w] # None =>
                 /\ \A p \in Pixel : host'[w].px[p] \in {host[w].px[p], None}
                 /\ s \in Subs => \A p \in Pixel : host'[w].px[p] # s
          BY <3>3, <4>1, DisownFrames
        <4>3. None \notin Child
          BY DEF Child, Surface
        <4> QED BY <3>1, <4>1, <4>2, <4>3 DEF Child
      <3> QED BY <2>2, <3>2, <3>3 DEF PopupDestroyed, SurfaceDestroyed
    <2> QED BY <2>1, <2>2
  <1> QED BY <1>1, <1>2, ForgottenKept

\* new_toplevel and toplevel_destroyed.
LEMMA ToplevelKept ==
    ASSUME GhostInv, IsHome(Home), NEW s \in Tops, NewToplevel(s) \/ ToplevelDestroyed(s)
    PROVE  Kept
  <1> USE CompositorAssumption
  <1>0. s \in Surface /\ s \notin Child /\ \A c \in Child : c \in Surface /\ Home[c] \in Surface
    BY DEF Surface, Child, IsHome
  <1>1. CASE NewToplevel(s)
    <2> DEFINE id == next_window_id
               frame == [size |-> 1, px |-> [p \in Pixel |-> None]]
    <2>1. \A p \in Pixel : frame.px[p] = None
      OBVIOUS
    <2>2. /\ id \in Window
          /\ s \notin role
          /\ surface_to_window' = [surface_to_window EXCEPT ![s] = id]
          /\ \A w \in Window \ {id} : windows'[w] = windows[w] /\ host'[w] = host[w]
          /\ host'[id] = frame
          /\ UNCHANGED <<routes, children, current_buffers>>
      <3>1. id \in Window
        BY <1>1 DEF NewToplevel, GhostInv, BaseInv, Typed, Window
      <3> HIDE DEF id, frame
      <3>2. /\ s \notin role
            /\ surface_to_window' = [surface_to_window EXCEPT ![s] = id]
            /\ windows' = [windows EXCEPT ![id] = [surface |-> s, size |-> 1]]
            /\ host' = [host EXCEPT ![id] = frame]
            /\ UNCHANGED <<routes, children, current_buffers>>
        BY <1>1 DEF NewToplevel, id, frame
      <3> QED BY <3>1, <3>2 DEF GhostInv, BaseInv, Typed
    <2> HIDE DEF id, frame
    <2>3. surface_to_window[s] = None
      BY <1>0, <2>2 DEF GhostInv, BaseInv, Linked
    <2>4. \A c \in Child : surface_to_window[Home[c]] # None =>
             surface_to_window'[Home[c]] = surface_to_window[Home[c]]
      BY <1>0, <2>2, <2>3 DEF GhostInv, BaseInv, Typed
    <2>5. Homed'
      <3>1. \A c \in Child : popup_routes'[c] # None =>
               popup_routes'[c].win = surface_to_window'[Home[c]]
        <4>1. \A c \in Child : popup_routes[c] # None => popup_routes[c].win # None
          BY <1>0 DEF GhostInv, BaseInv, Typed, Route, Window
        <4> QED BY <2>2, <2>4, <4>1 DEF GhostInv, Homed, routes
      <3>2. \A c \in Child : child_surface_window'[c] # None =>
               child_surface_window'[c] = surface_to_window'[Home[c]]
        BY <2>2, <2>4 DEF GhostInv, Homed, children
      <3> QED BY <3>1, <3>2 DEF Homed
    <2>6. ASSUME NEW p \in Pixel PROVE NextOK(id, p) /\ NextTracked(id, p)
      <3>1. host'[id].px[p] = None /\ None \notin Child
        BY <2>1, <2>2 DEF Child, Surface
      <3> QED BY <3>1 DEF NextOK, NextTracked
    <2>7. ASSUME NEW w \in Window \ {id}, NEW p \in Pixel PROVE NextOK(w, p)
      BY <2>2, OtherWindow DEF routes
    <2>8. ASSUME Tracked, NEW w \in Window \ {id}, NEW p \in Pixel PROVE NextTracked(w, p)
      <3>1. windows'[w] = windows[w] /\ host'[w] = host[w] /\ UNCHANGED <<children, current_buffers>>
        BY <2>2
      <3> QED BY <3>1, <2>8 DEF Tracked, TrackedAt, NextTracked, NextTrackedAt, Root, children
    <2> QED BY <2>2, <2>5, <2>6, <2>7, <2>8 DEF Kept
  <1>2. CASE ToplevelDestroyed(s)
    <2> DEFINE id == surface_to_window[s]
    <2>1. id \in Window /\ windows[id] # None /\ Root(id) = s /\ id # None
      BY <1>0, <1>2 DEF ToplevelDestroyed, GhostInv, BaseInv, Linked, Typed
    <2>2. /\ surface_to_window' = [surface_to_window EXCEPT ![s] = None]
          /\ windows' = [windows EXCEPT ![id] = None]
          /\ current_buffers' = [current_buffers EXCEPT ![s] = None]
          /\ host' = [host EXCEPT ![id] = None]
          /\ popup_routes' = [t \in Surface |-> IF popup_routes[t] # None /\ popup_routes[t].win = id
                                                THEN None ELSE popup_routes[t]]
          /\ child_surface_window' = [c \in Surface |-> IF child_surface_window[c] = id THEN None
                                                        ELSE child_surface_window[c]]
      BY <1>2 DEF ToplevelDestroyed, ForgetRoutes
    <2>3. \A c \in Surface : child_surface_window'[c] # None =>
             /\ c \in child_surfaces => c \in child_surfaces'
             /\ child_surface_last_rect'[c] = child_surface_last_rect[c]
      <3> DEFINE csw == [c \in Surface |-> IF child_surface_window[c] = id THEN None
                                           ELSE child_surface_window[c]]
      <3>1. /\ child_surface_window' = csw
            /\ child_surfaces' = {c \in child_surfaces : csw[c] # None}
            /\ child_surface_last_rect' = [c \in Surface |-> IF csw[c] = None THEN None
                                                             ELSE child_surface_last_rect[c]]
        BY <1>2 DEF ToplevelDestroyed
      <3> HIDE DEF csw
      <3> QED BY <3>1
    <2>4. /\ \A w \in Window \ {id} : windows'[w] = windows[w] /\ host'[w] = host[w]
          /\ windows'[id] = None
      BY <2>1, <2>2 DEF GhostInv, BaseInv, Typed
    <2>5. \A t \in Surface \ {s} : /\ surface_to_window'[t] = surface_to_window[t]
                                   /\ current_buffers'[t] = current_buffers[t]
      BY <2>2 DEF GhostInv, BaseInv, Typed
    <2>6. \A c \in Child : /\ popup_routes'[c] # None =>
                                popup_routes'[c] = popup_routes[c] /\ popup_routes[c].win # id
                           /\ child_surface_window'[c] # None =>
                                /\ child_surface_window'[c] = child_surface_window[c]
                                /\ child_surface_window[c] # id
      BY <1>0, <2>2
    <2>7. \A c \in Child : /\ popup_routes[c] # None /\ popup_routes[c].win # id =>
                                popup_routes'[c] = popup_routes[c]
                           /\ child_surface_window[c] # id =>
                                child_surface_window'[c] = child_surface_window[c]
      BY <1>0, <2>2
    <2>8. Homed'
      <3>1. \A c \in Child : surface_to_window[Home[c]] # id =>
               surface_to_window'[Home[c]] = surface_to_window[Home[c]]
        BY <1>0, <2>5
      <3> QED BY <2>6, <3>1 DEF GhostInv, Homed
    <2> HIDE DEF id
    <2>9. ASSUME NEW w \in Window \ {id}, windows[w] # None
          PROVE  /\ current_buffers'[Root(w)] = current_buffers[Root(w)]
                 /\ \A c \in Child : Home[c] = Root(w) =>
                       /\ c \in Surface /\ current_buffers'[c] = current_buffers[c]
                       /\ popup_routes[c] # None => popup_routes'[c] = popup_routes[c]
                       /\ child_surface_window[c] # None =>
                             child_surface_window'[c] = child_surface_window[c]
      <3>1. Root(w) \in Surface /\ Root(w) # s
        BY <2>9, <1>0 DEF GhostInv, BaseInv, Typed, Linked, Root, Toplevel, Surface, id
      <3>2. \A c \in Child : Home[c] = Root(w) => surface_to_window[Home[c]] = w
        BY <2>9, OneWindow DEF GhostInv
      <3> QED BY <3>1, <3>2, <1>0, <2>5, <2>7 DEF GhostInv, Homed
    <2>10. ASSUME NEW w \in Window \ {id}, NEW p \in Pixel
           PROVE  NextOK(w, p) /\ (Tracked => NextTracked(w, p))
      <3>1. windows'[w] = windows[w] /\ host'[w] = host[w]
        BY <2>4
      <3>2. CASE windows[w] # None /\ host[w].px[p] \in Child
        <4>0. PICK v : v = host[w].px[p]
          OBVIOUS
        <4>1. v \in Child /\ Home[v] = Root(w) /\ p < windows[w].size
          BY <3>2, <4>0 DEF GhostInv, Placed
        <4>2. /\ v \in Surface /\ current_buffers'[v] = current_buffers[v]
              /\ popup_routes[v] # None => popup_routes'[v] = popup_routes[v]
              /\ child_surface_window[v] # None =>
                    child_surface_window'[v] = child_surface_window[v]
              /\ current_buffers'[Root(w)] = current_buffers[Root(w)]
          BY <3>2, <4>1, <2>9
        <4>3. current_buffers[Root(w)] # None /\ v \in Pops => popup_routes[v] # None
          BY <3>2, <4>0 DEF GhostInv, Routed
        <4>4. NextOK(w, p)
          BY <3>1, <4>0, <4>1, <4>2, <4>3 DEF NextOK, Root
        <4>5. Tracked /\ current_buffers[Root(w)] # None => TrackedAt(v, p)
          BY <3>2, <4>0, <4>1 DEF Tracked
        <4>6. Tracked /\ current_buffers[Root(w)] # None => NextTrackedAt(v, p)
          BY <4>2, <4>5, <2>3 DEF TrackedAt, NextTrackedAt
        <4> QED BY <3>1, <4>0, <4>2, <4>4, <4>6 DEF NextTracked, Root
      <3>3. CASE ~(windows[w] # None /\ host[w].px[p] \in Child)
        BY <3>1, <3>3 DEF NextOK, NextTracked
      <3> QED BY <3>2, <3>3
    <2>11. ASSUME NEW p \in Pixel PROVE NextOK(id, p) /\ NextTracked(id, p)
      BY <2>4 DEF NextOK, NextTracked
    <2> QED BY <2>8, <2>10, <2>11 DEF Kept
  <1> QED BY <1>1, <1>2

\* Role objects of children.
LEMMA RoleKept ==
    ASSUME GhostInv, IsHome(Home), NEW s \in Child,
           \/ s \in Pops /\ (NewPopup(s) \/ Reposition(s))
           \/ s \in Subs /\ (NewSubsurface(s) \/ SubsurfaceDestroyed(s))
    PROVE  Kept
  <1> USE CompositorAssumption
  <1>1. UNCHANGED <<children, ids, current_buffers, host>>
    BY DEF NewPopup, Reposition, NewSubsurface, SubsurfaceDestroyed
  <1>2. /\ \A c \in Child : popup_routes[c] # None => popup_routes'[c] # None
        /\ \A c \in Child : popup_routes'[c] # None => popup_routes'[c].win = surface_to_window[Home[c]]
    <2>1. CASE s \in Pops /\ (NewPopup(s) \/ Reposition(s))
      <3>1. PICK on \in Parents[s], x \in Place : RoutePopup(s, on, x)
        <4>1. CASE NewPopup(s)
          BY <4>1 DEF NewPopup
        <4>2. CASE Reposition(s)
          BY <2>1, <4>2 DEF Reposition, GhostInv, BaseInv, Typed, Linked
        <4> QED BY <2>1, <4>1, <4>2
      <3>2. on \in Surface /\ Home[on] = Home[s]
        BY <3>1 DEF IsHome
      <3>3. /\ \A c \in Surface \ {s} : popup_routes'[c] = popup_routes[c]
            /\ \/ popup_routes' = popup_routes
               \/ /\ WindowOffset(loc, on) \in Route
                  /\ popup_routes'[s] # None
                  /\ popup_routes'[s].win = WindowOffset(loc, on).win
        BY <2>1, <3>1, <3>2, RouteLives DEF GhostInv, BaseInv
      <3>4. Ends(WindowOffset(loc, on), on)
        BY <3>2, OffsetEnds DEF GhostInv, BaseInv, Typed
      <3>5. WindowOffset(loc, on) \in Route => WindowOffset(loc, on).win = surface_to_window[Home[s]]
        BY <3>2, <3>4 DEF Ends
      <3>6. \A c \in Child : c \in Surface
        BY DEF Child, Surface
      <3> QED BY <3>3, <3>5, <3>6 DEF GhostInv, Homed
    <2>2. CASE s \in Subs /\ (NewSubsurface(s) \/ SubsurfaceDestroyed(s))
      <3>1. UNCHANGED routes
        BY <2>2 DEF NewSubsurface, SubsurfaceDestroyed
      <3> QED BY <3>1 DEF routes, GhostInv, Homed
    <2> QED BY <2>1, <2>2
  <1>3. Homed'
    BY <1>1, <1>2 DEF GhostInv, Homed, children, ids
  <1>4. ASSUME NEW w \in Window, NEW p \in Pixel PROVE NextOK(w, p)
    BY <1>1, <1>2 DEF NextOK, GhostInv, Placed, Routed, Root, ids
  <1>5. ASSUME Tracked, NEW w \in Window, NEW p \in Pixel PROVE NextTracked(w, p)
    BY <1>1, <1>5 DEF Tracked, TrackedAt, NextTracked, NextTrackedAt, Root, ids, children
  <1> QED BY <1>3, <1>4, <1>5 DEF Kept

\* A buffer that is destroyed costs no more than the root's own copy.
LEMMA BufferKept ==
    ASSUME GhostInv, NEW s \in Surface, BufferDestroyed(s)
    PROVE  /\ Homed' /\ Placed' /\ Routed'
           /\ Tracked /\ Disposable \subseteq Tops => Tracked'
  <1> USE CompositorAssumption
  <1>1. /\ s \in Disposable /\ current_buffers' = [current_buffers EXCEPT ![s] = None]
        /\ UNCHANGED <<routes, children, ids, host>>
    BY DEF BufferDestroyed
  <1>2. \A c \in Surface : current_buffers'[c] \in {current_buffers[c], None}
    BY <1>1 DEF GhostInv, BaseInv, Typed
  <1>3. \A w \in Window : windows[w] # None => Root(w) \in Surface
    BY DEF GhostInv, BaseInv, Typed, Root, Toplevel, Surface
  <1>4. Homed' /\ Placed'
    BY <1>1 DEF GhostInv, Homed, Placed, Root, routes, children, ids
  <1>5. Routed'
    BY <1>1, <1>2, <1>3 DEF GhostInv, Routed, Root, routes, ids
  <1>6. Tracked /\ Disposable \subseteq Tops => Tracked'
    <2> SUFFICES ASSUME Tracked, Disposable \subseteq Tops PROVE Tracked'
      OBVIOUS
    <2>1. \A c \in Child : current_buffers'[c] = current_buffers[c]
      BY <1>1 DEF GhostInv, BaseInv, Typed, Child, Surface
    <2>2. ASSUME NEW w \in Window, NEW p \in Pixel, windows[w] # None,
                 current_buffers'[Root(w)] # None, host[w].px[p] \in Child
          PROVE  NextTrackedAt(host[w].px[p], p)
      <3>1. TrackedAt(host[w].px[p], p)
        BY <2>2, <1>2, <1>3 DEF Tracked
      <3> QED BY <3>1, <2>1, <2>2, <1>1 DEF TrackedAt, NextTrackedAt, children
    <2> QED BY <2>2, <1>1 DEF Tracked, TrackedAt, NextTrackedAt, Root, ids
  <1> QED BY <1>4, <1>5, <1>6

\* A commit of any surface.
LEMMA CommitKept ==
    ASSUME GhostInv, IsHome(Home), Opaque, NEW s \in Surface, NEW kind, NEW b,
           kind = "new" => b \in Content(s), Commit(s, kind, b)
    PROVE  Kept
  <1>1. PICK places, bufs, drawn :
              /\ CommitOf(s, places, bufs, drawn)
              /\ \/ CommitNowhere /\ surface_to_window[s] = None
                 \/ /\ surface_to_window[s] # None
                    /\ RootCommit(s, surface_to_window[s], bufs, drawn, places)
                 \/ CommitAt(s, places, bufs, drawn)
    BY CommitCases DEF GhostInv, BaseInv
  <1>2. CASE CommitNowhere
    <2>1. UNCHANGED <<windows, routes, children, current_buffers, host, surface_to_window>>
      BY <1>1, <1>2 DEF CommitNowhere, CommitOf
    <2>2. Homed'
      BY <2>1 DEF GhostInv, Homed, routes, children
    <2>3. ASSUME NEW w \in Window, NEW p \in Pixel PROVE NextOK(w, p)
      BY <2>1 DEF NextOK, GhostInv, Placed, Routed, Root, routes
    <2>4. ASSUME Tracked, NEW w \in Window, NEW p \in Pixel PROVE NextTracked(w, p)
      BY <2>1, <2>4 DEF Tracked, TrackedAt, NextTracked, NextTrackedAt, Root, children
    <2> QED BY <2>2, <2>3, <2>4 DEF Kept
  <1>3. CASE surface_to_window[s] # None /\ RootCommit(s, surface_to_window[s], bufs, drawn, places)
    BY <1>1, <1>3, RootKept
  <1>4. CASE CommitAt(s, places, bufs, drawn)
    <2>0. PICK at : at = WindowOffset(places, s)
      OBVIOUS
    <2>1. /\ s \in Child /\ at \in Route /\ windows[at.win] # None
          /\ \/ Detach(s, at.win)
             \/ /\ ChildCommit(s, at, bufs, drawn)
                /\ bufs[s] # None \/ bufs[s] = current_buffers[s]
      BY <1>4, <2>0 DEF CommitAt
    <2>2. CASE Detach(s, at.win)
      BY <1>1, <2>0, <2>1, <2>2, DetachKept
    <2>3. CASE /\ ChildCommit(s, at, bufs, drawn)
               /\ bufs[s] # None \/ bufs[s] = current_buffers[s]
      BY <1>1, <2>0, <2>1, <2>3, ChildKept
    <2> QED BY <2>1, <2>2, <2>3
  <1> QED BY <1>1, <1>2, <1>3, <1>4

\* What is seen of the children stays right with every step.
LEMMA GhostNext ==
    ASSUME GhostInv, IsHome(Home), Opaque, [Next]_vars
    PROVE  /\ GhostInv'
           /\ Tracked /\ Disposable \subseteq Tops => Tracked'
  <1>0. BaseInv'
    BY BaseNext DEF GhostInv
  <1>1. Kept => /\ GhostInv'
                /\ Tracked => Tracked'
    BY <1>0, KeptHolds DEF GhostInv
  <1>2. ASSUME NEW s \in Surface,
               CommitNew(s) \/ CommitDamage(s) \/ CommitRemoved(s) \/ CommitNone(s)
        PROVE  Kept
    <2>1. PICK kind, b : (kind = "new" => b \in Content(s)) /\ Commit(s, kind, b)
      BY <1>2 DEF CommitNew, CommitDamage, CommitRemoved, CommitNone
    <2> QED BY <2>1, CommitKept
  <1>3. ASSUME NEW s \in Surface, SurfaceDestroyed(s) PROVE Kept
    BY <1>3, GoneKept
  <1>4. ASSUME NEW s \in Surface, BufferDestroyed(s)
        PROVE  /\ GhostInv'
               /\ Tracked /\ Disposable \subseteq Tops => Tracked'
    BY <1>0, <1>4, BufferKept DEF GhostInv
  <1>5. ASSUME NEW s \in Tops, NewToplevel(s) \/ ToplevelDestroyed(s) PROVE Kept
    BY <1>5, ToplevelKept
  <1>6. ASSUME NEW s \in Pops, NewPopup(s) \/ Reposition(s) \/ PopupDestroyed(s) PROVE Kept
    <2>1. s \in Surface /\ s \in Child
      BY DEF Surface, Child
    <2>2. CASE NewPopup(s) \/ Reposition(s)
      BY <2>1, <2>2, RoleKept
    <2>3. CASE PopupDestroyed(s)
      BY <2>1, <2>3, GoneKept
    <2> QED BY <1>6, <2>2, <2>3
  <1>7. ASSUME NEW s \in Subs, NewSubsurface(s) \/ SubsurfaceDestroyed(s) PROVE Kept
    <2>1. s \in Child
      BY DEF Child
    <2> QED BY <1>7, <2>1, RoleKept
  <1>8. CASE UNCHANGED vars
    <2>1. UNCHANGED <<windows, surface_to_window, popup_routes, child_surface_window,
                      child_surfaces, child_surface_last_rect, current_buffers, host>>
      BY <1>8 DEF vars, routes, children, ids
    <2>2. Homed' /\ Placed' /\ Routed'
      BY <2>1 DEF GhostInv, Homed, Placed, Routed, Root
    <2>3. Tracked => Tracked'
      BY <2>1 DEF Tracked, TrackedAt, Root
    <2> QED BY <1>0, <2>2, <2>3 DEF GhostInv
  <1>9. CASE Next
    BY <1>1, <1>2, <1>3, <1>4, <1>5, <1>6, <1>7, <1>9 DEF Next
  <1> QED BY <1>8, <1>9

\* Nothing is seen at the start.
LEMMA GhostInit ==
    ASSUME Init
    PROVE  GhostInv /\ Tracked
  <1> USE CompositorAssumption DEF Init
  <1>1. BaseInv BY BaseInit
  <1>2. Homed BY DEF Homed, Child, Surface
  <1>3. Placed /\ Routed /\ Tracked BY DEF Placed, Routed, Tracked
  <1> QED BY <1>1, <1>2, <1>3 DEF GhostInv

\* The pixels of a dismissed popup do not stay on the viewer's screen, however the
\* popup went away, when roots are opaque and a child slot keeps to one toplevel.
\* Both are needed: the root tile that paints over a popup leaves the pixels where
\* the root is transparent, and a slot that comes back under another toplevel would
\* be taken for the popup that was seen in the first.
THEOREM NoGhostEver ==
    ASSUME Opaque, \E home : IsHome(home)
    PROVE  Spec => []NoGhost
  <1>0. IsHome(Home)
    BY Zenon DEF Home
  <1>1. Init => GhostInv
    BY GhostInit
  <1>2. GhostInv /\ [Next]_vars => GhostInv'
    BY <1>0, GhostNext
  <1>3. GhostInv => NoGhost
    <2> SUFFICES ASSUME GhostInv, NEW w \in Window, NEW p \in Pixel, windows[w] # None,
                        current_buffers[Root(w)] # None, host[w].px[p] \in Pops
                 PROVE  popup_routes[host[w].px[p]] # None /\ popup_routes[host[w].px[p]].win = w
      BY DEF NoGhost
    <2>0. PICK v : v = host[w].px[p]
      OBVIOUS
    <2>1. v \in Child /\ popup_routes[v] # None
      BY <2>0 DEF GhostInv, Routed, Child
    <2>2. Home[v] = Root(w) /\ popup_routes[v].win = surface_to_window[Home[v]]
      BY <2>0, <2>1 DEF GhostInv, Placed, Homed
    <2> QED BY <1>0, <2>0, <2>1, <2>2, OneWindow DEF GhostInv
  <1> QED BY <1>1, <1>2, <1>3, PTL DEF Spec

\* The rectangle recorded for a child covers every pixel of it the viewer still
\* shows, under the same assumptions and when children do not have their wl_buffer
\* destroyed: repaint_moved_child_surfaces forgets the rectangle of a child without
\* a buffer, and leaves its pixels.
THEOREM RectAlwaysCovers ==
    ASSUME Opaque, \E home : IsHome(home), Disposable \subseteq Tops
    PROVE  Spec => []RectCovers
  <1>0. IsHome(Home)
    BY Zenon DEF Home
  <1> DEFINE Inv == GhostInv /\ Tracked
  <1>1. Init => Inv
    BY GhostInit
  <1>2. Inv /\ [Next]_vars => Inv'
    BY <1>0, GhostNext
  <1>3. Inv => RectCovers
    BY DEF Tracked, TrackedAt, RectCovers
  <1> HIDE DEF Inv
  <1> QED BY <1>1, <1>2, <1>3, PTL DEF Spec

=============================================================================
