--------------------------- MODULE WindowsProofs ----------------------------
(***************************************************************************)
(* Two invariants of Windows for any number of windows, any sizes and any  *)
(* number of events.                                                       *)
(*                                                                         *)
(* LastInStep: the viewer's cache of the host window's fullscreen state is *)
(* right whenever the Resized events of the window have been handled.  Two *)
(* things make it inductive.  Steady: a window leaves macOS's own          *)
(* fullscreen for another size than it has there, so that a Resized event  *)
(* is queued for the handler that repairs the cache.  Channel: the viewer  *)
(* is told of a window before and until it has one, so that no message     *)
(* finds a window missing.                                                 *)
(*                                                                         *)
(* ModesAgree: guest and host agree about fullscreen once all is handled.  *)
(* It rests on LastInStep and on Heard: the last message on its way about  *)
(* a window's fullscreen state is true, and when there is none the cache   *)
(* is, or the viewer has asked for a state and will be answered.           *)
(***************************************************************************)
EXTENDS Windows, TLAPS, FiniteSetTheorems

-----------------------------------------------------------------------------
(* The inductive invariant.                                                *)

\* Types, with sizes that are any integers.
Remote == [size: Int, mode: Mode, restore: Int, moved: BOOLEAN, ask: Int, due: BOOLEAN]
Event ==
    [type: {"created", "destroyed", "minimized", "title"}, id: Ids]
    \cup [type: {"configured", "tile"}, id: Ids, size: Int]
    \cup [type: {"fullscreen"}, id: Ids, on: BOOLEAN]
Input ==
    [type: {"resize"}, id: Ids, size: Int]
    \cup [type: {"toggle"}, id: Ids]
    \cup [type: {"fullscreen"}, id: Ids, on: BOOLEAN]
View == WindowOf(Int)

ServerTypes ==
    /\ windows \in [Ids -> Remote \cup {None}]
    /\ next_window_id \in Int
    /\ s2c \in Seq(Event)
ViewTypes ==
    /\ view \in [Ids -> View \cup {None}]
    /\ osq \in [Ids -> Seq(Int)]
TimerTypes ==
    /\ pending_resizes \in [Ids -> Int \cup {None}]
    /\ pending_fullscreen_exit_resyncs \subseteq Ids
    /\ c2s \in Seq(Input)

\* A window that is not fullscreen is smaller than the screen, and so is the
\* size it returns to; in native fullscreen it is as large as the screen.
Steady(v) ==
    /\ v.saved # Screen
    /\ v.fs = "no" => v.inner # Screen
    /\ v.fs = "native" => v.inner = Screen
AllSteady == \A id \in Ids : view[id] # None => Steady(view[id])

\* Only a window has events queued.
Queues == \A id \in Ids : osq[id] # <<>> => view[id] # None

\* The viewer has the window, or is told of it before the i-th message of q.
Announced(v, q, id, i) ==
    v[id] # None \/ \E j \in 1 .. Len(q) : j < i /\ q[j].type = "created" /\ q[j].id = id

\* Messages come after the window's creation and before its destruction.
Channel ==
    /\ \A i \in 1 .. Len(s2c) :
          s2c[i].type # "created" => Announced(view, s2c, s2c[i].id, i)
    /\ \A i, j \in 1 .. Len(s2c) :
          j < i /\ s2c[j].id = s2c[i].id => s2c[j].type # "destroyed"
    /\ \A id \in Ids : windows[id] # None =>
          /\ Announced(view, s2c, id, Len(s2c) + 1)
          /\ \A i \in 1 .. Len(s2c) : s2c[i].id = id => s2c[i].type # "destroyed"

\* Ids are handed out in order and not again.
FreshIds ==
    /\ \A i \in 1 .. Len(s2c) : s2c[i].id < next_window_id
    /\ \A id \in Ids : windows[id] # None => id < next_window_id

IndInv ==
    /\ ServerTypes /\ ViewTypes /\ TimerTypes
    /\ AllSteady /\ Queues /\ LastInStep
    /\ FreshIds /\ (~exited => Channel)

-----------------------------------------------------------------------------
(* What the viewer's helpers do to one window.                             *)

\* The constants as the numbers they are.
LEMMA Constants ==
    /\ Screen \in Nat /\ MinView \in Int /\ Shadow \in Int /\ Desktop \in Int
    /\ MinView < Screen /\ Desktop = Screen - 1 /\ MinGuest \in Int /\ Tiny \in Int
    /\ Ids \subseteq Int /\ IsFiniteSet(Ids)
    /\ None \notin View
  BY ToplevelsAssumption, ViewerAssumption, NoneAssumption, FS_CardinalityType DEF Desktop, View

\* A window v that has become w without a change of its fullscreen state.
Alike(v, w) ==
    /\ w \in View /\ w.fs = v.fs /\ w.last = v.last /\ w.saved = v.saved
    /\ Steady(v) => Steady(w)

\* request_inner_size keeps a window off the size of the whole screen unless
\* it is fullscreen.
LEMMA RequestInnerSizeAlike ==
    ASSUME NEW v \in View, NEW size \in Int
    PROVE  Alike(v, RequestInnerSize(v, size))
  <1> DEFINE least == Least(size, IF v.fs = "no" THEN Desktop ELSE Screen)
  <1>1. least \in Int /\ (v.fs = "no" => least # Screen)
    BY Constants DEF Least
  <1> HIDE DEF least
  <1>2. CASE v.fs = "native"
    BY <1>2 DEF RequestInnerSize, Alike
  <1>3. CASE v.fs # "native"
    <2>1. RequestInnerSize(v, size) = [v EXCEPT !.inner = least]
      BY <1>3 DEF RequestInnerSize, least
    <2> QED BY <1>1, <1>3, <2>1 DEF Alike, Steady, View, WindowOf
  <1> QED BY <1>2, <1>3

\* The size of a window's content is a number.
LEMMA EffectiveContentType ==
    ASSUME NEW v \in View
    PROVE  EffectiveContent(v) \in Int
  BY DEF EffectiveContent, View, WindowOf

\* Fields that are not about the window's size or state.
LEMMA ProgAlike ==
    ASSUME NEW v \in View, NEW w, Alike(v, w), NEW p \in Int \cup {None}
    PROVE  Alike(v, [w EXCEPT !.prog = p])
  BY DEF Alike, Steady, View, WindowOf

\* The flags of a window.
LEMMA DirtyAlike ==
    ASSUME NEW v \in View, NEW w, Alike(v, w), NEW b \in BOOLEAN
    PROVE  /\ Alike(v, [w EXCEPT !.dirty = b])
           /\ Alike(v, [w EXCEPT !.adopted = b])
           /\ Alike(v, [w EXCEPT !.tiled = b])
           /\ Alike(v, [w EXCEPT !.flight = b])
           /\ Alike(v, [w EXCEPT !.own = b])
           /\ Alike(v, [w EXCEPT !.visible = b])
  BY DEF Alike, Steady, View, WindowOf

\* Alike windows, one after the other.
LEMMA AlikeAgain ==
    ASSUME NEW u \in View, NEW v, NEW w, Alike(u, v), Alike(v, w)
    PROVE  Alike(u, w)
  BY DEF Alike

\* request_scaled_inner_size.
LEMMA RequestScaledInnerSizeAlike ==
    ASSUME NEW v \in View
    PROVE  Alike(v, RequestScaledInnerSize(v))
  BY RequestInnerSizeAlike, EffectiveContentType, ProgAlike DEF RequestScaledInnerSize

\* resize_to_remote_size.
LEMMA ResizeToRemoteSizeAlike ==
    ASSUME NEW v \in View, NEW size \in Int
    PROVE  Alike(v, ResizeToRemoteSize(v, size))
  <1> DEFINE f == [v EXCEPT !.frame = size,
                            !.content = IF v.frame = size THEN @ ELSE size]
  <1>1. Alike(v, f) /\ f \in View
    BY DEF Alike, Steady, View, WindowOf
  <1>2. InitialAdoptCap \in Int
    BY Constants DEF InitialAdoptCap, Greatest
  <1> DEFINE a == RequestInnerSize(f, InitialAdoptCap)
             b == RequestScaledInnerSize(f)
  <1> HIDE DEF f
  <1>3. Alike(v, a) /\ Alike(v, b)
    BY <1>1, <1>2, RequestInnerSizeAlike, RequestScaledInnerSizeAlike, AlikeAgain
  <1>4. ResizeToRemoteSize(v, size) \in
           {f, [a EXCEPT !.prog = InitialAdoptCap, !.adopted = TRUE],
            [b EXCEPT !.adopted = TRUE]}
    BY DEF ResizeToRemoteSize, f
  <1> HIDE DEF a, b
  <1>5. Alike(v, [b EXCEPT !.adopted = TRUE])
    BY <1>3, DirtyAlike
  <1>6. Alike(v, [a EXCEPT !.prog = InitialAdoptCap, !.adopted = TRUE])
    BY <1>2, <1>3, DirtyAlike, ProgAlike
  <1> QED BY <1>1, <1>4, <1>5, <1>6

\* A tile.
LEMMA ApplyTileAlike ==
    ASSUME NEW v \in View, NEW size \in Int, NEW content \in Int
    PROVE  Alike(v, ApplyTile(v, size, content))
  <1> DEFINE f == [v EXCEPT !.frame = Greatest(@, size), !.content = content,
                            !.flight = FALSE, !.visible = TRUE, !.dirty = FALSE]
             b == RequestScaledInnerSize(f)
  <1>1. Alike(v, f) /\ f \in View
    BY DEF Alike, Steady, View, WindowOf, Greatest
  <1>2. ApplyTile(v, size, content) \in {f, [b EXCEPT !.tiled = TRUE, !.adopted = TRUE]}
    BY DEF ApplyTile
  <1> HIDE DEF f
  <1>3. Alike(v, b)
    BY <1>1, RequestScaledInnerSizeAlike, AlikeAgain
  <1> HIDE DEF b
  <1> QED BY <1>1, <1>2, <1>3, DirtyAlike

-----------------------------------------------------------------------------
(* The viewer's windows.                                                   *)

\* What an event does to one window, if it queues a Resized for a new size:
\* the state is as before, the cache is right, or the handler will be called.
Repaired(v, w) ==
    \/ w.fs = v.fs /\ w.last = v.last
    \/ w.fs # "native" => w.last = IsWindowFullscreen(w)
    \/ w.inner # v.inner

\* The part of the invariant about the windows alone.
Shown ==
    /\ view \in [Ids -> View \cup {None}] /\ osq \in [Ids -> Seq(Int)]
    /\ AllSteady /\ Queues /\ LastInStep

\* One window is there after the step, and the others are as they were.
Stays(id) == view'[id] # None /\ \A x \in Ids \ {id} : view'[x] = view[x]

\* A window's fullscreen state and the cache of it are as they were.
Same(id) == view'[id].fs = view[id].fs /\ view'[id].last = view[id].last

\* A queue with one more event is not empty.
LEMMA AppendNotEmpty ==
    ASSUME NEW q \in Seq(Int), NEW n \in Int
    PROVE  Append(q, n) # <<>>
  <1>1. Len(Append(q, n)) # 0
    OBVIOUS
  <1> QED BY <1>1

\* One window changes; a change of size is queued.
LEMMA OneViewKeeps ==
    ASSUME Shown, NEW id \in Ids, view[id] # None, NEW w \in View, Steady(w),
           Repaired(view[id], w),
           view' = [view EXCEPT ![id] = w],
           osq' = IF w.inner = view[id].inner THEN osq
                  ELSE [osq EXCEPT ![id] = Append(@, w.inner)]
    PROVE  Shown' /\ Stays(id)
  <1>1. w.inner \in Int /\ w # None
    BY Constants DEF View, WindowOf
  <1>2. view' \in [Ids -> View \cup {None}] /\ view'[id] = w
        /\ \A x \in Ids \ {id} : view'[x] = view[x]
    BY DEF Shown
  <1>3. osq' \in [Ids -> Seq(Int)]
    BY <1>1 DEF Shown
  <1>4. \A x \in Ids \ {id} : osq'[x] = osq[x]
    BY DEF Shown
  <1>5. osq'[id] = <<>> => w.inner = view[id].inner /\ osq[id] = <<>>
    <2>1. osq[id] \in Seq(Int)
      BY DEF Shown
    <2>2. Append(osq[id], w.inner) # <<>>
      BY <1>1, <2>1, AppendNotEmpty
    <2> QED BY <2>2 DEF Shown
  <1>6. AllSteady'
    BY <1>2 DEF Shown, AllSteady
  <1>7. Queues'
    BY <1>1, <1>2, <1>4 DEF Shown, Queues
  <1>8. LastInStep'
    <2> SUFFICES ASSUME NEW x \in Ids, view'[x] # None, osq'[x] = <<>>, view'[x].fs # "native"
                 PROVE  view'[x].last = IsWindowFullscreen(view'[x])
      BY DEF LastInStep, IsWindowFullscreen
    <2>1. CASE x = id
      BY <1>2, <1>5, <2>1 DEF Shown, LastInStep, Repaired, IsWindowFullscreen
    <2>2. CASE x # id
      BY <1>2, <1>4, <2>2 DEF Shown, LastInStep, IsWindowFullscreen
    <2> QED BY <2>1, <2>2
  <1> QED BY <1>1, <1>2, <1>3, <1>6, <1>7, <1>8 DEF Shown, Stays

\* SetView with a window that is as steady as the one before.
LEMMA SetViewKeeps ==
    ASSUME Shown, NEW id \in Ids, view[id] # None, NEW w \in View, Steady(w),
           Repaired(view[id], w), SetView(id, w)
    PROVE  Shown' /\ Stays(id)
  BY OneViewKeeps, Zenon DEF SetView

\* SetView with a window whose fullscreen state is as before.
LEMMA SetViewAlike ==
    ASSUME Shown, NEW id \in Ids, view[id] # None, NEW w, Alike(view[id], w), SetView(id, w)
    PROVE  Shown' /\ Stays(id) /\ Same(id)
  <1>1. view[id] \in View /\ Steady(view[id])
    BY DEF Shown, AllSteady
  <1>2. Shown' /\ Stays(id)
    BY <1>1, SetViewKeeps DEF Alike, Repaired
  <1>3. view'[id] = w
    BY DEF SetView, Shown
  <1> QED BY <1>2, <1>3 DEF Alike, Same

\* The messages of the compositor for a window the viewer has.
LEMMA ConfiguredKeeps ==
    ASSUME Shown, NEW id \in Ids, view[id] # None, NEW size \in Int, Configured(id, size)
    PROVE  Shown' /\ Stays(id) /\ Same(id)
  <1> DEFINE w == ResizeToRemoteSize(view[id], size)
  <1>1. view[id] \in View /\ (~view[id].visible) \in BOOLEAN
    BY DEF Shown, View, WindowOf
  <1>2. Alike(view[id], w)
    BY <1>1, ResizeToRemoteSizeAlike
  <1>3. SetView(id, [w EXCEPT !.dirty = ~view[id].visible])
    BY DEF Configured
  <1> HIDE DEF w
  <1>4. Alike(view[id], [w EXCEPT !.dirty = ~view[id].visible])
    BY <1>1, <1>2, DirtyAlike
  <1> QED BY <1>3, <1>4, SetViewAlike

\* A tile, which may make the host adopt a size.
LEMMA FrameTileKeeps ==
    ASSUME Shown, NEW id \in Ids, view[id] # None, NEW size \in Int, FrameTile(id, size)
    PROVE  Shown' /\ Stays(id) /\ Same(id)
  <1> DEFINE content == Greatest(size - Shadow, 1)
             w == ApplyTile(view[id], size, content)
  <1>1. view[id] \in View /\ content \in Int
    BY Constants DEF Shown, Greatest
  <1>2. SetView(id, w)
    BY DEF FrameTile
  <1> HIDE DEF content
  <1>3. Alike(view[id], w)
    BY <1>1, ApplyTileAlike
  <1> HIDE DEF w
  <1> QED BY <1>2, <1>3, SetViewAlike

\* A title, which may make the host trim the window again.
LEMMA TitleChangedKeeps ==
    ASSUME Shown, NEW id \in Ids, view[id] # None, TitleChanged(id)
    PROVE  Shown' /\ Stays(id) /\ Same(id)
  <1> DEFINE f == [view[id] EXCEPT !.own = TRUE]
             w == RequestScaledInnerSize(f)
             d == [w EXCEPT !.dirty = ~view[id].visible]
  <1>1. view[id] \in View /\ (~view[id].visible) \in BOOLEAN /\ Alike(view[id], view[id])
    BY DEF Shown, View, WindowOf, Alike
  <1>2. \/ SetView(id, view[id])
        \/ SetView(id, d)
        \/ UNCHANGED <<view, osq>>
    BY Zenon DEF TitleChanged
  <1>3. Alike(view[id], f) /\ f \in View
    BY <1>1, DirtyAlike DEF Alike
  <1> HIDE DEF f
  <1>4. Alike(view[id], w)
    BY <1>1, <1>3, RequestScaledInnerSizeAlike, AlikeAgain
  <1> HIDE DEF w
  <1>5. Alike(view[id], d)
    BY <1>1, <1>4, DirtyAlike
  <1> HIDE DEF d
  <1>6. CASE UNCHANGED <<view, osq>>
    BY <1>6 DEF Shown, AllSteady, Queues, LastInStep, Stays, Same
  <1> QED BY <1>1, <1>2, <1>5, <1>6, SetViewAlike

\* FullscreenChanged: the state the guest asks for, and the cache with it.
LEMMA FullscreenChangedKeeps ==
    ASSUME Shown, NEW id \in Ids, view[id] # None, NEW on \in BOOLEAN,
           FullscreenChangedApplied(id, on)
    PROVE  /\ Shown' /\ Stays(id)
           /\ view'[id].last = on /\ (~on => view'[id].fs # "simple")
  <1> DEFINE v == view[id]
             a == ApplyWindowFullscreen(v, on)
             w == [a EXCEPT !.prog = None, !.last = on]
  <1>1. v \in View /\ Steady(v)
    BY DEF Shown, AllSteady
  <1>2. SetView(id, w)
    BY Zenon DEF FullscreenChangedApplied
  <1> HIDE DEF v
  <1>3. a \in View /\ Steady(a) /\ (a.fs # "native" => IsWindowFullscreen(a) = on)
    <2>1. CASE IsWindowFullscreen(v) = on \/ v.fs = "native"
      BY <1>1, <2>1 DEF ApplyWindowFullscreen, IsWindowFullscreen
    <2>2. CASE ~(IsWindowFullscreen(v) = on \/ v.fs = "native") /\ on
      <3>1. a = [v EXCEPT !.fs = "simple", !.saved = v.inner, !.inner = Screen]
        BY <2>2 DEF ApplyWindowFullscreen
      <3>2. v.fs = "no"
        BY <1>1, <2>2 DEF IsWindowFullscreen, View, WindowOf
      <3> HIDE DEF a
      <3>3. a \in View /\ a.fs = "simple" /\ a.saved = v.inner
        <4>1. Screen \in Int /\ v.inner \in Int
          BY <1>1, Constants DEF View, WindowOf
        <4> QED BY <1>1, <3>1, <4>1 DEF View, WindowOf
      <3>4. Steady(a)
        BY <1>1, <3>2, <3>3 DEF Steady
      <3> QED BY <2>2, <3>3, <3>4 DEF IsWindowFullscreen
    <2>3. CASE ~(IsWindowFullscreen(v) = on \/ v.fs = "native") /\ ~on
      <3>1. a = [v EXCEPT !.fs = "no", !.inner = v.saved, !.saved = MinView]
        BY <2>3 DEF ApplyWindowFullscreen
      <3> HIDE DEF a
      <3>2. a \in View /\ a.fs = "no" /\ a.saved = MinView /\ a.inner = v.saved
        BY <1>1, <3>1, Constants DEF View, WindowOf
      <3>3. Steady(a)
        BY <1>1, <3>2, Constants DEF Steady
      <3> QED BY <2>3, <3>2, <3>3 DEF IsWindowFullscreen
    <2> QED BY <2>1, <2>2, <2>3
  <1> HIDE DEF a
  <1>4. /\ w \in View /\ Steady(w) /\ Repaired(v, w)
        /\ w.last = on /\ (~on => w.fs # "simple")
    BY <1>3 DEF Steady, Repaired, IsWindowFullscreen, View, WindowOf
  <1> HIDE DEF w
  <1>5. view'[id] = w
    BY <1>2 DEF SetView, Shown
  <1> QED BY <1>2, <1>4, <1>5, SetViewKeeps DEF v

\* create_window: a window that is not fullscreen.
LEMMA CreatedKeeps ==
    ASSUME Shown, NEW id \in Ids, Created(id)
    PROVE  /\ Shown' /\ Stays(id)
           /\ view'[id].last = FALSE /\ view'[id].fs = "no"
  <1>1. PICK w : /\ view' = [view EXCEPT ![id] = w] /\ UNCHANGED osq
                 /\ w = [inner |-> 1, fs |-> "no", saved |-> MinView, last |-> FALSE,
                         prog |-> None, frame |-> 1, content |-> 1, visible |-> FALSE,
                         dirty |-> FALSE, adopted |-> FALSE, tiled |-> FALSE,
                         flight |-> FALSE, own |-> FALSE]
    BY Zenon DEF Created
  <1>2. w \in View /\ w.fs = "no" /\ w.last = FALSE /\ w.saved = MinView /\ w.inner = 1
    BY <1>1, Constants DEF View, WindowOf
  <1>3. w # None /\ Steady(w)
    BY <1>2, Constants, ViewerAssumption DEF Steady
  <1> QED BY <1>1, <1>2, <1>3 DEF Shown, AllSteady, Queues, LastInStep, IsWindowFullscreen, Stays

\* Destroyed: hidden or removed with its events.
LEMMA DestroyedKeeps ==
    ASSUME Shown, NEW id \in Ids, view[id] # None, Destroyed(id)
    PROVE  Shown' /\ \A x \in Ids \ {id} : view'[x] = view[x]
  <1>1. CASE view' = [view EXCEPT ![id].visible = FALSE] /\ UNCHANGED osq
    <2> DEFINE w == [view[id] EXCEPT !.visible = FALSE]
    <2>1. view[id] \in View /\ Steady(view[id])
      BY DEF Shown, AllSteady
    <2>2. w \in View /\ Steady(w) /\ Repaired(view[id], w) /\ w.inner = view[id].inner
      BY <2>1 DEF Steady, Repaired, View, WindowOf
    <2>3. view' = [view EXCEPT ![id] = w]
      BY <1>1, Zenon
    <2> HIDE DEF w
    <2> QED BY <1>1, <2>2, <2>3, OneViewKeeps DEF Stays
  <1>2. CASE view' = [view EXCEPT ![id] = None] /\ osq' = [osq EXCEPT ![id] = <<>>]
    BY <1>2 DEF Shown, AllSteady, Queues, LastInStep, IsWindowFullscreen
  <1> QED BY <1>1, <1>2, Zenon DEF Destroyed

\* WindowEvent::Resized leaves the cache right: it has toggled it, or found
\* it so.
LEMMA ResizedKeeps ==
    ASSUME Shown, NEW id \in Ids, Resized(id)
    PROVE  Shown' /\ Stays(id)
  <1> DEFINE v == view[id]
  <1>1. /\ v # None /\ v \in View /\ Steady(v)
        /\ osq[id] \in Seq(Int) /\ osq[id] # <<>> /\ Tail(osq[id]) \in Seq(Int)
    BY DEF Resized, Shown, AllSteady, Queues
  <1>2. PICK w : /\ view' = [view EXCEPT ![id] = w]
                 /\ w \in View /\ Steady(w) /\ w.last = IsWindowFullscreen(w)
    <2>1. CASE IsWindowFullscreen(v) # v.last
      <3> DEFINE w == [v EXCEPT !.last = ~@, !.prog = None, !.dirty = ~v.visible]
      <3>1. view' = [view EXCEPT ![id] = w]
        BY <2>1, Zenon DEF Resized, ResizedToggle
      <3> HIDE DEF v
      <3>2. w \in View /\ w.fs = v.fs /\ w.inner = v.inner /\ w.saved = v.saved
            /\ w.last = ~v.last
        BY <1>1 DEF View, WindowOf
      <3>3. IsWindowFullscreen(w) = IsWindowFullscreen(v) /\ v.last \in BOOLEAN
        BY <1>1, <3>2 DEF IsWindowFullscreen, View, WindowOf
      <3>4. IsWindowFullscreen(v) \in BOOLEAN
        BY DEF IsWindowFullscreen
      <3> HIDE DEF w
      <3>5. w.last = IsWindowFullscreen(w)
        BY <2>1, <3>2, <3>3, <3>4, Zenon
      <3>6. Steady(w)
        BY <1>1, <3>2 DEF Steady
      <3> QED BY <3>1, <3>2, <3>5, <3>6
    <2>2. CASE IsWindowFullscreen(v) = v.last
      <3>1. ResizedPlain(id, v, Head(osq[id]))
        BY <2>2, Zenon DEF Resized
      <3> DEFINE mine == ~IsWindowFullscreen(v) /\ v.visible
                 w == [v EXCEPT !.prog = IF mine THEN None ELSE @, !.dirty = ~v.visible]
      <3>2. view' = [view EXCEPT ![id] = w]
        BY <3>1, Zenon DEF ResizedPlain
      <3> HIDE DEF v, mine
      <3>3. w \in View /\ w.fs = v.fs /\ w.inner = v.inner /\ w.saved = v.saved
            /\ w.last = v.last
        BY <1>1 DEF View, WindowOf
      <3> HIDE DEF w
      <3> QED BY <1>1, <2>2, <3>2, <3>3 DEF Steady, IsWindowFullscreen
    <2> QED BY <2>1, <2>2
  <1>3. osq' = [osq EXCEPT ![id] = Tail(@)]
    BY DEF Resized
  <1>4. w # None
    BY <1>2, Constants
  <1>5. /\ view' \in [Ids -> View \cup {None}] /\ view'[id] = w
        /\ \A x \in Ids \ {id} : view'[x] = view[x]
        /\ osq' \in [Ids -> Seq(Int)]
        /\ \A x \in Ids \ {id} : osq'[x] = osq[x]
    BY <1>1, <1>2, <1>3 DEF Shown
  <1> QED BY <1>1, <1>2, <1>4, <1>5
          DEF Shown, AllSteady, Queues, LastInStep, IsWindowFullscreen, Stays

\* RedrawRequested.
LEMMA RedrawKeeps ==
    ASSUME Shown, NEW id \in Ids, RedrawRequested(id)
    PROVE  Shown' /\ Stays(id) /\ Same(id)
  <1> DEFINE w == [view[id] EXCEPT !.dirty = FALSE, !.visible = TRUE]
  <1>1. view[id] # None /\ view[id] \in View /\ Steady(view[id])
    BY DEF RedrawRequested, Shown, AllSteady
  <1>2. w \in View /\ Steady(w) /\ Repaired(view[id], w) /\ w.inner = view[id].inner
        /\ w.fs = view[id].fs /\ w.last = view[id].last
    BY <1>1 DEF Steady, Repaired, View, WindowOf
  <1>3. view' = [view EXCEPT ![id] = w] /\ UNCHANGED osq
    <2>1. view' = [view EXCEPT ![id].dirty = FALSE, ![id].visible = TRUE] /\ UNCHANGED osq
      BY DEF RedrawRequested
    <2> QED BY <1>1, <2>1, Zenon DEF Shown
  <1> HIDE DEF w
  <1>4. Shown' /\ Stays(id)
    BY <1>1, <1>2, <1>3, OneViewKeeps
  <1>5. view'[id] = w
    BY <1>3 DEF Shown
  <1> QED BY <1>2, <1>4, <1>5 DEF Same

\* What the user does to a window on the screen.
LEMMA UserKeeps ==
    ASSUME Shown, NEW id \in Ids, User(id)
    PROVE  Shown' /\ Stays(id)
  <1> DEFINE v == view[id]
  <1>1. v # None /\ v \in View /\ Steady(v)
    BY DEF User, ActiveWindows, Shown, AllSteady
  <1>2. CASE FullscreenShortcut(id)
    BY <1>1, <1>2 DEF FullscreenShortcut, Shown, AllSteady, Queues, LastInStep, Stays
  <1>3. ASSUME NEW w \in View, SetView(id, w), Steady(w), Repaired(v, w)
        PROVE  Shown' /\ Stays(id)
    BY <1>1, <1>3, SetViewKeeps
  <1>4. CASE HostResize(id)
    <2>1. PICK size \in MinView .. Desktop : SetView(id, RequestInnerSize(v, size))
      BY <1>4 DEF HostResize
    <2>2. Alike(v, RequestInnerSize(v, size))
      BY <1>1, <2>1, RequestInnerSizeAlike, Constants
    <2> QED BY <1>1, <1>3, <2>1, <2>2 DEF Alike, Repaired
  <1>5. CASE EdgeSnap(id)
    <2> DEFINE half == Greatest(Screen \div 2, MinView)
               a == RequestInnerSize(v, half)
               w == [a EXCEPT !.prog = half]
    <2>1. SetView(id, w)
      BY <1>5, Zenon DEF EdgeSnap
    <2>2. half \in Int
      BY Constants DEF Greatest
    <2> HIDE DEF half
    <2>3. Alike(v, a)
      BY <1>1, <2>2, RequestInnerSizeAlike
    <2> HIDE DEF a
    <2>4. Alike(v, w)
      BY <1>1, <2>2, <2>3, ProgAlike
    <2> HIDE DEF w
    <2> QED BY <1>1, <1>3, <2>1, <2>4 DEF Alike, Repaired
  <1>6. CASE NativeToggle(id)
    <2> DEFINE off == [v EXCEPT !.fs = "no", !.inner = v.saved, !.saved = MinView]
               on == [v EXCEPT !.fs = "native", !.saved = v.inner, !.inner = Screen]
    <2>1. /\ v.fs # "simple"
          /\ v.fs = "native" => SetView(id, off)
          /\ v.fs # "native" => SetView(id, on)
      BY <1>6, Zenon DEF NativeToggle
    <2>2. Screen \in Int /\ MinView \in Int /\ MinView # Screen /\ v.inner \in Int
          /\ v.saved \in Int
      BY <1>1, Constants DEF View, WindowOf
    <2> HIDE DEF v
    <2>3. off \in View /\ off.fs = "no" /\ off.inner = v.saved /\ off.saved = MinView
      BY <1>1, <2>2 DEF View, WindowOf
    <2>4. on \in View /\ on.fs = "native" /\ on.saved = v.inner /\ on.inner = Screen
      BY <1>1, <2>2 DEF View, WindowOf
    <2> HIDE DEF on, off
    <2>5. CASE v.fs = "native"
      <3>1. Steady(off) /\ Repaired(v, off)
        BY <1>1, <2>2, <2>3, <2>5 DEF Steady, Repaired
      <3> QED BY <1>3, <2>1, <2>3, <2>5, <3>1
    <2>6. CASE v.fs # "native"
      <3>1. v.fs = "no"
        BY <1>1, <2>1, <2>6 DEF View, WindowOf
      <3>2. Steady(on) /\ Repaired(v, on)
        BY <1>1, <2>2, <2>4, <3>1 DEF Steady, Repaired
      <3> QED BY <1>3, <2>1, <2>4, <2>6, <3>2
    <2> QED BY <2>5, <2>6
  <1>7. CASE TitlebarToggle(id)
    <2> DEFINE back == [v EXCEPT !.inner = v.saved, !.saved = MinView]
               zoom == [v EXCEPT !.saved = v.inner, !.inner = Desktop]
    <2>1. v.fs = "no" /\ (SetView(id, back) \/ SetView(id, zoom))
      BY <1>7, Zenon DEF TitlebarToggle, IsWindowFullscreen
    <2>2. MinView \in Int /\ MinView # Screen /\ Desktop \in Int /\ Desktop # Screen
          /\ v.inner \in Int /\ v.saved \in Int
      BY <1>1, Constants DEF View, WindowOf
    <2> HIDE DEF v
    <2>3. back \in View /\ back.fs = v.fs /\ back.last = v.last /\ back.inner = v.saved
          /\ back.saved = MinView
      BY <1>1, <2>2 DEF View, WindowOf
    <2>4. zoom \in View /\ zoom.fs = v.fs /\ zoom.last = v.last /\ zoom.inner = Desktop
          /\ zoom.saved = v.inner
      BY <1>1, <2>2 DEF View, WindowOf
    <2> HIDE DEF back, zoom
    <2>5. /\ Steady(back) /\ Repaired(v, back)
          /\ Steady(zoom) /\ Repaired(v, zoom)
      BY <1>1, <2>1, <2>2, <2>3, <2>4 DEF Steady, Repaired
    <2> QED BY <1>3, <2>1, <2>3, <2>4, <2>5
  <1> QED BY <1>2, <1>4, <1>5, <1>6, <1>7 DEF User

\* flush_due_remote_resizes: the windows whose host size is put right.
LEMMA FlushKeeps ==
    ASSUME Shown, FlushDue
    PROVE  /\ Shown' /\ \A x \in Ids : view'[x] = None <=> view[x] = None
           /\ \A x \in Ids : view[x] # None => Same(x)
  <1>1. PICK x \in SUBSET pending_fullscreen_exit_resyncs,
             r \in SUBSET {id \in Ids : pending_resizes[id] # None},
             h \in SUBSET pending_host_resize_resyncs : FlushDueResizes(x, r, h)
    BY DEF FlushDue
  <1> DEFINE exits == Resizes(x, [id \in Ids |-> ResizeRequest(view[id])])
             ready == Resizes(r, pending_resizes)
             flown == [id \in Ids |->
                          IF id \in DOMAIN exits \cup DOMAIN ready
                          THEN [view[id] EXCEPT !.flight = TRUE] ELSE view[id]]
             synced == [id \in Ids |->
                            IF id \in h /\ view[id] # None /\ NeedsHostResync(flown[id])
                            THEN RequestScaledInnerSize(flown[id])
                            ELSE flown[id]]
  <1>2. /\ view' = synced
        /\ osq' = [id \in Ids |-> IF synced[id] # None /\ synced[id].inner # view[id].inner
                                  THEN Append(osq[id], synced[id].inner) ELSE osq[id]]
    BY <1>1, Zenon DEF FlushDueResizes
  <1>3. \A id \in DOMAIN exits \cup DOMAIN ready : view[id] # None
    BY DEF Resizes
  <1> HIDE DEF exits, ready
  <1>4. ASSUME NEW id \in Ids
        PROVE  /\ view[id] = None => synced[id] = None
               /\ view[id] # None => Alike(view[id], synced[id])
    <2>1. CASE view[id] = None
      BY <1>3, <2>1
    <2>2. CASE view[id] # None
      <3>1. view[id] \in View /\ Alike(view[id], view[id])
        BY <2>2 DEF Shown, Alike
      <3>2. Alike(view[id], [view[id] EXCEPT !.flight = TRUE])
        BY <3>1, DirtyAlike
      <3>3. Alike(view[id], flown[id]) /\ flown[id] \in View
        <4>1. flown[id] \in {view[id], [view[id] EXCEPT !.flight = TRUE]}
          OBVIOUS
        <4> HIDE DEF flown
        <4> QED BY <3>1, <3>2, <4>1 DEF Alike
      <3>4. Alike(view[id], RequestScaledInnerSize(flown[id]))
        BY <3>1, <3>3, RequestScaledInnerSizeAlike, AlikeAgain
      <3>5. synced[id] \in {flown[id], RequestScaledInnerSize(flown[id])}
        OBVIOUS
      <3> HIDE DEF synced, flown
      <3> QED BY <2>2, <3>3, <3>4, <3>5
    <2> QED BY <2>1, <2>2
  <1>5. DOMAIN synced = Ids /\ synced = [id \in Ids |-> synced[id]]
    OBVIOUS
  <1> HIDE DEF synced, flown
  <1>6. \A id \in Ids : view'[id] = synced[id]
    BY <1>2
  <1>7. /\ view' \in [Ids -> View \cup {None}] /\ AllSteady'
        /\ \A id \in Ids : view'[id] = None <=> view[id] = None
    BY <1>2, <1>4, <1>5, Constants DEF Shown, AllSteady, Alike
  <1>8. osq' \in [Ids -> Seq(Int)]
    <2> SUFFICES ASSUME NEW id \in Ids PROVE osq'[id] \in Seq(Int)
      BY <1>2
    <2>1. osq[id] \in Seq(Int)
      BY DEF Shown
    <2>2. CASE synced[id] # None
      <3>1. synced[id].inner \in Int
        BY <1>4, <2>2 DEF Alike, View, WindowOf
      <3> QED BY <1>2, <2>1, <3>1
    <2>3. CASE synced[id] = None
      BY <1>2, <2>1, <2>3
    <2> QED BY <2>2, <2>3
  <1>9. Queues'
    <2> SUFFICES ASSUME NEW id \in Ids, view'[id] = None PROVE osq'[id] = <<>>
      BY DEF Queues
    <2> QED BY <1>2, <1>6, <1>7 DEF Shown, Queues
  <1>10. LastInStep'
    <2> SUFFICES ASSUME NEW id \in Ids, view'[id] # None, osq'[id] = <<>>,
                        view'[id].fs # "native"
                 PROVE  view'[id].last = IsWindowFullscreen(view'[id])
      BY DEF LastInStep, IsWindowFullscreen
    <2>1. view[id] # None /\ Alike(view[id], view'[id])
      BY <1>4, <1>6, <1>7
    <2>2. osq[id] = <<>>
      <3>1. osq[id] \in Seq(Int) /\ view'[id].inner \in Int
        BY <2>1 DEF Shown, Alike, View, WindowOf
      <3>3. Append(osq[id], view'[id].inner) # <<>>
        BY <3>1, AppendNotEmpty
      <3> QED BY <1>2, <1>6, <3>3
    <2> QED BY <2>1, <2>2 DEF Alike, Shown, LastInStep, IsWindowFullscreen
  <1>11. \A id \in Ids : view[id] # None => Same(id)
    BY <1>4, <1>6 DEF Alike, Same
  <1> QED BY <1>7, <1>8, <1>9, <1>10, <1>11 DEF Shown

\* The grace is over.
LEMMA GraceKeeps ==
    ASSUME Shown, GraceOver
    PROVE  Shown'
  <1>1. /\ view' = [id \in Ids |-> IF id \in retired_window_ids THEN None ELSE view[id]]
        /\ osq' = [id \in Ids |-> IF id \in retired_window_ids THEN <<>> ELSE osq[id]]
    BY DEF GraceOver
  <1>2. view' \in [Ids -> View \cup {None}] /\ osq' \in [Ids -> Seq(Int)]
    BY <1>1 DEF Shown
  <1>3. AllSteady' /\ Queues'
    BY <1>1 DEF Shown, AllSteady, Queues
  <1>4. LastInStep'
    BY <1>1 DEF Shown, LastInStep, IsWindowFullscreen
  <1> QED BY <1>2, <1>3, <1>4 DEF Shown

-----------------------------------------------------------------------------
(* The viewer's timers and what it sends.                                  *)

\* What send_input appends.
LEMMA SendInputType ==
    ASSUME c2s \in Seq(Input), NEW m \in Input, SendInput(<<m>>)
    PROVE  c2s' \in Seq(Input)
  BY DEF SendInput

\* The size asked of the guest is a number.
LEMMA RemoteSizeType ==
    ASSUME NEW v \in View, NEW inner \in Int
    PROVE  RemoteSize(v, inner) \in Int
  BY EffectiveContentType DEF RemoteSize, View, WindowOf

\* resize_request_for_current_inner_size gives a number or None.
LEMMA ResizeRequestType ==
    ASSUME NEW v \in View \cup {None}
    PROVE  ResizeRequest(v) \in Int \cup {None}
  <1>1. CASE v = None
    BY <1>1 DEF ResizeRequest
  <1>2. CASE v # None
    <2>1. v \in View /\ v.inner \in Int
      BY <1>2 DEF View, WindowOf
    <2> QED BY <2>1, RemoteSizeType DEF ResizeRequest
  <1> QED BY <1>1, <1>2

\* A window's timers are forgotten, or only the exit of fullscreen is due.
LEMMA TimersType ==
    ASSUME TimerTypes, NEW id \in Ids, ForgetTimers(id) \/ QueueFullscreenExitResync(id)
    PROVE  /\ pending_resizes' \in [Ids -> Int \cup {None}]
           /\ (pending_fullscreen_exit_resyncs \subseteq Ids)'
  BY DEF TimerTypes, ForgetTimers, QueueFullscreenExitResync

\* The messages from the compositor change timers only.
LEMMA HandleMessageTimers ==
    ASSUME IndInv, HandleMessage
    PROVE  TimerTypes'
  <1> DEFINE m == Head(s2c)
  <1>1. m.id \in Ids
    BY DEF IndInv, ServerTypes, Event, HandleMessage
  <1>2. TimerTypes
    BY DEF IndInv
  <1>3. \/ UNCHANGED <<pending_resizes, pending_fullscreen_exit_resyncs, c2s>>
        \/ (ForgetTimers(m.id) \/ QueueFullscreenExitResync(m.id)) /\ UNCHANGED c2s
    BY Zenon DEF HandleMessage, Created, Configured, FrameTile, TitleChanged, Minimized,
       FullscreenChangedApplied, Destroyed, timers
  <1> HIDE DEF m
  <1> QED BY <1>1, <1>2, <1>3, TimersType DEF TimerTypes

\* WindowEvent::Resized.
LEMMA ResizedTimers ==
    ASSUME IndInv, NEW id \in Ids, Resized(id)
    PROVE  TimerTypes'
  <1> DEFINE v == view[id]
  <1>1. TimerTypes /\ v \in View \cup {None} /\ ResizeRequest(v) \in Int \cup {None}
    BY ResizeRequestType DEF IndInv, ViewTypes
  <1>2. CASE ResizedToggle(id, v)
    <2>1. SetFullscreen(id, IsWindowFullscreen(v)) \in Input
      BY DEF SetFullscreen, Input, IsWindowFullscreen
    <2>2. SendInput(<<SetFullscreen(id, IsWindowFullscreen(v))>>)
          /\ (ForgetTimers(id) \/ QueueFullscreenExitResync(id))
      BY <1>2, Zenon DEF ResizedToggle
    <2> QED BY <1>1, <2>1, <2>2, SendInputType, TimersType DEF TimerTypes
  <1>3. CASE ResizedPlain(id, v, Head(osq[id]))
    <2>1. /\ UNCHANGED c2s
          /\ \/ QueueRemoteResize(id, ResizeRequest(v))
             \/ UNCHANGED <<pending_resizes, pending_fullscreen_exit_resyncs>>
      BY <1>3, Zenon DEF ResizedPlain
    <2> HIDE DEF v
    <2> QED BY <1>1, <2>1 DEF TimerTypes, QueueRemoteResize
  <1> QED BY <1>2, <1>3, Zenon DEF Resized

\* What the user does.
LEMMA UserTimers ==
    ASSUME IndInv, NEW id \in Ids, User(id)
    PROVE  TimerTypes'
  <1> DEFINE v == view[id]
             half == Greatest(Screen \div 2, MinView)
  <1>1. TimerTypes /\ v \in View
    BY DEF IndInv, ViewTypes, User, ActiveWindows
  <1>2. half \in Int
    BY Constants DEF Greatest
  <1>3. CASE FullscreenShortcut(id)
    <2>1. SetFullscreen(id, ~IsWindowFullscreen(v)) \in Input
      BY DEF SetFullscreen, Input, IsWindowFullscreen
    <2> QED BY <1>1, <1>3, <2>1, SendInputType DEF FullscreenShortcut, TimerTypes, timers
  <1>4. CASE TitlebarToggle(id)
    <2>1. [type |-> "toggle", id |-> id] \in Input
      BY DEF Input
    <2>2. SendInput(<<[type |-> "toggle", id |-> id]>>) /\ UNCHANGED timers
      BY <1>4, Zenon DEF TitlebarToggle
    <2> QED BY <1>1, <2>1, <2>2, SendInputType DEF TimerTypes, timers
  <1>5. CASE EdgeSnap(id)
    <2>1. /\ pending_resizes' = [pending_resizes EXCEPT ![id] = RemoteSize(v, half)]
          /\ UNCHANGED <<pending_fullscreen_exit_resyncs, c2s>>
      BY <1>5, Zenon DEF EdgeSnap
    <2>2. RemoteSize(v, half) \in Int
      BY <1>1, <1>2, RemoteSizeType
    <2> HIDE DEF v, half
    <2> QED BY <1>1, <2>1, <2>2 DEF TimerTypes
  <1>6. CASE HostResize(id) \/ NativeToggle(id)
    <2>1. UNCHANGED <<timers, c2s>>
      BY <1>6, Zenon DEF HostResize, NativeToggle
    <2> QED BY <1>1, <2>1 DEF TimerTypes, timers
  <1> QED BY <1>3, <1>4, <1>5, <1>6 DEF User

\* The requests that are due, in any order.
LEMMA ResizesType ==
    ASSUME NEW ids \in SUBSET Ids, NEW size \in [Ids -> Int \cup {None}]
    PROVE  /\ DOMAIN Resizes(ids, size) \subseteq Ids
           /\ \A id \in DOMAIN Resizes(ids, size) : Resizes(ids, size)[id] \in Input
  BY DEF Resizes, Input

\* A function's messages in any order are a sequence of messages.
LEMMA InSomeOrderType ==
    ASSUME NEW f, DOMAIN f \subseteq Ids, \A id \in DOMAIN f : f[id] \in Input,
           NEW a \in InSomeOrder(f)
    PROVE  a \in Seq(Input)
  <1>1. Cardinality(DOMAIN f) \in Nat
    BY Constants, FS_Subset, FS_CardinalityType
  <1> DEFINE n == Cardinality(DOMAIN f)
  <1>2. PICK order \in [1 .. n -> DOMAIN f] : a = [i \in DOMAIN order |-> f[order[i]]]
    BY DEF InSomeOrder
  <1> HIDE DEF n
  <1>3. a \in [1 .. n -> Input]
    BY <1>2
  <1> QED BY <1>1, <1>3 DEF n

\* flush_due_remote_resizes sends resizes and forgets what was due.
LEMMA FlushTimers ==
    ASSUME IndInv, FlushDue
    PROVE  TimerTypes'
  <1>1. PICK x \in SUBSET pending_fullscreen_exit_resyncs,
             r \in SUBSET {id \in Ids : pending_resizes[id] # None},
             h \in SUBSET pending_host_resize_resyncs : FlushDueResizes(x, r, h)
    BY DEF FlushDue
  <1> DEFINE request == [id \in Ids |-> ResizeRequest(view[id])]
             exits == Resizes(x, request)
             ready == Resizes(r, pending_resizes)
  <1>2. /\ pending_fullscreen_exit_resyncs' = pending_fullscreen_exit_resyncs \ x
        /\ pending_resizes' = [id \in Ids |-> IF id \in r THEN None ELSE pending_resizes[id]]
        /\ \E a \in InSomeOrder(exits), b \in InSomeOrder(ready) : SendInput(a \o b)
    BY <1>1, Zenon DEF FlushDueResizes
  <1>3. TimerTypes /\ x \in SUBSET Ids /\ r \in SUBSET Ids
    BY <1>1 DEF IndInv, TimerTypes
  <1>4. request \in [Ids -> Int \cup {None}]
    BY ResizeRequestType DEF IndInv, ViewTypes
  <1> HIDE DEF request
  <1>5. PICK a \in InSomeOrder(exits), b \in InSomeOrder(ready) : SendInput(a \o b)
    BY <1>2
  <1>6. a \in Seq(Input)
    BY <1>3, <1>4, <1>5, ResizesType, InSomeOrderType
  <1>7. b \in Seq(Input)
    BY <1>3, <1>5, ResizesType, InSomeOrderType DEF TimerTypes
  <1> HIDE DEF exits, ready
  <1>8. c2s' \in Seq(Input)
    BY <1>3, <1>5, <1>6, <1>7 DEF SendInput, TimerTypes
  <1> QED BY <1>2, <1>3, <1>8 DEF TimerTypes

-----------------------------------------------------------------------------
(* The channel to the viewer.                                              *)

\* The fields of what is on its way.
LEMMA EventFields ==
    ASSUME NEW e \in Event
    PROVE  /\ e.id \in Ids
           /\ e.type \in {"configured", "tile"} => e.size \in Int
           /\ e.type = "fullscreen" => e.on \in BOOLEAN
  BY DEF Event

\* The fields of what the viewer sends.
LEMMA InputFields ==
    ASSUME NEW m \in Input
    PROVE  /\ m.id \in Ids
           /\ m.type = "resize" => m.size \in Int
           /\ m.type = "fullscreen" => m.on \in BOOLEAN
  BY DEF Input

\* What is said of a window between its creation and its destruction.
Says(id) == {e \in Event : e.id = id /\ e.type \notin {"created", "destroyed"}}

\* A window that exists changes and something is said of it.
Tells(id) == \E w \in Remote, msgs \in Seq(Says(id)) :
                 windows' = [windows EXCEPT ![id] = w] /\ s2c' = s2c \o msgs

\* The part of the invariant about the compositor and its messages.
Served == ServerTypes /\ FreshIds /\ (~exited => Channel)

\* A telling keeps the order of creation, news and destruction.
LEMMA TellsKeeps ==
    ASSUME Served, NEW id \in Ids, windows[id] # None, Tells(id),
           UNCHANGED <<next_window_id, view, exited>>
    PROVE  Served'
  <1>1. PICK w \in Remote, msgs \in Seq(Says(id)) :
            windows' = [windows EXCEPT ![id] = w] /\ s2c' = s2c \o msgs
    BY DEF Tells
  <1>2. s2c \in Seq(Event) /\ msgs \in Seq(Event)
    BY DEF Served, ServerTypes, Says
  <1>3. ServerTypes'
    BY <1>1, <1>2 DEF Served, ServerTypes
  <1> DEFINE n == Len(s2c)
             k == Len(msgs)
  <1>4. n \in Nat /\ k \in Nat /\ Len(s2c') = n + k
    BY <1>1, <1>2
  <1>5. \A i \in 1 .. n : s2c'[i] = s2c[i]
    BY <1>1, <1>2
  <1>6. \A i \in n + 1 .. n + k : s2c'[i] \in Says(id)
    BY <1>1, <1>2
  <1>7. \A i \in n + 1 .. n + k : s2c'[i].id = id /\ s2c'[i].type \notin {"created", "destroyed"}
    BY <1>6 DEF Says
  <1>8. \A x \in Ids : windows'[x] # None => windows[x] # None
    BY <1>1 DEF Served, ServerTypes
  <1> HIDE DEF n, k
  <1>9. FreshIds'
    <2>1. \A i \in 1 .. Len(s2c') : s2c'[i].id < next_window_id
      BY <1>4, <1>5, <1>7 DEF Served, FreshIds, n
    <2> QED BY <1>8, <2>1 DEF Served, FreshIds
  <1>10. ASSUME ~exited' PROVE Channel'
    <2>1. Channel
      BY <1>10 DEF Served
    <2>2. ASSUME NEW x \in Ids, NEW i \in 1 .. n + k + 1, NEW j \in 1 .. n + 1, j <= i,
                 Announced(view, s2c, x, j)
          PROVE  Announced(view', s2c', x, i)
      BY <1>4, <1>5, <2>2 DEF Announced, n
    <2>3. \A i \in 1 .. Len(s2c') :
             s2c'[i].type # "created" => Announced(view', s2c', s2c'[i].id, i)
      <3> SUFFICES ASSUME NEW i \in 1 .. Len(s2c'), s2c'[i].type # "created"
                   PROVE  Announced(view', s2c', s2c'[i].id, i)
        OBVIOUS
      <3>1. CASE i \in 1 .. n
        <4>1. s2c[i] \in Event /\ s2c[i].id \in Ids /\ s2c'[i] = s2c[i]
          BY <1>2, <1>5, <3>1, EventFields DEF n
        <4>2. Announced(view, s2c, s2c[i].id, i)
          BY <2>1, <3>1, <4>1 DEF Channel, n
        <4> QED BY <1>4, <2>2, <3>1, <4>1, <4>2
      <3>2. CASE i \in n + 1 .. n + k
        <4>1. s2c'[i].id = id
          BY <1>7, <3>2
        <4>2. Announced(view, s2c, id, n + 1)
          BY <2>1 DEF Channel, n
        <4> QED BY <1>4, <2>2, <3>2, <4>1, <4>2
      <3> QED BY <1>4, <3>1, <3>2
    <2>4. \A i, j \in 1 .. Len(s2c') :
             j < i /\ s2c'[j].id = s2c'[i].id => s2c'[j].type # "destroyed"
      <3> SUFFICES ASSUME NEW i \in 1 .. Len(s2c'), NEW j \in 1 .. Len(s2c'),
                          j < i, s2c'[j].id = s2c'[i].id
                   PROVE  s2c'[j].type # "destroyed"
        OBVIOUS
      <3>1. CASE j \in n + 1 .. n + k
        BY <1>7, <3>1
      <3>2. CASE j \in 1 .. n /\ i \in 1 .. n
        BY <1>5, <2>1, <3>2 DEF Channel, n
      <3>3. CASE j \in 1 .. n /\ i \in n + 1 .. n + k
        BY <1>5, <1>7, <2>1, <3>3 DEF Channel, n
      <3> QED BY <1>4, <3>1, <3>2, <3>3
    <2>5. ASSUME NEW x \in Ids, windows'[x] # None
          PROVE  /\ Announced(view', s2c', x, Len(s2c') + 1)
                 /\ \A i \in 1 .. Len(s2c') : s2c'[i].id = x => s2c'[i].type # "destroyed"
      <3>1. /\ Announced(view, s2c, x, n + 1)
            /\ \A i \in 1 .. n : s2c[i].id = x => s2c[i].type # "destroyed"
        BY <1>8, <2>1, <2>5 DEF Channel, n
      <3>2. Announced(view', s2c', x, Len(s2c') + 1)
        BY <1>4, <2>2, <3>1
      <3> QED BY <1>4, <1>5, <1>7, <3>1, <3>2
    <2> QED BY <2>3, <2>4, <2>5 DEF Channel
  <1> QED BY <1>3, <1>9, <1>10 DEF Served

\* The viewer keeps its windows while nothing is sent.
LEMMA QuietKeeps ==
    ASSUME Served, UNCHANGED <<windows, next_window_id, s2c, exited>>,
           \A x \in Ids : view[x] # None => view'[x] # None
    PROVE  Served'
  <1>1. Channel => Channel'
    <2> SUFFICES ASSUME Channel PROVE Channel'
      OBVIOUS
    <2>1. \A x \in Ids, i \in Int : Announced(view, s2c, x, i) => Announced(view', s2c', x, i)
      BY DEF Announced
    <2>2. \A i \in 1 .. Len(s2c) : s2c[i].id \in Ids
      BY EventFields DEF Served, ServerTypes
    <2>3. Len(s2c) \in Nat
      BY DEF Served, ServerTypes
    <2> QED BY <2>1, <2>2, <2>3 DEF Channel
  <1> QED BY <1>1 DEF Served, ServerTypes, FreshIds

\* new_toplevel: nothing has been said of a fresh id.
LEMMA NewToplevelKeeps ==
    ASSUME Served, NewToplevel, UNCHANGED <<view, exited>>
    PROVE  Served'
  <1> DEFINE id == next_window_id
             e == [type |-> "created", id |-> id]
             w == [size |-> 1, mode |-> "normal", restore |-> 1, moved |-> FALSE,
                   ask |-> 0, due |-> TRUE]
             n == Len(s2c)
  <1>1. /\ id \in Ids /\ next_window_id' = id + 1
        /\ windows' = [windows EXCEPT ![id] = w] /\ s2c' = s2c \o <<e>>
    BY Zenon DEF NewToplevel, Update, Emit
  <1>2. w \in Remote /\ e \in Event /\ s2c \in Seq(Event) /\ n \in Nat /\ id \in Int
    BY <1>1, Constants DEF Remote, Mode, Event, Served, ServerTypes
  <1>3. e.id = id /\ e.type = "created"
    OBVIOUS
  <1> HIDE DEF e, w
  <1>4. ServerTypes'
    BY <1>1, <1>2 DEF Served, ServerTypes
  <1>5. /\ Len(s2c') = n + 1 /\ s2c'[n + 1] = e
        /\ \A i \in 1 .. n : s2c'[i] = s2c[i]
    BY <1>1, <1>2
  <1>6. \A i \in 1 .. n : s2c[i].id \in Ids /\ s2c[i].id < id
    BY <1>2, EventFields DEF Served, FreshIds
  <1>7. \A x \in Ids \ {id} : windows'[x] = windows[x]
    BY <1>1 DEF Served, ServerTypes
  <1> HIDE DEF n
  <1>8. FreshIds'
    <2>1. \A i \in 1 .. n + 1 : s2c'[i].id < id + 1
      BY <1>2, <1>3, <1>5, <1>6, Constants
    <2>2. \A x \in Ids : windows'[x] # None => x < id + 1
      <3> SUFFICES ASSUME NEW x \in Ids, windows'[x] # None PROVE x < id + 1
        OBVIOUS
      <3>1. CASE x = id
        BY <1>2, <3>1
      <3>2. CASE x # id
        <4>1. x < id /\ x \in Int
          BY <1>7, <3>2, Constants DEF Served, FreshIds
        <4> QED BY <1>2, <4>1
      <3> QED BY <3>1, <3>2
    <2> QED BY <1>1, <1>5, <2>1, <2>2 DEF FreshIds
  <1>9. ASSUME ~exited' PROVE Channel'
    <2>1. Channel
      BY <1>9 DEF Served
    <2>2. ASSUME NEW x \in Ids, NEW i \in 1 .. n + 1, NEW j \in 1 .. n + 2, i <= j,
                 Announced(view, s2c, x, i)
          PROVE  Announced(view', s2c', x, j)
      BY <1>2, <1>5, <2>2 DEF Announced, n
    <2>3. \A i \in 1 .. n + 1 :
             s2c'[i].type # "created" => Announced(view', s2c', s2c'[i].id, i)
      <3> SUFFICES ASSUME NEW i \in 1 .. n + 1, s2c'[i].type # "created"
                   PROVE  Announced(view', s2c', s2c'[i].id, i)
        OBVIOUS
      <3>1. i \in 1 .. n
        BY <1>2, <1>3, <1>5
      <3>2. s2c'[i] = s2c[i] /\ s2c[i].id \in Ids
        BY <1>5, <1>6, <3>1
      <3>3. Announced(view, s2c, s2c[i].id, i)
        BY <2>1, <3>1, <3>2 DEF Channel, n
      <3>4. Announced(view', s2c', s2c[i].id, i)
        BY <1>2, <2>2, <3>1, <3>2, <3>3
      <3> QED BY <3>2, <3>4
    <2>4. \A i, j \in 1 .. n + 1 :
             j < i /\ s2c'[j].id = s2c'[i].id => s2c'[j].type # "destroyed"
      <3> SUFFICES ASSUME NEW i \in 1 .. n + 1, NEW j \in 1 .. n + 1,
                          j < i, s2c'[j].id = s2c'[i].id
                   PROVE  s2c'[j].type # "destroyed"
        OBVIOUS
      <3>1. j \in 1 .. n
        BY <1>2
      <3>2. CASE i \in 1 .. n
        BY <1>5, <2>1, <3>1, <3>2 DEF Channel, n
      <3>3. CASE i = n + 1
        BY <1>2, <1>3, <1>5, <1>6, <3>1, <3>3, Constants
      <3> QED BY <1>2, <3>2, <3>3
    <2>5. ASSUME NEW x \in Ids, windows'[x] # None
          PROVE  /\ Announced(view', s2c', x, n + 2)
                 /\ \A i \in 1 .. n + 1 : s2c'[i].id = x => s2c'[i].type # "destroyed"
      <3>1. CASE x = id
        <4>1. Announced(view', s2c', x, n + 2)
          BY <1>2, <1>3, <1>5, <3>1 DEF Announced
        <4> QED BY <1>2, <1>3, <1>5, <1>6, <3>1, <4>1, Constants
      <3>2. CASE x # id
        <4>1. /\ Announced(view, s2c, x, n + 1)
              /\ \A i \in 1 .. n : s2c[i].id = x => s2c[i].type # "destroyed"
          BY <1>7, <2>1, <2>5, <3>2 DEF Channel, n
        <4>2. Announced(view', s2c', x, n + 2)
          BY <1>2, <2>2, <4>1
        <4> QED BY <1>2, <1>3, <1>5, <4>1, <4>2
      <3> QED BY <3>1, <3>2
    <2>6. Len(s2c') + 1 = n + 2
      BY <1>2, <1>5
    <2> QED BY <1>5, <2>3, <2>4, <2>5, <2>6 DEF Channel
  <1> QED BY <1>4, <1>8, <1>9 DEF Served

\* toplevel_destroyed: the last that is said of a window.
LEMMA ToplevelDestroyedKeeps ==
    ASSUME Served, NEW id \in Ids, ToplevelDestroyed(id), UNCHANGED <<view, exited>>
    PROVE  Served'
  <1> DEFINE e == [type |-> "destroyed", id |-> id]
             n == Len(s2c)
  <1>1. /\ windows[id] # None /\ UNCHANGED next_window_id
        /\ windows' = [windows EXCEPT ![id] = None] /\ s2c' = s2c \o <<e>>
    BY Zenon DEF ToplevelDestroyed, Update, Emit
  <1>2. e \in Event /\ s2c \in Seq(Event) /\ n \in Nat
    BY DEF Event, Served, ServerTypes
  <1>3. e.id = id /\ e.type = "destroyed"
    OBVIOUS
  <1> HIDE DEF e
  <1>4. ServerTypes'
    BY <1>1, <1>2 DEF Served, ServerTypes
  <1>5. /\ Len(s2c') = n + 1 /\ s2c'[n + 1] = e
        /\ \A i \in 1 .. n : s2c'[i] = s2c[i]
    BY <1>1, <1>2
  <1>6. \A i \in 1 .. n : s2c[i].id \in Ids
    BY <1>2, EventFields
  <1>7. windows'[id] = None /\ \A x \in Ids \ {id} : windows'[x] = windows[x]
    BY <1>1 DEF Served, ServerTypes
  <1> HIDE DEF n
  <1>8. FreshIds'
    <2>1. \A i \in 1 .. n + 1 : s2c'[i].id < next_window_id
      BY <1>1, <1>2, <1>3, <1>5 DEF Served, FreshIds, n
    <2> QED BY <1>1, <1>5, <1>7, <2>1 DEF Served, FreshIds
  <1>9. ASSUME ~exited' PROVE Channel'
    <2>1. Channel
      BY <1>9 DEF Served
    <2>2. ASSUME NEW x \in Ids, NEW i \in 1 .. n + 1, NEW j \in 1 .. n + 2, i <= j,
                 Announced(view, s2c, x, i)
          PROVE  Announced(view', s2c', x, j)
      BY <1>2, <1>5, <2>2 DEF Announced, n
    <2>3. /\ Announced(view, s2c, id, n + 1)
          /\ \A i \in 1 .. n : s2c[i].id = id => s2c[i].type # "destroyed"
      BY <1>1, <2>1 DEF Channel, n
    <2>4. \A i \in 1 .. n + 1 :
             s2c'[i].type # "created" => Announced(view', s2c', s2c'[i].id, i)
      <3> SUFFICES ASSUME NEW i \in 1 .. n + 1, s2c'[i].type # "created"
                   PROVE  Announced(view', s2c', s2c'[i].id, i)
        OBVIOUS
      <3>1. CASE i \in 1 .. n
        <4>1. s2c'[i] = s2c[i] /\ s2c[i].id \in Ids
          BY <1>5, <1>6, <3>1
        <4>2. Announced(view, s2c, s2c[i].id, i)
          BY <2>1, <3>1, <4>1 DEF Channel, n
        <4>3. Announced(view', s2c', s2c[i].id, i)
          BY <1>2, <2>2, <3>1, <4>1, <4>2
        <4> QED BY <4>1, <4>3
      <3>2. CASE i = n + 1
        <4>1. Announced(view', s2c', id, n + 1)
          BY <1>2, <2>2, <2>3
        <4> QED BY <1>3, <1>5, <3>2, <4>1
      <3> QED BY <1>2, <3>1, <3>2
    <2>5. \A i, j \in 1 .. n + 1 :
             j < i /\ s2c'[j].id = s2c'[i].id => s2c'[j].type # "destroyed"
      <3> SUFFICES ASSUME NEW i \in 1 .. n + 1, NEW j \in 1 .. n + 1,
                          j < i, s2c'[j].id = s2c'[i].id
                   PROVE  s2c'[j].type # "destroyed"
        OBVIOUS
      <3>1. j \in 1 .. n
        BY <1>2
      <3>2. CASE i \in 1 .. n
        BY <1>5, <2>1, <3>1, <3>2 DEF Channel, n
      <3>3. CASE i = n + 1
        BY <1>3, <1>5, <2>3, <3>1, <3>3
      <3> QED BY <1>2, <3>2, <3>3
    <2>6. ASSUME NEW x \in Ids, windows'[x] # None
          PROVE  /\ Announced(view', s2c', x, n + 2)
                 /\ \A i \in 1 .. n + 1 : s2c'[i].id = x => s2c'[i].type # "destroyed"
      <3>1. x # id
        BY <1>7, <2>6
      <3>2. /\ Announced(view, s2c, x, n + 1)
            /\ \A i \in 1 .. n : s2c[i].id = x => s2c[i].type # "destroyed"
        BY <1>7, <2>1, <2>6, <3>1 DEF Channel, n
      <3>3. Announced(view', s2c', x, n + 2)
        BY <1>2, <2>2, <3>2
      <3> QED BY <1>2, <1>3, <1>5, <3>1, <3>2, <3>3
    <2>7. Len(s2c') + 1 = n + 2
      BY <1>2, <1>5
    <2> QED BY <1>5, <2>4, <2>5, <2>6, <2>7 DEF Channel
  <1> QED BY <1>4, <1>8, <1>9 DEF Served

\* The viewer takes the next message: it has the window the message is about
\* afterwards, unless nothing more is said of it.
LEMMA TakeKeeps ==
    ASSUME Served, ~exited, s2c # <<>>, s2c' = Tail(s2c),
           UNCHANGED <<windows, next_window_id, exited>>,
           Head(s2c).type # "destroyed" => view'[Head(s2c).id] # None,
           \A x \in Ids \ {Head(s2c).id} : view'[x] = view[x]
    PROVE  Served'
  <1> DEFINE h == Head(s2c)
             n == Len(s2c') + 1
  <1>1. s2c \in Seq(Event) /\ Channel
    BY DEF Served, ServerTypes
  <1>2. /\ n \in Nat \ {0} /\ Len(s2c) = n /\ Len(s2c') = n - 1
        /\ h = s2c[1] /\ \A i \in 1 .. n - 1 : s2c'[i] = s2c[i + 1]
    BY <1>1
  <1>3. h.id \in Ids /\ \A i \in 1 .. n : s2c[i].id \in Ids
    BY <1>1, <1>2, EventFields
  <1>4. ServerTypes' /\ FreshIds'
    <2>1. s2c' \in Seq(Event)
      BY <1>1
    <2> QED BY <1>2, <2>1 DEF Served, ServerTypes, FreshIds
  <1> HIDE DEF n, h
  <1>5. ASSUME NEW x \in Ids, NEW i \in 1 .. n, Announced(view, s2c, x, i + 1),
               x = h.id => h.type # "destroyed"
        PROVE  Announced(view', s2c', x, i)
    <2>1. CASE x = h.id
      BY <1>5, <2>1 DEF Announced, h
    <2>2. CASE x # h.id /\ view[x] # None
      BY <2>2 DEF Announced, h
    <2>3. CASE x # h.id /\ view[x] = None
      <3>1. PICK j \in 1 .. n : j < i + 1 /\ s2c[j].type = "created" /\ s2c[j].id = x
        BY <1>2, <1>5, <2>3 DEF Announced
      <3>2. j # 1
        BY <1>2, <2>3, <3>1
      <3>3. j - 1 \in 1 .. n - 1 /\ j - 1 < i /\ s2c'[j - 1] = s2c[j]
        BY <1>2, <3>1, <3>2
      <3> QED BY <1>2, <3>1, <3>3 DEF Announced
    <2> QED BY <2>1, <2>2, <2>3
  <1>6. ASSUME NEW i \in 1 .. n - 1, s2c'[i].id = h.id
        PROVE  h.type # "destroyed"
    BY <1>1, <1>2, <1>6 DEF Channel
  <1>7. \A i \in 1 .. n - 1 :
           s2c'[i].type # "created" => Announced(view', s2c', s2c'[i].id, i)
    <2> SUFFICES ASSUME NEW i \in 1 .. n - 1, s2c'[i].type # "created"
                 PROVE  Announced(view', s2c', s2c'[i].id, i)
      OBVIOUS
    <2>1. i + 1 \in 1 .. n /\ i \in 1 .. n /\ s2c'[i] = s2c[i + 1] /\ s2c[i + 1].id \in Ids
      BY <1>2, <1>3
    <2>2. Announced(view, s2c, s2c[i + 1].id, i + 1)
      BY <1>1, <1>2, <2>1 DEF Channel
    <2> QED BY <1>5, <1>6, <2>1, <2>2
  <1>8. \A i, j \in 1 .. n - 1 :
           j < i /\ s2c'[j].id = s2c'[i].id => s2c'[j].type # "destroyed"
    <2> SUFFICES ASSUME NEW i \in 1 .. n - 1, NEW j \in 1 .. n - 1,
                        j < i, s2c'[j].id = s2c'[i].id
                 PROVE  s2c'[j].type # "destroyed"
      OBVIOUS
    <2>1. i + 1 \in 1 .. n /\ j + 1 \in 1 .. n /\ j + 1 < i + 1
          /\ s2c'[i] = s2c[i + 1] /\ s2c'[j] = s2c[j + 1]
      BY <1>2
    <2> QED BY <1>1, <1>2, <2>1 DEF Channel
  <1>9. ASSUME NEW x \in Ids, windows'[x] # None
        PROVE  /\ Announced(view', s2c', x, n)
               /\ \A i \in 1 .. n - 1 : s2c'[i].id = x => s2c'[i].type # "destroyed"
    <2>1. /\ Announced(view, s2c, x, n + 1)
          /\ \A i \in 1 .. n : s2c[i].id = x => s2c[i].type # "destroyed"
      BY <1>1, <1>2, <1>9 DEF Channel
    <2>2. x = h.id => h.type # "destroyed"
      BY <1>2, <2>1
    <2>3. n \in 1 .. n
      BY <1>2
    <2>4. Announced(view', s2c', x, n)
      BY <1>5, <2>1, <2>2, <2>3
    <2> QED BY <1>2, <2>1, <2>4
  <1>10. Channel'
    <2>1. Len(s2c') + 1 = n
      BY <1>2
    <2> QED BY <1>2, <1>7, <1>8, <1>9, <2>1 DEF Channel
  <1> QED BY <1>4, <1>10 DEF Served

-----------------------------------------------------------------------------
(* The compositor's requests.                                              *)

\* A window is configured, or its state entered, with a size that is a number.
LEMMA ConfigureType ==
    ASSUME NEW w \in Remote, NEW size \in Int, NEW mode \in Mode
    PROVE  Configure(w, size, mode) \in Remote
  <1> DEFINE r == IF mode = "normal" THEN 1 ELSE w.restore
  <1>1. Configure(w, size, mode) =
           [w EXCEPT !.ask = size, !.mode = mode, !.due = TRUE, !.restore = r]
    BY DEF Configure
  <1>2. r \in Int
    BY DEF Remote
  <1> HIDE DEF r
  <1> QED BY <1>1, <1>2 DEF Remote

\* enter_maximized, enter_fullscreen.
LEMMA EnterType ==
    ASSUME NEW w \in Remote, NEW mode \in Mode
    PROVE  Enter(w, mode) \in Remote
  <1> DEFINE c == Configure(w, Screen, mode)
  <1>1. c \in Remote /\ c.restore \in Int
    BY ConfigureType, Constants DEF Remote
  <1>2. RestoreSize(w.size) \in Int
    BY Constants DEF RestoreSize, Greatest, Least, Remote
  <1>3. Enter(w, mode) \in {c, [c EXCEPT !.restore = RestoreSize(w.size)]}
    <2> HIDE DEF c
    <2>1. [c EXCEPT !.restore = c.restore] = c
      BY <1>1 DEF Remote
    <2>2. Enter(w, mode) =
             [c EXCEPT !.restore = IF w.mode = mode THEN c.restore ELSE RestoreSize(w.size)]
      BY DEF Enter, c
    <2> QED BY <2>1, <2>2
  <1> HIDE DEF c
  <1>4. [c EXCEPT !.restore = RestoreSize(w.size)] \in Remote
    BY <1>1, <1>2 DEF Remote
  <1> QED BY <1>1, <1>3, <1>4

\* What a step does to a window is a telling: the window, and what is said.
LEMMA ToTell ==
    ASSUME ServerTypes, NEW id \in Ids, windows[id] # None,
           UNCHANGED windows \/ \E w \in Remote : Update(id, w),
           UNCHANGED s2c \/ \E msgs \in Seq(Says(id)) : Emit(msgs)
    PROVE  Tells(id)
  <1>1. \E w \in Remote : windows' = [windows EXCEPT ![id] = w]
    <2>1. windows[id] \in Remote /\ windows = [windows EXCEPT ![id] = windows[id]]
      BY DEF ServerTypes
    <2> QED BY <2>1 DEF Update
  <1>2. \E msgs \in Seq(Says(id)) : s2c' = s2c \o msgs
    <2>1. <<>> \in Seq(Says(id)) /\ s2c \o <<>> = s2c
      BY DEF ServerTypes
    <2> QED BY <2>1 DEF Emit
  <1> QED BY <1>1, <1>2 DEF Tells

\* A change of the fullscreen state, said or not.
LEMMA FullscreenSaid ==
    ASSUME NEW id \in Ids, NEW on \in BOOLEAN
    PROVE  <<>> \in Seq(Says(id)) /\ <<FullscreenChanged(id, on)>> \in Seq(Says(id))
  <1>1. FullscreenChanged(id, on) \in Says(id)
    BY DEF FullscreenChanged, Says, Event
  <1> QED BY <1>1

\* request_window_resize.
LEMMA ResizeTells ==
    ASSUME ServerTypes, NEW id \in Ids, windows[id] # None, NEW size \in Int,
           RequestWindowResize(id, size)
    PROVE  Tells(id)
  <1> DEFINE w == windows[id]
  <1>1. w \in Remote /\ "normal" \in Mode
    BY DEF ServerTypes, Mode
  <1>2. Configure(w, size, "normal") \in Remote
    BY <1>1, ConfigureType
  <1>3. \/ UNCHANGED <<windows, s2c>>
        \/ /\ Update(id, Configure(w, size, "normal"))
           /\ Emit(<<FullscreenChanged(id, FALSE)>>) \/ Emit(<<>>)
    BY Zenon DEF RequestWindowResize
  <1> HIDE DEF w
  <1> QED BY <1>2, <1>3, ToTell, FullscreenSaid

\* request_window_maximize_by_id.
LEMMA MaximizeTells ==
    ASSUME ServerTypes, NEW id \in Ids, windows[id] # None,
           RequestWindowMaximize(id)
    PROVE  Tells(id)
  <1> DEFINE w == windows[id]
  <1>1. w \in Remote /\ "maximized" \in Mode
    BY DEF ServerTypes, Mode
  <1>2. Enter(w, "maximized") \in Remote
    BY <1>1, EnterType
  <1>3. (UNCHANGED windows \/ Update(id, Enter(w, "maximized"))) /\ UNCHANGED s2c
    BY Zenon DEF RequestWindowMaximize
  <1> HIDE DEF w
  <1> QED BY <1>2, <1>3, ToTell

\* request_window_unmaximize_by_id.
LEMMA UnmaximizeTells ==
    ASSUME ServerTypes, NEW id \in Ids, windows[id] # None, NEW suppress,
           RequestWindowUnmaximize(id, suppress)
    PROVE  Tells(id)
  <1> DEFINE w == windows[id]
  <1>1. w \in Remote /\ "normal" \in Mode /\ w.restore \in Int
    BY DEF ServerTypes, Mode, Remote
  <1>2. Configure(w, w.restore, "normal") \in Remote /\ [w EXCEPT !.moved = FALSE] \in Remote
    BY <1>1, ConfigureType DEF Remote
  <1>3. /\ \/ UNCHANGED windows
           \/ Update(id, Configure(w, w.restore, "normal"))
           \/ Update(id, [w EXCEPT !.moved = FALSE])
        /\ UNCHANGED s2c
    BY Zenon DEF RequestWindowUnmaximize
  <1> HIDE DEF w
  <1> QED BY <1>2, <1>3, ToTell

\* request_window_fullscreen_by_id.
LEMMA FullscreenTells ==
    ASSUME ServerTypes, NEW id \in Ids, windows[id] # None,
           RequestWindowFullscreen(id)
    PROVE  Tells(id)
  <1> DEFINE w == windows[id]
  <1>1. w \in Remote /\ "fullscreen" \in Mode
    BY DEF ServerTypes, Mode
  <1>2. Enter(w, "fullscreen") \in Remote
    BY <1>1, EnterType
  <1>3. /\ UNCHANGED windows \/ Update(id, Enter(w, "fullscreen"))
        /\ Emit(<<FullscreenChanged(id, TRUE)>>)
    BY Zenon DEF RequestWindowFullscreen
  <1> HIDE DEF w
  <1> QED BY <1>2, <1>3, ToTell, FullscreenSaid

\* request_window_unfullscreen_by_id.
LEMMA UnfullscreenTells ==
    ASSUME ServerTypes, NEW id \in Ids, windows[id] # None, NEW suppress,
           RequestWindowUnfullscreen(id, suppress)
    PROVE  Tells(id)
  <1> DEFINE w == windows[id]
  <1>1. w \in Remote /\ "normal" \in Mode /\ w.restore \in Int
    BY DEF ServerTypes, Mode, Remote
  <1>2. Configure(w, w.restore, "normal") \in Remote /\ [w EXCEPT !.moved = FALSE] \in Remote
    BY <1>1, ConfigureType DEF Remote
  <1>3. /\ \/ UNCHANGED windows
           \/ Update(id, Configure(w, w.restore, "normal"))
           \/ Update(id, [w EXCEPT !.moved = FALSE])
        /\ UNCHANGED s2c \/ Emit(<<FullscreenChanged(id, FALSE)>>)
    BY Zenon DEF RequestWindowUnfullscreen
  <1> HIDE DEF w
  <1> QED BY <1>2, <1>3, ToTell, FullscreenSaid

\* A request for a window that has gone does nothing.
LEMMA GoneIgnored ==
    ASSUME NEW id, windows[id] = None, NEW size, NEW on,
           \/ RequestWindowResize(id, size)
           \/ ToggleWindowMaximize(id)
           \/ SetWindowFullscreen(id, on)
    PROVE  UNCHANGED <<windows, s2c>>
  BY DEF RequestWindowResize, ToggleWindowMaximize, SetWindowFullscreen,
     RequestWindowMaximize, RequestWindowFullscreen, RequestWindowUnfullscreen

\* handle_input_event.
LEMMA HandleInputKeeps ==
    ASSUME IndInv, HandleInput
    PROVE  Served' /\ TimerTypes'
  <1> DEFINE m == Head(c2s)
  <1>1. m \in Input /\ c2s' \in Seq(Input)
    BY DEF IndInv, TimerTypes, HandleInput
  <1>2. TimerTypes'
    BY <1>1 DEF IndInv, TimerTypes, HandleInput, timers
  <1>3. Served /\ ServerTypes
    BY DEF IndInv, Served
  <1>4. /\ \/ m.type = "resize" /\ RequestWindowResize(m.id, m.size)
           \/ m.type = "toggle" /\ ToggleWindowMaximize(m.id)
           \/ m.type = "fullscreen" /\ SetWindowFullscreen(m.id, m.on)
        /\ UNCHANGED <<next_window_id, view, exited>>
    BY Zenon DEF HandleInput, app
  <1> HIDE DEF m
  <1>5. m.id \in Ids /\ (m.type = "resize" => m.size \in Int)
    BY <1>1, InputFields
  <1>6. CASE windows[m.id] = None
    <2>1. UNCHANGED <<windows, s2c>>
      BY <1>4, <1>6, GoneIgnored
    <2> QED BY <1>2, <1>3, <1>4, <2>1, QuietKeeps
  <1>7. CASE windows[m.id] # None
    <2>1. Tells(m.id)
      BY <1>3, <1>4, <1>5, <1>7, ResizeTells, MaximizeTells, UnmaximizeTells,
         FullscreenTells, UnfullscreenTells
         DEF ToggleWindowMaximize, SetWindowFullscreen
    <2> QED BY <1>2, <1>3, <1>4, <1>5, <1>7, <2>1, TellsKeeps
  <1> QED BY <1>6, <1>7

\* A buffer of the application: a new size is told before its tile.
LEMMA RootBufferTells ==
    ASSUME ServerTypes, NEW id \in Ids, windows[id] # None, NEW w \in Remote,
           NEW size \in Int, RootBuffer(id, w, size)
    PROVE  Tells(id)
  <1> DEFINE c == [type |-> "configured", id |-> id, size |-> size]
             t == [type |-> "tile", id |-> id, size |-> size]
  <1>1. c \in Says(id) /\ t \in Says(id)
    BY DEF Says, Event
  <1>2. /\ Update(id, [w EXCEPT !.size = size])
        /\ Emit(<<>> \o <<t>>) \/ Emit(<<c>> \o <<t>>)
    BY Zenon DEF RootBuffer
  <1> HIDE DEF c, t
  <1>3. <<>> \o <<t>> \in Seq(Says(id)) /\ <<c>> \o <<t>> \in Seq(Says(id))
    BY <1>1
  <1>4. [w EXCEPT !.size = size] \in Remote
    BY DEF Remote
  <1> QED BY <1>2, <1>3, <1>4, ToTell

\* A configure the application has acted on.
LEMMA DoneType ==
    ASSUME NEW w \in Remote, NEW due \in BOOLEAN, NEW ask \in Int
    PROVE  [w EXCEPT !.due = due, !.ask = ask] \in Remote
  BY DEF Remote

\* The answer tells of a window that exists.
LEMMA AnswerTells ==
    ASSUME ServerTypes, NEW id \in Ids, GuestConfigure(id)
    PROVE  windows[id] # None /\ Tells(id) /\ UNCHANGED next_window_id
  <1> DEFINE w == windows[id]
             done == [w EXCEPT !.due = FALSE, !.ask = 0]
  <1>1. w # None /\ w \in Remote /\ w.ask \in Int
    BY DEF GuestConfigure, ServerTypes, Remote
  <1>2. done \in Remote
    <2>1. FALSE \in BOOLEAN /\ 0 \in Int
      OBVIOUS
    <2> QED BY <1>1, <2>1, DoneType, Zenon
  <1>3. /\ \E size \in IF w.ask = 0 THEN {MinGuest, Screen} ELSE {Greatest(w.ask, MinGuest)} :
              \/ RootBuffer(id, done, size)
              \/ size = w.size /\ Update(id, done) /\ UNCHANGED s2c
        /\ UNCHANGED next_window_id
    BY Zenon DEF GuestConfigure
  <1> HIDE DEF w, done
  <1>4. PICK size \in Int : RootBuffer(id, done, size) \/ (Update(id, done) /\ UNCHANGED s2c)
    BY <1>1, <1>3, Constants DEF Greatest
  <1> QED BY <1>1, <1>2, <1>3, <1>4, RootBufferTells, ToTell DEF w

\* What the application does unasked.
LEMMA GuestKeeps ==
    ASSUME Served, NEW id \in Ids, Guest(id)
    PROVE  Served'
  <1>1. ServerTypes /\ UNCHANGED <<view, exited>>
    BY DEF Served, Guest, viewer, app
  <1>2. CASE ToplevelDestroyed(id)
    BY <1>1, <1>2, ToplevelDestroyedKeeps
  <1>3. ASSUME windows[id] # None, Tells(id), UNCHANGED next_window_id
        PROVE  Served'
    BY <1>1, <1>3, TellsKeeps
  <1>4. CASE GuestRelayout(id)
    <2>1. PICK size \in MinGuest .. Screen : RootBuffer(id, windows[id], size)
      BY <1>4 DEF GuestRelayout
    <2>2. windows[id] # None /\ windows[id] \in Remote /\ size \in Int /\ UNCHANGED next_window_id
      BY <1>1, <1>4 DEF GuestRelayout, ServerTypes
    <2> QED BY <1>1, <1>3, <2>1, <2>2, RootBufferTells
  <1>5. CASE GuestMode(id)
    <2>1. windows[id] # None /\ UNCHANGED next_window_id
      BY <1>5 DEF GuestMode
    <2>2. Tells(id)
      BY <1>1, <1>5, <2>1, MaximizeTells, UnmaximizeTells, FullscreenTells, UnfullscreenTells
         DEF GuestMode
    <2> QED BY <1>3, <2>1, <2>2
  <1>6. CASE GuestMove(id)
    <2>1. windows[id] # None /\ windows[id] \in Remote /\ UNCHANGED <<s2c, next_window_id>>
          /\ Update(id, [windows[id] EXCEPT !.moved = TRUE])
      BY <1>1, <1>6 DEF GuestMove, ServerTypes
    <2>2. [windows[id] EXCEPT !.moved = TRUE] \in Remote
      BY <2>1 DEF Remote
    <2> QED BY <1>1, <1>3, <2>1, <2>2, ToTell
  <1>7. CASE GuestTell(id)
    <2>1. PICK type \in {"minimized", "title"} : Emit(<<[type |-> type, id |-> id]>>)
      BY <1>7 DEF GuestTell
    <2>2. [type |-> type, id |-> id] \in Says(id)
      BY DEF Says, Event
    <2>3. <<[type |-> type, id |-> id]>> \in Seq(Says(id))
      BY <2>2
    <2>4. windows[id] # None /\ UNCHANGED <<windows, next_window_id>>
      BY <1>7 DEF GuestTell
    <2> QED BY <1>1, <1>3, <2>1, <2>3, <2>4, ToTell
  <1> QED BY <1>2, <1>4, <1>5, <1>6, <1>7 DEF Guest

-----------------------------------------------------------------------------
(* The theorem.                                                            *)

\* The invariant in its three parts.
LEMMA Parts ==
    /\ IndInv <=> Shown /\ Served /\ TimerTypes
    /\ IndInv' <=> Shown' /\ Served' /\ TimerTypes'
  BY DEF IndInv, Shown, Served, ViewTypes

\* No windows and no messages.
LEMMA InitInv ==
    Init => IndInv
  <1> SUFFICES ASSUME Init PROVE IndInv
    OBVIOUS
  <1>1. /\ windows = [id \in Ids |-> None] /\ next_window_id = 1 /\ s2c = <<>>
        /\ view = [id \in Ids |-> None] /\ osq = [id \in Ids |-> <<>>]
        /\ pending_resizes = [id \in Ids |-> None]
        /\ pending_fullscreen_exit_resyncs = {} /\ c2s = <<>>
    BY DEF Init, ToplevelsInit, ViewerInit
  <1>2. ServerTypes /\ ViewTypes /\ TimerTypes
    BY <1>1 DEF ServerTypes, ViewTypes, TimerTypes
  <1>3. AllSteady /\ Queues /\ LastInStep
    BY <1>1 DEF AllSteady, Queues, LastInStep
  <1>4. FreshIds /\ Channel
    BY <1>1 DEF FreshIds, Channel
  <1> QED BY <1>2, <1>3, <1>4 DEF IndInv

\* The viewer's windows stay while the compositor works.
LEMMA UnseenKeeps ==
    ASSUME Shown, TimerTypes, UNCHANGED viewer
    PROVE  Shown' /\ TimerTypes'
  BY DEF Shown, AllSteady, Queues, LastInStep, TimerTypes, viewer, timers

\* user_event: no message finds its window missing.
LEMMA HandleMessageKeeps ==
    ASSUME IndInv, HandleMessage
    PROVE  IndInv'
  <1> DEFINE m == Head(s2c)
  <1>1. Shown /\ Served /\ ~exited /\ Channel
    BY Parts DEF HandleMessage, IndInv
  <1>2. /\ s2c # <<>> /\ s2c \in Seq(Event) /\ s2c' = Tail(s2c)
        /\ UNCHANGED <<windows, next_window_id>>
    BY <1>1 DEF HandleMessage, Served, ServerTypes
  <1>3. m \in Event /\ m = s2c[1] /\ 1 \in 1 .. Len(s2c)
    BY <1>2
  <1>4. m.id \in Ids /\ (m.type \in {"configured", "tile"} => m.size \in Int)
        /\ (m.type = "fullscreen" => m.on \in BOOLEAN)
    BY <1>3, EventFields
  <1>5. m.type # "created" => view[m.id] # None
    <2>1. m.type # "created" => Announced(view, s2c, m.id, 1)
      BY <1>1, <1>3 DEF Channel
    <2> QED BY <2>1 DEF Announced
  <1>6. \/ m.type = "created" /\ Created(m.id)
        \/ m.type = "configured" /\ Configured(m.id, m.size)
        \/ m.type = "tile" /\ FrameTile(m.id, m.size)
        \/ m.type = "title" /\ TitleChanged(m.id)
        \/ m.type = "minimized" /\ Minimized
        \/ m.type = "fullscreen" /\ FullscreenChangedApplied(m.id, m.on)
        \/ m.type = "destroyed" /\ Destroyed(m.id)
    BY Zenon DEF HandleMessage
  <1>7. UNCHANGED exited
    BY <1>6 DEF Created, Configured, FrameTile, TitleChanged, Minimized,
       FullscreenChangedApplied, Destroyed, app
  <1> HIDE DEF m
  <1>8. /\ Shown' /\ \A x \in Ids \ {m.id} : view'[x] = view[x]
        /\ m.type # "destroyed" => view'[m.id] # None
    <2>1. CASE m.type = "created" /\ Created(m.id)
      BY <1>1, <1>4, <2>1, CreatedKeeps DEF Stays
    <2>2. CASE m.type = "configured" /\ Configured(m.id, m.size)
      BY <1>1, <1>4, <1>5, <2>2, ConfiguredKeeps DEF Stays
    <2>3. CASE m.type = "tile" /\ FrameTile(m.id, m.size)
      BY <1>1, <1>4, <1>5, <2>3, FrameTileKeeps DEF Stays
    <2>4. CASE m.type = "title" /\ TitleChanged(m.id)
      BY <1>1, <1>4, <1>5, <2>4, TitleChangedKeeps DEF Stays
    <2>5. CASE m.type = "minimized" /\ Minimized
      BY <1>1, <1>5, <2>5 DEF Minimized, Shown, AllSteady, Queues, LastInStep
    <2>6. CASE m.type = "fullscreen" /\ FullscreenChangedApplied(m.id, m.on)
      BY <1>1, <1>4, <1>5, <2>6, FullscreenChangedKeeps DEF Stays
    <2>7. CASE m.type = "destroyed" /\ Destroyed(m.id)
      BY <1>1, <1>4, <1>5, <2>7, DestroyedKeeps
    <2> QED BY <1>6, <2>1, <2>2, <2>3, <2>4, <2>5, <2>6, <2>7
  <1>9. Served'
    BY <1>1, <1>2, <1>7, <1>8, TakeKeeps DEF m
  <1> QED BY <1>8, <1>9, HandleMessageTimers, Parts

\* Every step keeps the invariant.
LEMMA NextKeeps ==
    ASSUME IndInv, [Next]_vars
    PROVE  IndInv'
  <1>1. Shown /\ Served /\ TimerTypes
    BY Parts
  <1>2. CASE Open
    <2>1. NewToplevel /\ UNCHANGED viewer /\ UNCHANGED <<view, exited>>
      BY <1>2 DEF Open, viewer, app
    <2> QED BY <1>1, <2>1, NewToplevelKeeps, UnseenKeeps, Parts
  <1>3. CASE Message1
    BY <1>3, HandleMessageKeeps DEF Message1
  <1>4. CASE HandleInput
    <2>1. UNCHANGED <<view, osq>>
      BY <1>4 DEF HandleInput
    <2>2. Shown'
      BY <1>1, <2>1 DEF Shown, AllSteady, Queues, LastInStep
    <2> QED BY <1>4, <2>2, HandleInputKeeps, Parts
  <1>5. CASE Flush
    <2>1. FlushDue /\ UNCHANGED <<windows, next_window_id, s2c, exited>>
      BY <1>5 DEF Flush, FlushDue, app, toplevels
    <2> QED BY <1>1, <2>1, FlushKeeps, FlushTimers, QuietKeeps, Parts
  <1>6. CASE Leave
    <2>1. GraceOver /\ exited' /\ UNCHANGED <<windows, next_window_id, s2c, timers, c2s>>
      BY <1>6 DEF Leave, GraceOver, toplevels
    <2>2. Served' /\ TimerTypes'
      BY <1>1, <2>1 DEF Served, ServerTypes, FreshIds, TimerTypes, timers
    <2> QED BY <1>1, <2>1, <2>2, GraceKeeps, Parts
  <1>7. ASSUME NEW id \in Ids, Guest(id)
        PROVE  IndInv'
    <2>1. UNCHANGED viewer
      BY <1>7 DEF Guest
    <2> QED BY <1>1, <1>7, <2>1, GuestKeeps, UnseenKeeps, Parts
  <1>8. ASSUME NEW id \in Ids, User(id)
        PROVE  IndInv'
    <2>1. UNCHANGED <<windows, next_window_id, s2c, exited>>
      BY <1>8, Zenon DEF User, FullscreenShortcut, HostResize, EdgeSnap, NativeToggle,
         TitlebarToggle, app, toplevels
    <2>2. Shown' /\ Stays(id)
      BY <1>1, <1>8, UserKeeps
    <2> QED BY <1>1, <1>8, <2>1, <2>2, UserTimers, QuietKeeps, Parts DEF Stays
  <1>9. ASSUME NEW id \in Ids, Answer(id)
        PROVE  IndInv'
    <2>1. GuestConfigure(id) /\ UNCHANGED viewer /\ UNCHANGED <<view, exited>>
      BY <1>9 DEF Answer, viewer, app
    <2>2. windows[id] # None /\ Tells(id) /\ UNCHANGED next_window_id
      BY <1>1, <2>1, AnswerTells DEF Served
    <2> QED BY <1>1, <2>1, <2>2, TellsKeeps, UnseenKeeps, Parts
  <1>10. ASSUME NEW id \in Ids, MoveGrace(id)
         PROVE  IndInv'
    <2>1. UNCHANGED viewer /\ UNCHANGED <<view, exited>>
      BY <1>10 DEF MoveGrace, viewer, app
    <2>2. /\ windows[id] # None /\ windows[id] \in Remote /\ UNCHANGED <<s2c, next_window_id>>
          /\ Update(id, [windows[id] EXCEPT !.moved = FALSE])
      BY <1>1, <1>10 DEF MoveGrace, MoveGraceOver, Served, ServerTypes
    <2>3. [windows[id] EXCEPT !.moved = FALSE] \in Remote
      BY <2>2 DEF Remote
    <2>4. Tells(id)
      BY <1>1, <2>2, <2>3, ToTell DEF Served
    <2> QED BY <1>1, <2>1, <2>2, <2>4, TellsKeeps, UnseenKeeps, Parts
  <1>11. ASSUME NEW id \in Ids, Resize1(id)
         PROVE  IndInv'
    <2>1. Resized(id) /\ UNCHANGED <<windows, next_window_id, s2c, exited>>
      BY <1>11 DEF Resize1, Resized, app, toplevels
    <2>2. Shown' /\ Stays(id)
      BY <1>1, <2>1, ResizedKeeps
    <2> QED BY <1>1, <2>1, <2>2, ResizedTimers, QuietKeeps, Parts DEF Stays
  <1>12. ASSUME NEW id \in Ids, Redraw1(id)
         PROVE  IndInv'
    <2>1. /\ RedrawRequested(id) /\ UNCHANGED <<windows, next_window_id, s2c, exited>>
          /\ UNCHANGED <<timers, c2s>>
      BY <1>12 DEF Redraw1, RedrawRequested, app, toplevels
    <2>2. Shown' /\ Stays(id)
      BY <1>1, <2>1, RedrawKeeps
    <2>3. TimerTypes'
      BY <1>1, <2>1 DEF TimerTypes, timers
    <2> QED BY <1>1, <2>1, <2>2, <2>3, QuietKeeps, Parts DEF Stays
  <1>13. CASE UNCHANGED vars
    <2>1. UNCHANGED viewer /\ UNCHANGED <<windows, next_window_id, s2c, view, exited>>
      BY <1>13 DEF vars, viewer, toplevels, app
    <2> QED BY <1>1, <2>1, UnseenKeeps, QuietKeeps, Parts
  <1> QED BY <1>2, <1>3, <1>4, <1>5, <1>6, <1>7, <1>8, <1>9, <1>10, <1>11, <1>12, <1>13
          DEF Next

\* LastInStep: once a window's Resized events have been handled,
\* last_host_fullscreen is the state the window has, so that the next resize
\* is not taken for a toggle of the user's and sent to the guest.  For any
\* number of windows, any screen, any interleaving of the messages of the
\* compositor with what the user and winit do, and the timers firing at any
\* moment.
THEOREM LastAlwaysInStep == Spec => []LastInStep
  <1>1. Init => IndInv
    BY InitInv
  <1>2. IndInv /\ [Next]_vars => IndInv'
    BY NextKeeps
  <1>3. IndInv => LastInStep
    BY DEF IndInv
  <1> QED BY <1>1, <1>2, <1>3, PTL DEF Spec

-----------------------------------------------------------------------------
(* The modes of guest and host.                                            *)

\* Message i of q is the last that says whether window id is fullscreen.
LastSaid(q, id, i) ==
    /\ q[i].type = "fullscreen" /\ q[i].id = id
    /\ \A j \in 1 .. Len(q) : j > i /\ q[j].id = id => q[j].type # "fullscreen"

\* No message of q says so.
Unsaid(q, id) == \A i \in 1 .. Len(q) : q[i].id = id => q[i].type # "fullscreen"

\* The viewer has asked for a fullscreen state, and has not been answered.
Asked(id) == \E i \in 1 .. Len(c2s) : c2s[i].type = "fullscreen" /\ c2s[i].id = id

\* What is said of a window last is what its state is; once that is handled
\* the viewer's cache has it, unless the viewer has asked for another.
Heard(id) ==
    /\ \A i \in 1 .. Len(s2c) : LastSaid(s2c, id, i) =>
          /\ Fullscreen(windows[id]) => s2c[i].on
          /\ host_chrome_enabled /\ s2c[i].on => Fullscreen(windows[id])
    /\ Unsaid(s2c, id) =>
          /\ Fullscreen(windows[id]) => view[id] # None /\ (view[id].last \/ Asked(id))
          /\ host_chrome_enabled /\ view[id] # None /\ view[id].fs = "simple" =>
                Fullscreen(windows[id])

\* A window is announced once, and no window is shown before.
Once ==
    /\ \A i \in 1 .. Len(s2c) : \A j \in 1 .. Len(s2c) :
          s2c[i].type = "created" /\ s2c[j].type = "created" /\ s2c[i].id = s2c[j].id => i = j
    /\ \A i \in 1 .. Len(s2c) : s2c[i].type = "created" => view[s2c[i].id] = None
    /\ \A id \in Ids : view[id] # None => id < next_window_id

\* With host chrome nobody maximizes a window: GTK is not asked to, and the
\* viewer has no titlebar of the guest to watch.
NoToggle ==
    host_chrome_enabled => ~gtk_wm /\ \A i \in 1 .. Len(c2s) : c2s[i].type # "toggle"

AllHeard == ~exited => \A id \in Ids : windows[id] # None => Heard(id)

ModeInv == IndInv /\ Once /\ NoToggle /\ AllHeard

\* What a step of the viewer may do to a window: it keeps the cache, or asks
\* the guest; and it does not make the window fullscreen of its own accord.
Mild(x) ==
    /\ view'[x] = None <=> view[x] = None
    /\ view[x] # None => /\ view'[x].last = view[x].last \/ Asked(x)'
                         /\ view'[x].fs = "simple" => view[x].fs = "simple"
    /\ Asked(x) => Asked(x)'

\* Such a step keeps what was heard.
LEMMA MildHeard ==
    ASSUME NEW id \in Ids, Heard(id), Mild(id), UNCHANGED <<windows, s2c, host_chrome_enabled>>
    PROVE  Heard(id)'
  BY DEF Heard, Mild, Fullscreen, LastSaid, Unsaid

\* Sending more takes nothing back.
LEMMA AskedMore ==
    ASSUME c2s \in Seq(Input), NEW msgs \in Seq(Input), c2s' = c2s \o msgs
    PROVE  /\ \A x \in Ids : Asked(x) => Asked(x)'
           /\ \A i \in 1 .. Len(msgs) : msgs[i].type = "fullscreen" => Asked(msgs[i].id)'
           /\ (\A i \in 1 .. Len(msgs) : msgs[i].type # "toggle") /\
              (\A i \in 1 .. Len(c2s) : c2s[i].type # "toggle") =>
                 \A i \in 1 .. Len(c2s') : c2s'[i].type # "toggle"
  <1> DEFINE n == Len(c2s)
             k == Len(msgs)
  <1>1. /\ n \in Nat /\ k \in Nat /\ Len(c2s') = n + k
        /\ \A i \in 1 .. n : c2s'[i] = c2s[i]
        /\ \A i \in n + 1 .. n + k : c2s'[i] = msgs[i - n]
    OBVIOUS
  <1>2. \A i \in 1 .. k : n + i \in 1 .. n + k /\ c2s'[n + i] = msgs[i]
    BY <1>1
  <1> HIDE DEF n, k
  <1>3. \A x \in Ids : Asked(x) => Asked(x)'
    BY <1>1 DEF Asked, n
  <1>4. \A i \in 1 .. k : msgs[i].type = "fullscreen" => Asked(msgs[i].id)'
    BY <1>1, <1>2 DEF Asked
  <1>5. ASSUME \A i \in 1 .. k : msgs[i].type # "toggle",
               \A i \in 1 .. n : c2s[i].type # "toggle",
               NEW i \in 1 .. Len(c2s')
        PROVE  c2s'[i].type # "toggle"
    <2>1. CASE i \in 1 .. n
      BY <1>1, <1>5, <2>1
    <2>2. CASE i \in n + 1 .. n + k
      BY <1>1, <1>5, <2>2
    <2> QED BY <1>1, <2>1, <2>2
  <1> QED BY <1>3, <1>4, <1>5 DEF n, k

\* One message to the guest about a window's fullscreen state.
LEMMA AskedNow ==
    ASSUME c2s \in Seq(Input), NEW id \in Ids, NEW on \in BOOLEAN,
           SendInput(<<SetFullscreen(id, on)>>)
    PROVE  /\ Asked(id)' /\ \A x \in Ids : Asked(x) => Asked(x)'
           /\ (\A i \in 1 .. Len(c2s) : c2s[i].type # "toggle") =>
                 \A i \in 1 .. Len(c2s') : c2s'[i].type # "toggle"
  <1> DEFINE m == SetFullscreen(id, on)
  <1>1. m \in Input /\ m.id = id /\ m.type = "fullscreen"
    BY DEF SetFullscreen, Input
  <1> HIDE DEF m
  <1>2. PICK msgs : msgs = <<m>>
    OBVIOUS
  <1>3. /\ msgs \in Seq(Input) /\ Len(msgs) = 1 /\ msgs[1] = m /\ c2s' = c2s \o msgs
        /\ \A i \in 1 .. Len(msgs) : msgs[i].type # "toggle"
    BY <1>1, <1>2 DEF SendInput, m
  <1>4. \A i \in 1 .. Len(msgs) : msgs[i].type = "fullscreen" => Asked(msgs[i].id)'
    BY <1>3, AskedMore
  <1>5. Asked(id)'
    BY <1>1, <1>3, <1>4
  <1> QED BY <1>3, <1>5, AskedMore

\* The state and the cache of every window are as they were.
LEMMA SameMild ==
    ASSUME NEW id \in Ids, view[id] # None, Stays(id), Same(id),
           \A x \in Ids : Asked(x) => Asked(x)'
    PROVE  \A x \in Ids : Mild(x)
  <1>1. \A x \in Ids \ {id} : Mild(x)
    BY DEF Mild, Stays
  <1>2. Mild(id)
    BY DEF Mild, Stays, Same
  <1> QED BY <1>1, <1>2

\* WindowEvent::Resized changes the cache only when it asks the guest.
LEMMA ResizedMild ==
    ASSUME Shown, c2s \in Seq(Input), NEW id \in Ids, Resized(id)
    PROVE  /\ \A x \in Ids : Mild(x)
           /\ (\A i \in 1 .. Len(c2s) : c2s[i].type # "toggle") =>
                 \A i \in 1 .. Len(c2s') : c2s'[i].type # "toggle"
  <1>0. Stays(id)
    BY ResizedKeeps
  <1>1. PICK v : v = view[id]
    OBVIOUS
  <1>2. v # None /\ v \in View
    BY <1>1 DEF Resized, Shown, Queues
  <1>3. CASE IsWindowFullscreen(v) # v.last
    <2>1. /\ view' = [view EXCEPT ![id] = [v EXCEPT !.last = ~@, !.prog = None, !.dirty = ~v.visible]]
          /\ SendInput(<<SetFullscreen(id, IsWindowFullscreen(v))>>)
      BY <1>1, <1>3, Zenon DEF Resized, ResizedToggle
    <2>2. IsWindowFullscreen(v) \in BOOLEAN
      BY DEF IsWindowFullscreen
    <2>3. /\ Asked(id)' /\ \A x \in Ids : Asked(x) => Asked(x)'
          /\ (\A i \in 1 .. Len(c2s) : c2s[i].type # "toggle") =>
                 \A i \in 1 .. Len(c2s') : c2s'[i].type # "toggle"
      BY <2>1, <2>2, AskedNow
    <2>4. view'[id].fs = v.fs
      BY <1>2, <2>1 DEF Shown, View, WindowOf
    <2>5. \A x \in Ids \ {id} : Mild(x)
      BY <1>0, <2>3 DEF Mild, Stays
    <2>6. Mild(id)
      BY <1>0, <1>1, <1>2, <2>3, <2>4 DEF Mild, Stays
    <2> QED BY <2>3, <2>5, <2>6
  <1>4. CASE IsWindowFullscreen(v) = v.last
    <2>1. ResizedPlain(id, v, Head(osq[id]))
      BY <1>1, <1>4, Zenon DEF Resized
    <2> DEFINE mine == ~IsWindowFullscreen(v) /\ v.visible
               prog == IF mine THEN None ELSE v.prog
    <2>2. view' = [view EXCEPT ![id] = [v EXCEPT !.prog = prog, !.dirty = ~v.visible]] /\ UNCHANGED c2s
      BY <2>1, Zenon DEF ResizedPlain
    <2> HIDE DEF prog
    <2>3. Same(id)
      BY <1>1, <1>2, <2>2 DEF Same, Shown, View, WindowOf
    <2>4. \A x \in Ids : Asked(x) => Asked(x)'
      BY <2>2 DEF Asked
    <2> QED BY <1>0, <1>1, <1>2, <2>2, <2>3, <2>4, SameMild
  <1> QED BY <1>3, <1>4

\* What the user does makes no window fullscreen by itself but in macOS's way.
LEMMA UserMild ==
    ASSUME Shown, c2s \in Seq(Input), NEW id \in Ids, User(id)
    PROVE  /\ \A x \in Ids : Mild(x)
           /\ NoToggle => NoToggle'
  <1>0. Stays(id)
    BY UserKeeps
  <1>1. PICK v : v = view[id]
    OBVIOUS
  <1>2. v # None /\ v \in View /\ Steady(v)
    BY <1>1 DEF User, ActiveWindows, Shown, AllSteady
  <1>3. UNCHANGED <<gtk_wm, host_chrome_enabled>>
    BY Zenon DEF User, FullscreenShortcut, HostResize, EdgeSnap, NativeToggle,
       TitlebarToggle, app, toplevels
  <1>4. ASSUME NEW w, SetView(id, w), w.fs = v.fs, w.last = v.last PROVE Same(id)
    <2>1. view'[id] = w
      BY <1>4 DEF SetView, Shown
    <2> QED BY <1>1, <1>4, <2>1 DEF Same
  <1>5. UNCHANGED c2s => (\A x \in Ids : Asked(x) => Asked(x)') /\ (NoToggle => NoToggle')
    BY <1>3 DEF Asked, NoToggle
  <1>6. CASE FullscreenShortcut(id)
    <2>1. (~IsWindowFullscreen(v)) \in BOOLEAN /\ SendInput(<<SetFullscreen(id, ~IsWindowFullscreen(v))>>)
      BY <1>1, <1>6 DEF FullscreenShortcut
    <2>2. /\ \A x \in Ids : Asked(x) => Asked(x)'
          /\ (\A i \in 1 .. Len(c2s) : c2s[i].type # "toggle") =>
                 \A i \in 1 .. Len(c2s') : c2s'[i].type # "toggle"
      BY <2>1, AskedNow
    <2>3. Same(id)
      BY <1>6 DEF FullscreenShortcut, Same
    <2> QED BY <1>0, <1>1, <1>2, <1>3, <2>2, <2>3, SameMild DEF NoToggle
  <1>7. CASE HostResize(id)
    <2>1. PICK size \in MinView .. Desktop : SetView(id, RequestInnerSize(v, size))
      BY <1>1, <1>7 DEF HostResize
    <2>2. Alike(v, RequestInnerSize(v, size))
      BY <1>2, <2>1, RequestInnerSizeAlike, Constants
    <2>3. Same(id) /\ UNCHANGED c2s
      BY <1>4, <1>7, <2>1, <2>2 DEF Alike, HostResize
    <2> QED BY <1>0, <1>1, <1>2, <1>5, <2>3, SameMild
  <1>8. CASE EdgeSnap(id)
    <2> DEFINE half == Greatest(Screen \div 2, MinView)
               a == RequestInnerSize(v, half)
               w == [a EXCEPT !.prog = half]
    <2>1. SetView(id, w) /\ UNCHANGED c2s
      BY <1>1, <1>8, Zenon DEF EdgeSnap
    <2>2. half \in Int
      BY Constants DEF Greatest
    <2> HIDE DEF half
    <2>3. Alike(v, a)
      BY <1>2, <2>2, RequestInnerSizeAlike
    <2> HIDE DEF a
    <2>4. Alike(v, w)
      BY <1>2, <2>2, <2>3, ProgAlike
    <2> HIDE DEF w
    <2>5. Same(id)
      BY <1>4, <2>1, <2>4 DEF Alike
    <2> QED BY <1>0, <1>1, <1>2, <1>5, <2>1, <2>5, SameMild
  <1>9. CASE NativeToggle(id)
    <2> DEFINE off == [v EXCEPT !.fs = "no", !.inner = v.saved, !.saved = MinView]
               on == [v EXCEPT !.fs = "native", !.saved = v.inner, !.inner = Screen]
    <2>1. (SetView(id, off) \/ SetView(id, on)) /\ UNCHANGED c2s
      BY <1>1, <1>9, Zenon DEF NativeToggle
    <2>2. /\ off.fs # "simple" /\ off.last = v.last
          /\ on.fs # "simple" /\ on.last = v.last
      BY <1>2 DEF View, WindowOf
    <2> HIDE DEF on, off
    <2>3. view'[id] \in {on, off}
      BY <2>1 DEF SetView, Shown
    <2>4. \A x \in Ids \ {id} : Mild(x)
      BY <1>0, <1>5, <2>1 DEF Mild, Stays
    <2>5. Mild(id)
      BY <1>0, <1>1, <1>2, <1>5, <2>1, <2>2, <2>3 DEF Mild, Stays
    <2> QED BY <1>5, <2>1, <2>4, <2>5
  <1>10. CASE TitlebarToggle(id)
    <2> DEFINE back == [v EXCEPT !.inner = v.saved, !.saved = MinView]
               zoom == [v EXCEPT !.saved = v.inner, !.inner = Desktop]
               m == [type |-> "toggle", id |-> id]
    <2>1. /\ ~host_chrome_enabled /\ (SetView(id, back) \/ SetView(id, zoom))
          /\ SendInput(<<m>>)
      BY <1>1, <1>10, Zenon DEF TitlebarToggle
    <2>2. /\ back.fs = v.fs /\ back.last = v.last
          /\ zoom.fs = v.fs /\ zoom.last = v.last
      BY <1>2 DEF View, WindowOf
    <2> HIDE DEF back, zoom
    <2>3. Same(id)
      BY <1>4, <2>1, <2>2
    <2>4. m \in Input
      BY DEF Input
    <2> HIDE DEF m
    <2>5. PICK msgs : msgs = <<m>> /\ msgs \in Seq(Input) /\ c2s' = c2s \o msgs
      <3>1. <<m>> \in Seq(Input) /\ c2s' = c2s \o <<m>>
        BY <2>1, <2>4 DEF SendInput
      <3> QED BY <3>1
    <2>6. \A x \in Ids : Asked(x) => Asked(x)'
      BY <2>5, AskedMore
    <2>7. ~host_chrome_enabled
      BY <1>10 DEF TitlebarToggle
    <2> QED BY <1>0, <1>1, <1>2, <1>3, <2>3, <2>6, <2>7, SameMild DEF NoToggle
  <1> QED BY <1>6, <1>7, <1>8, <1>9, <1>10 DEF User

\* The requests of flush_due_remote_resizes are resizes.
LEMMA ResizesOnly ==
    ASSUME NEW ids, NEW size, NEW a \in InSomeOrder(Resizes(ids, size)), a \in Seq(Input)
    PROVE  \A i \in 1 .. Len(a) : a[i].type = "resize"
  <1> DEFINE f == Resizes(ids, size)
             n == Cardinality(DOMAIN f)
  <1>1. \A id \in DOMAIN f : f[id].type = "resize"
    BY DEF Resizes
  <1>2. PICK order \in [1 .. n -> DOMAIN f] : a = [i \in DOMAIN order |-> f[order[i]]]
    BY DEF InSomeOrder
  <1> HIDE DEF f, n
  <1>3. \A i \in DOMAIN a : a[i].type = "resize"
    BY <1>1, <1>2
  <1> QED BY <1>3

\* flush_due_remote_resizes.
LEMMA FlushMild ==
    ASSUME IndInv, FlushDue
    PROVE  /\ \A x \in Ids : Mild(x)
           /\ NoToggle => NoToggle'
  <1>1. PICK x \in SUBSET pending_fullscreen_exit_resyncs,
             r \in SUBSET {id \in Ids : pending_resizes[id] # None},
             h \in SUBSET pending_host_resize_resyncs : FlushDueResizes(x, r, h)
    BY DEF FlushDue
  <1> DEFINE request == [id \in Ids |-> ResizeRequest(view[id])]
             exits == Resizes(x, request)
             ready == Resizes(r, pending_resizes)
  <1>2. PICK a \in InSomeOrder(exits), b \in InSomeOrder(ready) : SendInput(a \o b)
    BY <1>1, Zenon DEF FlushDueResizes
  <1>3. TimerTypes /\ x \in SUBSET Ids /\ r \in SUBSET Ids /\ Shown
    BY <1>1, Parts DEF IndInv, TimerTypes
  <1>4. request \in [Ids -> Int \cup {None}]
    BY ResizeRequestType DEF IndInv, ViewTypes
  <1> HIDE DEF request
  <1>5. a \in Seq(Input) /\ \A i \in 1 .. Len(a) : a[i].type = "resize"
    <2>1. a \in Seq(Input)
      BY <1>3, <1>4, <1>2, ResizesType, InSomeOrderType
    <2> QED BY <1>2, <2>1, ResizesOnly
  <1>6. b \in Seq(Input) /\ \A i \in 1 .. Len(b) : b[i].type = "resize"
    <2>1. b \in Seq(Input)
      BY <1>3, <1>2, ResizesType, InSomeOrderType DEF TimerTypes
    <2> QED BY <1>2, <2>1, ResizesOnly
  <1> HIDE DEF exits, ready
  <1>7. PICK msgs : msgs = a \o b
    OBVIOUS
  <1>8. msgs \in Seq(Input) /\ \A i \in 1 .. Len(msgs) : msgs[i].type # "toggle"
    <2>1. /\ msgs \in Seq(Input) /\ Len(msgs) = Len(a) + Len(b)
          /\ \A i \in 1 .. Len(a) : msgs[i] = a[i]
          /\ \A i \in Len(a) + 1 .. Len(a) + Len(b) : msgs[i] = b[i - Len(a)]
      BY <1>5, <1>6, <1>7
    <2>2. Len(a) \in Nat /\ Len(b) \in Nat
      BY <1>5, <1>6
    <2>3. ASSUME NEW i \in 1 .. Len(msgs) PROVE msgs[i].type # "toggle"
      <3>1. CASE i \in 1 .. Len(a)
        BY <1>5, <2>1, <3>1
      <3>2. CASE i \in Len(a) + 1 .. Len(a) + Len(b)
        <4>1. i - Len(a) \in 1 .. Len(b)
          BY <2>2, <3>2
        <4> QED BY <1>6, <2>1, <3>2, <4>1
      <3> QED BY <2>1, <2>2, <3>1, <3>2
    <2> QED BY <2>1, <2>3
  <1>9. c2s \in Seq(Input) /\ c2s' = c2s \o msgs
    BY <1>2, <1>3, <1>7 DEF SendInput, TimerTypes
  <1>10. /\ \A y \in Ids : Asked(y) => Asked(y)'
         /\ (\A i \in 1 .. Len(c2s) : c2s[i].type # "toggle") =>
                 \A i \in 1 .. Len(c2s') : c2s'[i].type # "toggle"
    BY <1>8, <1>9, AskedMore
  <1>11. UNCHANGED <<gtk_wm, host_chrome_enabled>>
    BY DEF FlushDue, app, toplevels
  <1>12. \A y \in Ids : Mild(y)
    <2>1. /\ \A y \in Ids : view'[y] = None <=> view[y] = None
          /\ \A y \in Ids : view[y] # None => Same(y)
      BY <1>3, FlushKeeps
    <2> QED BY <1>10, <2>1 DEF Mild, Same
  <1> QED BY <1>10, <1>11, <1>12 DEF NoToggle

-----------------------------------------------------------------------------
(* The compositor's side of it.                                            *)

\* Nothing is said of the state of window id, which is as it was, or with the
\* guest's own chrome has been left.
ModeKept(id) ==
    /\ \E msgs \in Seq(Says(id)) :
          s2c' = s2c \o msgs /\ \A i \in 1 .. Len(msgs) : msgs[i].type # "fullscreen"
    /\ Fullscreen(windows'[id]) => Fullscreen(windows[id])
    /\ host_chrome_enabled /\ Fullscreen(windows[id]) => Fullscreen(windows'[id])

\* The new state is said.
ModeSaid(id) ==
    \E on \in BOOLEAN :
        /\ s2c' = s2c \o <<FullscreenChanged(id, on)>>
        /\ Fullscreen(windows'[id]) => on
        /\ host_chrome_enabled /\ on => Fullscreen(windows'[id])

\* A step that is quiet about the mode keeps what was heard.
LEMMA KeptHeard ==
    ASSUME s2c \in Seq(Event), NEW id \in Ids, Heard(id), NEW msgs \in Seq(Event),
           s2c' = s2c \o msgs, UNCHANGED <<view, host_chrome_enabled>>,
           \A i \in 1 .. Len(msgs) : msgs[i].id = id => msgs[i].type # "fullscreen",
           Fullscreen(windows'[id]) => Fullscreen(windows[id]),
           host_chrome_enabled /\ Fullscreen(windows[id]) => Fullscreen(windows'[id]),
           Asked(id) => Asked(id)'
    PROVE  Heard(id)'
  <1> DEFINE n == Len(s2c)
             k == Len(msgs)
  <1>1. /\ n \in Nat /\ k \in Nat /\ Len(s2c') = n + k
        /\ \A i \in 1 .. n : s2c'[i] = s2c[i]
        /\ \A i \in n + 1 .. n + k : s2c'[i] = msgs[i - n] /\ i - n \in 1 .. k
    OBVIOUS
  <1>2. \A i \in n + 1 .. n + k : s2c'[i].id = id => s2c'[i].type # "fullscreen"
    BY <1>1
  <1> HIDE DEF n, k
  <1>3. ASSUME NEW i \in 1 .. Len(s2c'), LastSaid(s2c', id, i)
        PROVE  i \in 1 .. n /\ LastSaid(s2c, id, i)
    <2>1. i \in 1 .. n
      BY <1>1, <1>2, <1>3 DEF LastSaid
    <2> QED BY <1>1, <1>3, <2>1 DEF LastSaid, n
  <1>4. Unsaid(s2c', id) => Unsaid(s2c, id)
    BY <1>1 DEF Unsaid, n
  <1>5. \A i \in 1 .. Len(s2c') : LastSaid(s2c', id, i) =>
          /\ Fullscreen(windows'[id]) => s2c'[i].on
          /\ host_chrome_enabled' /\ s2c'[i].on => Fullscreen(windows'[id])
    BY <1>1, <1>3 DEF Heard, n
  <1>6. Unsaid(s2c', id) =>
          /\ Fullscreen(windows'[id]) => view'[id] # None /\ (view'[id].last \/ Asked(id)')
          /\ host_chrome_enabled' /\ view'[id] # None /\ view'[id].fs = "simple" =>
                Fullscreen(windows'[id])
    BY <1>4 DEF Heard
  <1> QED BY <1>5, <1>6 DEF Heard, Fullscreen, LastSaid, Unsaid

\* A step that says the mode.
LEMMA SaidHeard ==
    ASSUME s2c \in Seq(Event), NEW id \in Ids, ModeSaid(id), UNCHANGED <<view, host_chrome_enabled>>
    PROVE  Heard(id)'
  <1>1. PICK on \in BOOLEAN :
              /\ s2c' = s2c \o <<FullscreenChanged(id, on)>>
              /\ Fullscreen(windows'[id]) => on
              /\ host_chrome_enabled /\ on => Fullscreen(windows'[id])
    BY DEF ModeSaid
  <1>2. PICK e : e = FullscreenChanged(id, on)
    OBVIOUS
  <1>3. e \in Event /\ e.type = "fullscreen" /\ e.id = id /\ e.on = on
    BY <1>2 DEF FullscreenChanged, Event
  <1> DEFINE n == Len(s2c)
  <1>4. n \in Nat /\ Len(s2c') = n + 1 /\ s2c'[n + 1] = e
    BY <1>1, <1>2, <1>3
  <1> HIDE DEF n
  <1>5. \A i \in 1 .. Len(s2c') : LastSaid(s2c', id, i) => i = n + 1
    BY <1>3, <1>4 DEF LastSaid
  <1>6. ~Unsaid(s2c', id)
    BY <1>3, <1>4 DEF Unsaid
  <1>7. \A i \in 1 .. Len(s2c') : LastSaid(s2c', id, i) =>
          /\ Fullscreen(windows'[id]) => s2c'[i].on
          /\ host_chrome_enabled' /\ s2c'[i].on => Fullscreen(windows'[id])
    BY <1>1, <1>3, <1>4, <1>5
  <1> QED BY <1>6, <1>7 DEF Heard, Fullscreen, LastSaid, Unsaid

\* A configure sets the mode it is given.
LEMMA ConfigureMode ==
    ASSUME NEW w \in Remote, NEW size \in Int, NEW mode \in Mode
    PROVE  Configure(w, size, mode).mode = mode /\ Enter(w, mode).mode = mode
  <1>1. ASSUME NEW s \in Int
        PROVE  Configure(w, s, mode) \in Remote /\ Configure(w, s, mode).mode = mode
    <2> DEFINE r == IF mode = "normal" THEN 1 ELSE w.restore
    <2>1. Configure(w, s, mode) =
             [w EXCEPT !.ask = s, !.mode = mode, !.due = TRUE, !.restore = r]
      BY DEF Configure
    <2>2. r \in Int
      BY DEF Remote
    <2> HIDE DEF r
    <2> QED BY <2>1, <2>2 DEF Remote
  <1>2. PICK c : c = Configure(w, Screen, mode)
    OBVIOUS
  <1>3. c \in Remote /\ c.mode = mode
    BY <1>1, <1>2, Constants
  <1>4. Enter(w, mode) =
             [c EXCEPT !.restore = IF w.mode = mode THEN c.restore ELSE RestoreSize(w.size)]
    BY <1>2 DEF Enter
  <1>5. Enter(w, mode).mode = mode
    BY <1>3, <1>4 DEF Remote
  <1> QED BY <1>1, <1>5

\* Nothing is said.
LEMMA SilentKept ==
    ASSUME s2c \in Seq(Event), NEW id \in Ids, UNCHANGED s2c \/ Emit(<<>>),
           Fullscreen(windows'[id]) => Fullscreen(windows[id]),
           host_chrome_enabled /\ Fullscreen(windows[id]) => Fullscreen(windows'[id])
    PROVE  ModeKept(id)
  <1>1. PICK msgs : msgs = <<>>
    OBVIOUS
  <1>2. msgs \in Seq(Says(id)) /\ s2c' = s2c \o msgs /\ 1 .. Len(msgs) = {}
    BY <1>1 DEF Emit
  <1> QED BY <1>2 DEF ModeKept

\* The requests, by what they say of the mode.
LEMMA RequestModes ==
    ASSUME ServerTypes, NEW id \in Ids, windows[id] # None
    PROVE  /\ \A size \in Int : RequestWindowResize(id, size) => ModeKept(id) \/ ModeSaid(id)
           /\ RequestWindowMaximize(id) /\ ~host_chrome_enabled => ModeKept(id)
           /\ \A suppress \in BOOLEAN : RequestWindowUnmaximize(id, suppress) => ModeKept(id)
           /\ RequestWindowFullscreen(id) => ModeSaid(id)
           /\ \A suppress \in BOOLEAN : RequestWindowUnfullscreen(id, suppress) =>
                 ModeSaid(id) \/ (suppress /\ ModeKept(id))
  <1>0. PICK w : w = windows[id]
    OBVIOUS
  <1>1. /\ w \in Remote /\ w # None /\ w.restore \in Int /\ s2c \in Seq(Event)
        /\ {"normal", "maximized", "fullscreen"} \subseteq Mode
    BY <1>0 DEF ServerTypes, Mode, Remote
  <1>2. \A u : Update(id, u) => windows'[id] = u
    BY DEF Update, ServerTypes
  <1>3. \A size \in Int : Configure(w, size, "normal").mode = "normal"
    BY <1>1, ConfigureMode
  <1>4. Enter(w, "maximized").mode = "maximized" /\ Enter(w, "fullscreen").mode = "fullscreen"
    <2>1. Screen \in Int
      BY Constants
    <2> QED BY <1>1, <2>1, ConfigureMode
  <1>5. [w EXCEPT !.moved = FALSE].mode = w.mode
    BY <1>1 DEF Remote
  <1>6. ASSUME NEW size \in Int, RequestWindowResize(id, size) PROVE ModeKept(id) \/ ModeSaid(id)
    <2>1. \/ UNCHANGED <<windows, s2c>>
          \/ /\ Update(id, Configure(w, size, "normal")) /\ Fullscreen(w)
             /\ Emit(<<FullscreenChanged(id, FALSE)>>)
          \/ /\ Update(id, Configure(w, size, "normal")) /\ ~Fullscreen(w)
             /\ Emit(<<>>)
      BY <1>0, <1>6, Zenon DEF RequestWindowResize
    <2>2. CASE UNCHANGED <<windows, s2c>>
      BY <1>1, <2>2, SilentKept
    <2>3. CASE /\ Update(id, Configure(w, size, "normal")) /\ Fullscreen(w)
               /\ Emit(<<FullscreenChanged(id, FALSE)>>)
      <3>1. ~Fullscreen(windows'[id])
        BY <1>2, <1>3, <2>3 DEF Fullscreen
      <3> QED BY <2>3, <3>1 DEF ModeSaid, Emit
    <2>4. CASE Update(id, Configure(w, size, "normal")) /\ ~Fullscreen(w) /\ Emit(<<>>)
      <3>1. ~Fullscreen(windows'[id]) /\ ~Fullscreen(windows[id])
        BY <1>0, <1>2, <1>3, <2>4 DEF Fullscreen
      <3> QED BY <1>1, <2>4, <3>1, SilentKept
    <2> QED BY <2>1, <2>2, <2>3, <2>4
  <1>7. ASSUME RequestWindowMaximize(id), ~host_chrome_enabled PROVE ModeKept(id)
    <2>1. (UNCHANGED windows \/ Update(id, Enter(w, "maximized"))) /\ UNCHANGED s2c
      BY <1>0, <1>7, Zenon DEF RequestWindowMaximize
    <2>2. Fullscreen(windows'[id]) => Fullscreen(windows[id])
      BY <1>2, <1>4, <2>1 DEF Fullscreen
    <2> QED BY <1>1, <1>7, <2>1, <2>2, SilentKept
  <1>8. ASSUME NEW suppress \in BOOLEAN, RequestWindowUnmaximize(id, suppress) PROVE ModeKept(id)
    <2>1. /\ \/ UNCHANGED windows
             \/ Update(id, Configure(w, w.restore, "normal")) /\ Maximized(w)
             \/ Update(id, [w EXCEPT !.moved = FALSE])
          /\ UNCHANGED s2c
      BY <1>0, <1>8, Zenon DEF RequestWindowUnmaximize
    <2>2. Fullscreen(windows'[id]) <=> Fullscreen(windows[id])
      BY <1>0, <1>1, <1>2, <1>3, <1>5, <2>1 DEF Fullscreen, Maximized
    <2> QED BY <1>1, <2>1, <2>2, SilentKept
  <1>9. ASSUME RequestWindowFullscreen(id) PROVE ModeSaid(id)
    <2>1. /\ (UNCHANGED windows /\ Fullscreen(w)) \/ Update(id, Enter(w, "fullscreen"))
          /\ Emit(<<FullscreenChanged(id, TRUE)>>)
      BY <1>0, <1>1, <1>9, Zenon DEF RequestWindowFullscreen
    <2>2. Fullscreen(windows'[id])
      BY <1>0, <1>2, <1>4, <2>1 DEF Fullscreen
    <2> QED BY <2>1, <2>2 DEF ModeSaid, Emit
  <1>10. ASSUME NEW suppress \in BOOLEAN, RequestWindowUnfullscreen(id, suppress)
         PROVE  ModeSaid(id) \/ (suppress /\ ModeKept(id))
    <2>1. \/ suppress /\ Update(id, [w EXCEPT !.moved = FALSE]) /\ UNCHANGED s2c
          \/ /\ Update(id, Configure(w, w.restore, "normal"))
             /\ Emit(<<FullscreenChanged(id, FALSE)>>)
          \/ UNCHANGED windows /\ ~Fullscreen(w) /\ Emit(<<FullscreenChanged(id, FALSE)>>)
      BY <1>0, <1>1, <1>10, Zenon DEF RequestWindowUnfullscreen
    <2>2. CASE suppress /\ Update(id, [w EXCEPT !.moved = FALSE]) /\ UNCHANGED s2c
      <3>1. Fullscreen(windows'[id]) <=> Fullscreen(windows[id])
        BY <1>0, <1>2, <1>5, <2>2 DEF Fullscreen
      <3> QED BY <1>1, <2>2, <3>1, SilentKept
    <2>3. CASE /\ \/ Update(id, Configure(w, w.restore, "normal"))
                  \/ UNCHANGED windows /\ ~Fullscreen(w)
               /\ Emit(<<FullscreenChanged(id, FALSE)>>)
      <3>1. ~Fullscreen(windows'[id])
        BY <1>0, <1>1, <1>2, <1>3, <2>3 DEF Fullscreen
      <3> QED BY <2>3, <3>1 DEF ModeSaid, Emit
    <2> QED BY <2>1, <2>2, <2>3
  <1> QED BY <1>6, <1>7, <1>8, <1>9, <1>10

\* What is said of one window says nothing of another, and announces none.
LEMMA TellHeard ==
    ASSUME ServerTypes, NEW id \in Ids, windows[id] # None, Tells(id),
           ModeKept(id) \/ ModeSaid(id),
           UNCHANGED <<view, next_window_id, host_chrome_enabled, exited>>,
           \A x \in Ids \ {id} : Asked(x) => Asked(x)',
           ModeSaid(id) \/ (Asked(id) => Asked(id)'),
           AllHeard, Once
    PROVE  AllHeard' /\ Once'
  <1>1. PICK w \in Remote, msgs \in Seq(Says(id)) :
            windows' = [windows EXCEPT ![id] = w] /\ s2c' = s2c \o msgs
    BY DEF Tells
  <1>2. s2c \in Seq(Event) /\ msgs \in Seq(Event)
    BY DEF ServerTypes, Says
  <1>3. \A i \in 1 .. Len(msgs) : msgs[i].id = id /\ msgs[i].type # "created"
    <2>1. \A i \in 1 .. Len(msgs) : msgs[i] \in Says(id)
      BY <1>1
    <2> QED BY <2>1 DEF Says
  <1>4. ASSUME ~exited, NEW x \in Ids \ {id}, windows'[x] # None PROVE Heard(x)'
    <2>1. windows'[x] = windows[x] /\ Heard(x)
      BY <1>1, <1>4 DEF ServerTypes, AllHeard
    <2>2. \A i \in 1 .. Len(msgs) : msgs[i].id = x => msgs[i].type # "fullscreen"
      BY <1>3
    <2> QED BY <1>1, <1>2, <2>1, <2>2, KeptHeard
  <1>5. ASSUME ~exited PROVE Heard(id)'
    <2>0. Heard(id)
      BY <1>5 DEF AllHeard
    <2>1. CASE ModeSaid(id)
      BY <1>2, <2>1, SaidHeard
    <2>2. CASE ModeKept(id) /\ ~ModeSaid(id)
      <3>1. PICK news \in Seq(Says(id)) :
              s2c' = s2c \o news /\ \A i \in 1 .. Len(news) : news[i].type # "fullscreen"
        BY <2>2 DEF ModeKept
      <3>2. /\ Fullscreen(windows'[id]) => Fullscreen(windows[id])
            /\ host_chrome_enabled /\ Fullscreen(windows[id]) => Fullscreen(windows'[id])
        BY <2>2 DEF ModeKept
      <3>3. news \in Seq(Event)
        BY DEF Says
      <3> QED BY <1>2, <2>0, <2>2, <3>1, <3>2, <3>3, KeptHeard
    <2> QED BY <2>1, <2>2
  <1>6. Once'
    <2> DEFINE n == Len(s2c)
    <2>1. /\ n \in Nat /\ \A i \in 1 .. n : s2c'[i] = s2c[i]
          /\ \A i \in 1 .. Len(s2c') : s2c'[i].type = "created" => i \in 1 .. n
      <3>1. /\ n \in Nat /\ Len(msgs) \in Nat /\ Len(s2c') = n + Len(msgs)
            /\ \A i \in 1 .. n : s2c'[i] = s2c[i]
            /\ \A i \in n + 1 .. n + Len(msgs) : s2c'[i] = msgs[i - n] /\ i - n \in 1 .. Len(msgs)
        BY <1>1, <1>2
      <3> HIDE DEF n
      <3> QED BY <1>3, <3>1
    <2> HIDE DEF n
    <2> QED BY <2>1 DEF Once, n
  <1>7. AllHeard'
    BY <1>4, <1>5 DEF AllHeard
  <1> QED BY <1>6, <1>7

\* A buffer says nothing of the mode.
LEMMA BufferKept ==
    ASSUME ServerTypes, NEW id \in Ids, windows[id] # None, NEW w \in Remote,
           w.mode = windows[id].mode, NEW size \in Int, RootBuffer(id, w, size)
    PROVE  ModeKept(id)
  <1> DEFINE c == [type |-> "configured", id |-> id, size |-> size]
             t == [type |-> "tile", id |-> id, size |-> size]
  <1>1. c \in Says(id) /\ t \in Says(id) /\ c.type # "fullscreen" /\ t.type # "fullscreen"
    BY DEF Says, Event
  <1>2. /\ Update(id, [w EXCEPT !.size = size])
        /\ Emit(<<>> \o <<t>>) \/ Emit(<<c>> \o <<t>>)
    BY Zenon DEF RootBuffer
  <1> HIDE DEF c, t
  <1>3. \E msgs \in Seq(Says(id)) :
          s2c' = s2c \o msgs /\ \A i \in 1 .. Len(msgs) : msgs[i].type # "fullscreen"
    <2>1. CASE Emit(<<>> \o <<t>>)
      <3>1. PICK msgs : msgs = <<>> \o <<t>>
        OBVIOUS
      <3>2. msgs \in Seq(Says(id)) /\ Len(msgs) = 1 /\ msgs[1] = t /\ s2c' = s2c \o msgs
        BY <1>1, <2>1, <3>1 DEF Emit
      <3>3. \A i \in 1 .. Len(msgs) : i = 1
        BY <3>2
      <3>4. \A i \in 1 .. Len(msgs) : msgs[i].type # "fullscreen"
        BY <1>1, <3>2, <3>3
      <3> QED BY <3>2, <3>4
    <2>2. CASE Emit(<<c>> \o <<t>>)
      <3>1. PICK msgs : msgs = <<c>> \o <<t>>
        OBVIOUS
      <3>2. msgs \in Seq(Says(id)) /\ Len(msgs) = 2 /\ msgs[1] = c /\ msgs[2] = t
            /\ s2c' = s2c \o msgs
        BY <1>1, <2>2, <3>1 DEF Emit
      <3>3. \A i \in 1 .. Len(msgs) : i = 1 \/ i = 2
        BY <3>2
      <3>4. \A i \in 1 .. Len(msgs) : msgs[i].type # "fullscreen"
        BY <1>1, <3>2, <3>3
      <3> QED BY <3>2, <3>4
    <2> QED BY <1>2, <2>1, <2>2
  <1>4. windows'[id].mode = windows[id].mode
    <2>1. [w EXCEPT !.size = size].mode = w.mode
      BY DEF Remote
    <2>2. windows'[id] = [w EXCEPT !.size = size]
      BY <1>2 DEF Update, ServerTypes
    <2> QED BY <2>1, <2>2
  <1> QED BY <1>3, <1>4 DEF ModeKept, Fullscreen

\* The application's answer does not change the mode.
LEMMA AnswerKept ==
    ASSUME ServerTypes, NEW id \in Ids, GuestConfigure(id)
    PROVE  ModeKept(id)
  <1> DEFINE w == windows[id]
             done == [w EXCEPT !.due = FALSE, !.ask = 0]
  <1>1. w # None /\ w \in Remote /\ w.ask \in Int
    BY DEF GuestConfigure, ServerTypes, Remote
  <1>2. done \in Remote /\ done.mode = w.mode
    <2>1. FALSE \in BOOLEAN /\ 0 \in Int
      OBVIOUS
    <2>2. done \in Remote
      BY <1>1, <2>1, DoneType, Zenon
    <2>3. done.mode = w.mode
      <3> HIDE DEF w
      <3> QED BY <1>1 DEF Remote
    <2> QED BY <2>2, <2>3
  <1>3. \E size \in IF w.ask = 0 THEN {MinGuest, Screen} ELSE {Greatest(w.ask, MinGuest)} :
              \/ RootBuffer(id, done, size)
              \/ size = w.size /\ Update(id, done) /\ UNCHANGED s2c
    BY Zenon DEF GuestConfigure
  <1> HIDE DEF done
  <1>4. PICK size \in Int : RootBuffer(id, done, size) \/ (Update(id, done) /\ UNCHANGED s2c)
    <2> HIDE DEF w
    <2> QED BY <1>1, <1>3, Constants DEF Greatest
  <1>5. CASE RootBuffer(id, done, size)
    BY <1>1, <1>2, <1>5, BufferKept
  <1>6. CASE Update(id, done) /\ UNCHANGED s2c
    <2>1. windows'[id] = done
      BY <1>6 DEF Update, ServerTypes
    <2>2. Fullscreen(windows'[id]) <=> Fullscreen(windows[id])
      BY <1>2, <2>1 DEF Fullscreen
    <2> QED BY <1>6, <2>2, SilentKept DEF ServerTypes
  <1> QED BY <1>4, <1>5, <1>6

\* A move, or the end of its grace.
LEMMA MovedKept ==
    ASSUME ServerTypes, NEW id \in Ids, windows[id] # None, NEW moved \in BOOLEAN,
           Update(id, [windows[id] EXCEPT !.moved = moved]), UNCHANGED s2c
    PROVE  ModeKept(id)
  <1>0. PICK w : w = windows[id]
    OBVIOUS
  <1>1. w \in Remote
    BY <1>0 DEF ServerTypes
  <1>2. windows'[id] = [w EXCEPT !.moved = moved]
    BY <1>0 DEF Update, ServerTypes
  <1>3. windows'[id].mode = w.mode
    BY <1>1, <1>2 DEF Remote
  <1>4. Fullscreen(windows'[id]) <=> Fullscreen(windows[id])
    BY <1>0, <1>3 DEF Fullscreen
  <1> QED BY <1>4, SilentKept DEF ServerTypes

\* The compositor takes the viewer's next event.
LEMMA TakenAsked ==
    ASSUME c2s \in Seq(Input), c2s # <<>>, c2s' = Tail(c2s)
    PROVE  /\ \A x \in Ids : Asked(x) => \/ Asked(x)'
                                         \/ Head(c2s).type = "fullscreen" /\ Head(c2s).id = x
           /\ NoToggle /\ UNCHANGED <<host_chrome_enabled, gtk_wm>> =>
                 NoToggle' /\ (host_chrome_enabled => Head(c2s).type # "toggle")
  <1> DEFINE n == Len(c2s)
             h == Head(c2s)
  <1>1. /\ n \in Nat \ {0} /\ Len(c2s') = n - 1 /\ h = c2s[1]
        /\ \A i \in 1 .. n - 1 : c2s'[i] = c2s[i + 1] /\ i + 1 \in 1 .. n
        /\ \A i \in 2 .. n : c2s'[i - 1] = c2s[i] /\ i - 1 \in 1 .. n - 1
    OBVIOUS
  <1> HIDE DEF n, h
  <1>2. ASSUME NEW x \in Ids, Asked(x), ~(h.type = "fullscreen" /\ h.id = x) PROVE Asked(x)'
    <2>1. PICK i \in 1 .. n : c2s[i].type = "fullscreen" /\ c2s[i].id = x
      BY <1>2 DEF Asked, n
    <2>2. i \in 2 .. n
      BY <1>1, <1>2, <2>1
    <2> QED BY <1>1, <2>1, <2>2 DEF Asked
  <1>3. ASSUME NoToggle, UNCHANGED <<host_chrome_enabled, gtk_wm>>
        PROVE  NoToggle' /\ (host_chrome_enabled => h.type # "toggle")
    BY <1>1, <1>3 DEF NoToggle, n
  <1> QED BY <1>2, <1>3 DEF h

\* handle_input_event: a request for a fullscreen state is always answered.
LEMMA HandleInputModes ==
    ASSUME ModeInv, HandleInput
    PROVE  Once' /\ NoToggle' /\ AllHeard'
  <1> DEFINE m == Head(c2s)
  <1>1. m \in Input /\ c2s \in Seq(Input) /\ c2s # <<>> /\ c2s' = Tail(c2s)
    BY DEF ModeInv, IndInv, TimerTypes, HandleInput
  <1>2. ServerTypes /\ Once /\ NoToggle /\ AllHeard
    BY DEF ModeInv, IndInv
  <1>3. /\ \/ m.type = "resize" /\ RequestWindowResize(m.id, m.size)
           \/ m.type = "toggle" /\ ToggleWindowMaximize(m.id)
           \/ m.type = "fullscreen" /\ SetWindowFullscreen(m.id, m.on)
        /\ UNCHANGED <<next_window_id, view, exited, gtk_wm, host_chrome_enabled>>
    BY Zenon DEF HandleInput, app
  <1>4. /\ \A x \in Ids : Asked(x) => Asked(x)' \/ (m.type = "fullscreen" /\ m.id = x)
        /\ NoToggle' /\ (host_chrome_enabled => m.type # "toggle")
    BY <1>1, <1>2, <1>3, TakenAsked
  <1> HIDE DEF m
  <1>5. /\ m.id \in Ids /\ (m.type = "resize" => m.size \in Int)
        /\ (m.type = "fullscreen" => m.on \in BOOLEAN)
    BY <1>1, InputFields
  <1>6. CASE windows[m.id] = None
    <2>1. UNCHANGED <<windows, s2c>>
      BY <1>3, <1>6, GoneIgnored
    <2>2. Once'
      BY <1>2, <1>3, <2>1 DEF Once
    <2>3. ASSUME ~exited', NEW x \in Ids, windows'[x] # None PROVE Heard(x)'
      <3>1. Heard(x) /\ x # m.id
        BY <1>2, <1>3, <1>6, <2>1, <2>3 DEF AllHeard
      <3>2. Mild(x)
        BY <1>3, <1>4, <3>1 DEF Mild
      <3> QED BY <1>3, <2>1, <3>1, <3>2, MildHeard
    <2> QED BY <1>4, <2>2, <2>3 DEF AllHeard
  <1>7. CASE windows[m.id] # None
    <2>1. Tells(m.id)
      BY <1>2, <1>3, <1>5, <1>7, ResizeTells, MaximizeTells, UnmaximizeTells,
         FullscreenTells, UnfullscreenTells
         DEF ToggleWindowMaximize, SetWindowFullscreen
    <2>2. (ModeKept(m.id) \/ ModeSaid(m.id)) /\ (m.type = "fullscreen" => ModeSaid(m.id))
      <3>1. CASE m.type = "resize" /\ RequestWindowResize(m.id, m.size)
        BY <1>2, <1>5, <1>7, <3>1, RequestModes
      <3>2. CASE m.type = "toggle" /\ ToggleWindowMaximize(m.id)
        <4>1. RequestWindowUnmaximize(m.id, FALSE) \/ RequestWindowMaximize(m.id)
          BY <3>2 DEF ToggleWindowMaximize
        <4> QED BY <1>2, <1>4, <1>5, <1>7, <3>2, <4>1, RequestModes
      <3>3. CASE m.type = "fullscreen" /\ SetWindowFullscreen(m.id, m.on)
        <4>1. RequestWindowFullscreen(m.id) \/ RequestWindowUnfullscreen(m.id, FALSE)
          BY <3>3 DEF SetWindowFullscreen
        <4> QED BY <1>2, <1>5, <1>7, <3>3, <4>1, RequestModes
      <3> QED BY <1>3, <3>1, <3>2, <3>3
    <2> QED BY <1>2, <1>3, <1>4, <1>5, <1>7, <2>1, <2>2, TellHeard
  <1> QED BY <1>6, <1>7

\* toplevel_destroyed: the window that goes has no mode.
LEMMA DestroyedModes ==
    ASSUME ServerTypes, NEW id \in Ids, ToplevelDestroyed(id), Once, AllHeard,
           UNCHANGED <<view, exited, host_chrome_enabled, c2s>>
    PROVE  Once' /\ AllHeard'
  <1>1. PICK e : e = [type |-> "destroyed", id |-> id]
    OBVIOUS
  <1>2. e \in Event /\ e.type = "destroyed" /\ e.id = id
    BY <1>1 DEF Event
  <1>3. PICK msgs : msgs = <<e>>
    OBVIOUS
  <1>4. /\ msgs \in Seq(Event) /\ Len(msgs) = 1 /\ msgs[1] = e
        /\ s2c \in Seq(Event) /\ s2c' = s2c \o msgs /\ UNCHANGED next_window_id
        /\ windows' = [windows EXCEPT ![id] = None]
    BY <1>1, <1>2, <1>3 DEF ToplevelDestroyed, Emit, Update, ServerTypes
  <1>5. \A i \in 1 .. Len(msgs) : msgs[i].type = "destroyed"
    BY <1>2, <1>4
  <1>6. ASSUME ~exited', NEW x \in Ids, windows'[x] # None PROVE Heard(x)'
    <2>1. x # id /\ windows'[x] = windows[x]
      BY <1>4, <1>6 DEF ServerTypes
    <2>2. Heard(x)
      BY <1>6, <2>1 DEF AllHeard
    <2>3. Asked(x) => Asked(x)'
      BY DEF Asked
    <2> QED BY <1>4, <1>5, <2>1, <2>2, <2>3, KeptHeard
  <1>7. Once'
    <2> DEFINE n == Len(s2c)
    <2>1. /\ n \in Nat /\ Len(s2c') = n + 1 /\ s2c'[n + 1] = e
          /\ \A i \in 1 .. n : s2c'[i] = s2c[i]
      BY <1>1, <1>2, <1>3, <1>4
    <2> HIDE DEF n
    <2>2. \A i \in 1 .. Len(s2c') : s2c'[i].type = "created" => i \in 1 .. n
      BY <1>2, <2>1
    <2> QED BY <1>4, <2>1, <2>2 DEF Once, n
  <1> QED BY <1>6, <1>7 DEF AllHeard

\* new_toplevel: nothing has been said of a window that is not shown yet, and
\* it is not fullscreen.
LEMMA NewToplevelModes ==
    ASSUME ServerTypes, FreshIds, NewToplevel, Once, AllHeard,
           UNCHANGED <<view, exited, host_chrome_enabled, c2s>>
    PROVE  Once' /\ AllHeard'
  <1>0. PICK id : id = next_window_id
    OBVIOUS
  <1>1. PICK e : e = [type |-> "created", id |-> id]
    OBVIOUS
  <1>2. PICK w : w = [size |-> 1, mode |-> "normal", restore |-> 1, moved |-> FALSE,
                      ask |-> 0, due |-> TRUE]
    OBVIOUS
  <1>3. /\ id \in Ids /\ next_window_id' = id + 1
        /\ windows' = [windows EXCEPT ![id] = w] /\ s2c' = s2c \o <<e>>
    BY <1>0, <1>1, <1>2, Zenon DEF NewToplevel, Update, Emit
  <1>4. e \in Event /\ e.type = "created" /\ e.id = id /\ ~Fullscreen(w) /\ id \in Int
    BY <1>1, <1>2, <1>3, Constants DEF Event, Fullscreen
  <1>5. PICK msgs : msgs = <<e>>
    OBVIOUS
  <1>6. /\ msgs \in Seq(Event) /\ Len(msgs) = 1 /\ msgs[1] = e
        /\ s2c \in Seq(Event) /\ s2c' = s2c \o msgs
    BY <1>3, <1>4, <1>5 DEF ServerTypes
  <1>7. \A i \in 1 .. Len(msgs) : msgs[i].type = "created" /\ msgs[i].id = id
    BY <1>4, <1>6
  <1> DEFINE n == Len(s2c)
  <1>8. /\ n \in Nat /\ Len(s2c') = n + 1 /\ s2c'[n + 1] = e
        /\ \A i \in 1 .. n : s2c'[i] = s2c[i]
    BY <1>4, <1>5, <1>6
  <1>9. \A i \in 1 .. n : s2c[i].id \in Ids /\ s2c[i].id < id
    BY <1>0, <1>6, EventFields DEF FreshIds
  <1>10. view[id] = None
    BY <1>0, <1>3, <1>4 DEF Once
  <1> HIDE DEF n
  <1>11. \A i \in 1 .. n : s2c[i].id # id
    BY <1>4, <1>9, Constants
  <1>12. ASSUME ~exited', NEW x \in Ids, windows'[x] # None PROVE Heard(x)'
    <2>1. CASE x # id
      <3>1. windows'[x] = windows[x]
        BY <1>3, <2>1 DEF ServerTypes
      <3>2. Heard(x)
        BY <1>12, <3>1 DEF AllHeard
      <3>3. Asked(x) => Asked(x)'
        BY DEF Asked
      <3> QED BY <1>6, <1>7, <3>1, <3>2, <3>3, KeptHeard
    <2>2. CASE x = id
      <3>1. ~Fullscreen(windows'[id])
        BY <1>3, <1>4 DEF ServerTypes
      <3>2. \A i \in 1 .. Len(s2c') : ~LastSaid(s2c', id, i)
        <4>1. \A i \in 1 .. Len(s2c') : s2c'[i].id = id => s2c'[i].type # "fullscreen"
          BY <1>4, <1>8, <1>11
        <4> QED BY <4>1 DEF LastSaid
      <3>3. view'[id] = None
        BY <1>10
      <3> QED BY <2>2, <3>1, <3>2, <3>3 DEF Heard, LastSaid, Unsaid, Fullscreen
    <2> QED BY <2>1, <2>2
  <1>13. Once'
    <2>1. ASSUME NEW i \in 1 .. Len(s2c'), NEW j \in 1 .. Len(s2c'),
                 s2c'[i].type = "created", s2c'[j].type = "created", s2c'[i].id = s2c'[j].id
          PROVE  i = j
      <3>1. CASE i \in 1 .. n /\ j \in 1 .. n
        BY <1>8, <2>1, <3>1 DEF Once, n
      <3>2. CASE i = n + 1 /\ j \in 1 .. n
        BY <1>4, <1>8, <1>11, <2>1, <3>2
      <3>3. CASE i \in 1 .. n /\ j = n + 1
        BY <1>4, <1>8, <1>11, <2>1, <3>3
      <3> QED BY <1>8, <3>1, <3>2, <3>3
    <2>2. ASSUME NEW i \in 1 .. Len(s2c'), s2c'[i].type = "created"
          PROVE  view'[s2c'[i].id] = None
      <3>1. CASE i \in 1 .. n
        BY <1>8, <2>2, <3>1 DEF Once, n
      <3>2. CASE i = n + 1
        BY <1>4, <1>8, <1>10, <3>2
      <3> QED BY <1>8, <3>1, <3>2
    <2>3. \A x \in Ids : view'[x] # None => x < next_window_id'
      <3>1. \A x \in Ids : view'[x] # None => x < id
        BY <1>0 DEF Once
      <3> QED BY <1>3, <1>4, <3>1, Constants
    <2> QED BY <2>1, <2>2, <2>3 DEF Once
  <1> QED BY <1>12, <1>13 DEF AllHeard

\* What the application does unasked.
LEMMA GuestModes ==
    ASSUME ModeInv, NEW id \in Ids, Guest(id)
    PROVE  Once' /\ NoToggle' /\ AllHeard'
  <1>1. /\ ServerTypes /\ Once /\ NoToggle /\ AllHeard
        /\ UNCHANGED <<view, exited, host_chrome_enabled, c2s>>
    BY DEF ModeInv, IndInv, Guest, viewer, app
  <1>2. UNCHANGED gtk_wm
    BY Zenon DEF Guest, GuestRelayout, GuestMode, GuestMove, GuestTell, ToplevelDestroyed
  <1>3. NoToggle'
    BY <1>1, <1>2 DEF NoToggle
  <1>4. CASE ToplevelDestroyed(id)
    BY <1>1, <1>3, <1>4, DestroyedModes
  <1>5. ASSUME windows[id] # None, Tells(id), UNCHANGED next_window_id,
               ModeKept(id) \/ ModeSaid(id)
        PROVE  Once' /\ AllHeard'
    <2>1. \A x \in Ids : Asked(x) => Asked(x)'
      BY <1>1 DEF Asked
    <2> QED BY <1>1, <1>5, <2>1, TellHeard
  <1>6. CASE GuestRelayout(id)
    <2>1. PICK size \in MinGuest .. Screen : RootBuffer(id, windows[id], size)
      BY <1>6 DEF GuestRelayout
    <2>2. windows[id] # None /\ windows[id] \in Remote /\ size \in Int /\ UNCHANGED next_window_id
      BY <1>1, <1>6 DEF GuestRelayout, ServerTypes
    <2>3. Tells(id) /\ ModeKept(id)
      BY <1>1, <2>1, <2>2, RootBufferTells, BufferKept
    <2> QED BY <1>3, <1>5, <2>2, <2>3
  <1>7. CASE GuestMode(id)
    <2>1. windows[id] # None /\ UNCHANGED next_window_id
      BY <1>7 DEF GuestMode
    <2>2. Tells(id)
      BY <1>1, <1>7, <2>1, MaximizeTells, UnmaximizeTells, FullscreenTells, UnfullscreenTells
         DEF GuestMode
    <2>3. gtk_wm => ~host_chrome_enabled
      BY <1>1 DEF NoToggle
    <2>4. \/ ~host_chrome_enabled /\ RequestWindowMaximize(id)
          \/ RequestWindowUnmaximize(id, TRUE)
          \/ RequestWindowFullscreen(id)
          \/ RequestWindowUnfullscreen(id, TRUE)
      BY <1>7, <2>3 DEF GuestMode
    <2>5. ModeKept(id) \/ ModeSaid(id)
      BY <1>1, <2>1, <2>4, RequestModes
    <2> QED BY <1>3, <1>5, <2>1, <2>2, <2>5
  <1>8. CASE GuestMove(id)
    <2>1. windows[id] # None /\ windows[id] \in Remote /\ UNCHANGED <<s2c, next_window_id>>
          /\ Update(id, [windows[id] EXCEPT !.moved = TRUE])
      BY <1>1, <1>8 DEF GuestMove, ServerTypes
    <2>2. [windows[id] EXCEPT !.moved = TRUE] \in Remote
      BY <2>1 DEF Remote
    <2>3. Tells(id)
      BY <1>1, <2>1, <2>2, ToTell
    <2>4. TRUE \in BOOLEAN
      OBVIOUS
    <2>5. ModeKept(id)
      BY <1>1, <2>1, <2>4, MovedKept
    <2> QED BY <1>3, <1>5, <2>1, <2>3, <2>5
  <1>9. CASE GuestTell(id)
    <2>1. PICK type \in {"minimized", "title"} : Emit(<<[type |-> type, id |-> id]>>)
      BY <1>9 DEF GuestTell
    <2>2. PICK e : e = [type |-> type, id |-> id]
      OBVIOUS
    <2>3. e \in Says(id) /\ e.type # "fullscreen"
      BY <2>2 DEF Says, Event
    <2>4. PICK msgs : msgs = <<e>>
      OBVIOUS
    <2>5. msgs \in Seq(Says(id)) /\ Len(msgs) = 1 /\ msgs[1] = e /\ s2c' = s2c \o msgs
      BY <2>1, <2>2, <2>3, <2>4 DEF Emit
    <2>6. windows[id] # None /\ UNCHANGED <<windows, next_window_id>>
      BY <1>9 DEF GuestTell
    <2>7. Tells(id)
      BY <1>1, <2>5, <2>6, ToTell DEF Emit
    <2>8. \A i \in 1 .. Len(msgs) : msgs[i].type # "fullscreen"
      BY <2>3, <2>5
    <2>9. ModeKept(id)
      BY <2>5, <2>6, <2>8 DEF ModeKept
    <2> QED BY <1>3, <1>5, <2>6, <2>7, <2>9
  <1> QED BY <1>4, <1>6, <1>7, <1>8, <1>9 DEF Guest

-----------------------------------------------------------------------------
(* The viewer's side of it.                                                *)

\* A step of the viewer that is mild to every window.
LEMMA MildModes ==
    ASSUME Once, AllHeard, \A x \in Ids : Mild(x), s2c \in Seq(Event),
           UNCHANGED <<windows, s2c, next_window_id, exited, host_chrome_enabled>>
    PROVE  Once' /\ AllHeard'
  <1>1. AllHeard'
    BY MildHeard DEF AllHeard
  <1>2. \A x \in Ids : view'[x] = None <=> view[x] = None
    BY DEF Mild
  <1>3. \A i \in 1 .. Len(s2c) : s2c[i].id \in Ids
    BY EventFields
  <1>4. Once'
    BY <1>2, <1>3 DEF Once
  <1> QED BY <1>1, <1>4

\* What is said of a window when the first message has been taken.
LEMMA TakenSaid ==
    ASSUME NEW q \in Seq(Event), q # <<>>, NEW t, t = Tail(q), NEW x
    PROVE  /\ Len(q) \in Nat /\ Len(t) = Len(q) - 1 /\ 1 \in 1 .. Len(q) /\ Head(q) = q[1]
           /\ \A i \in 1 .. Len(t) : t[i] = q[i + 1] /\ i + 1 \in 1 .. Len(q)
           /\ \A i \in 1 .. Len(t) : LastSaid(t, x, i) => LastSaid(q, x, i + 1)
           /\ Unsaid(t, x) =>
                 IF q[1].type = "fullscreen" /\ q[1].id = x THEN LastSaid(q, x, 1)
                 ELSE Unsaid(q, x)
  <1> DEFINE n == Len(q)
  <1>1. /\ n \in Nat \ {0} /\ Len(t) = n - 1 /\ Head(q) = q[1]
        /\ \A i \in 1 .. n - 1 : t[i] = q[i + 1] /\ i + 1 \in 1 .. n
        /\ \A i \in 2 .. n : t[i - 1] = q[i] /\ i - 1 \in 1 .. n - 1
    OBVIOUS
  <1> HIDE DEF n
  <1>2. ASSUME NEW i \in 1 .. n - 1, LastSaid(t, x, i) PROVE LastSaid(q, x, i + 1)
    <2>1. t[i] = q[i + 1] /\ t[i].type = "fullscreen" /\ t[i].id = x
      BY <1>1, <1>2 DEF LastSaid
    <2>2. ASSUME NEW j \in 1 .. n, j > i + 1, q[j].id = x PROVE q[j].type # "fullscreen"
      <3>1. j \in 2 .. n /\ j - 1 > i
        BY <1>1, <2>2
      <3>2. t[j - 1] = q[j] /\ j - 1 \in 1 .. n - 1
        BY <1>1, <3>1
      <3> QED BY <1>1, <1>2, <2>2, <3>1, <3>2 DEF LastSaid
    <2> QED BY <2>1, <2>2 DEF LastSaid, n
  <1>3. ASSUME Unsaid(t, x), NEW j \in 2 .. n, q[j].id = x PROVE q[j].type # "fullscreen"
    BY <1>1, <1>3 DEF Unsaid
  <1>4. ASSUME Unsaid(t, x), q[1].type = "fullscreen" /\ q[1].id = x PROVE LastSaid(q, x, 1)
    <2>1. \A j \in 1 .. n : j > 1 => j \in 2 .. n
      BY <1>1
    <2> QED BY <1>3, <1>4, <2>1 DEF LastSaid, n
  <1>5. ASSUME Unsaid(t, x), ~(q[1].type = "fullscreen" /\ q[1].id = x) PROVE Unsaid(q, x)
    <2>1. \A j \in 1 .. n : j = 1 \/ j \in 2 .. n
      BY <1>1
    <2> QED BY <1>3, <1>5, <2>1 DEF Unsaid, n
  <1> QED BY <1>1, <1>2, <1>4, <1>5 DEF n

\* The viewer has applied the state it was told, or left its state alone.
TakenWell(x, h) ==
    IF h.type = "fullscreen" /\ h.id = x
    THEN view'[x] # None /\ view'[x].last = h.on /\ (~h.on => view'[x].fs # "simple")
    ELSE IF view[x] = None THEN view'[x] = None \/ view'[x].fs = "no"
    ELSE view'[x] # None /\ Same(x)

\* Such a step keeps what was heard.
LEMMA TakenHeard ==
    ASSUME s2c \in Seq(Event), s2c # <<>>, s2c' = Tail(s2c), NEW x \in Ids, Heard(x),
           TakenWell(x, Head(s2c)), UNCHANGED <<windows, host_chrome_enabled>>,
           Asked(x) => Asked(x)'
    PROVE  Heard(x)'
  <1>1. PICK q, t : q = s2c /\ t = s2c'
    OBVIOUS
  <1>2. /\ q \in Seq(Event) /\ q # <<>> /\ t = Tail(q)
    BY <1>1
  <1>3. /\ 1 \in 1 .. Len(q) /\ Head(q) = q[1]
        /\ \A i \in 1 .. Len(t) : t[i] = q[i + 1] /\ i + 1 \in 1 .. Len(q)
        /\ \A i \in 1 .. Len(t) : LastSaid(t, x, i) => LastSaid(q, x, i + 1)
        /\ Unsaid(t, x) =>
              IF q[1].type = "fullscreen" /\ q[1].id = x THEN LastSaid(q, x, 1)
              ELSE Unsaid(q, x)
    BY <1>2, TakenSaid
  <1>4. q[1] \in Event
    BY <1>2, <1>3
  <1>5. ASSUME NEW i \in 1 .. Len(t), LastSaid(t, x, i)
        PROVE  /\ Fullscreen(windows'[x]) => t[i].on
               /\ host_chrome_enabled' /\ t[i].on => Fullscreen(windows'[x])
    <2>1. LastSaid(q, x, i + 1) /\ t[i] = q[i + 1] /\ i + 1 \in 1 .. Len(q)
      BY <1>3, <1>5
    <2> QED BY <1>1, <2>1 DEF Heard, Fullscreen
  <1>6. ASSUME Unsaid(t, x)
        PROVE  /\ Fullscreen(windows'[x]) => view'[x] # None /\ (view'[x].last \/ Asked(x)')
               /\ host_chrome_enabled' /\ view'[x] # None /\ view'[x].fs = "simple" =>
                     Fullscreen(windows'[x])
    <2>1. CASE q[1].type = "fullscreen" /\ q[1].id = x
      <3>1. LastSaid(q, x, 1)
        BY <1>3, <1>6, <2>1
      <3>2. /\ Fullscreen(windows[x]) => q[1].on
            /\ host_chrome_enabled /\ q[1].on => Fullscreen(windows[x])
        BY <1>1, <1>3, <3>1 DEF Heard
      <3>3. view'[x] # None /\ view'[x].last = q[1].on /\ (~q[1].on => view'[x].fs # "simple")
        BY <1>1, <1>3, <2>1 DEF TakenWell
      <3> QED BY <3>2, <3>3
    <2>2. CASE ~(q[1].type = "fullscreen" /\ q[1].id = x)
      <3>1. Unsaid(q, x)
        BY <1>3, <1>6, <2>2
      <3>2. /\ Fullscreen(windows[x]) => view[x] # None /\ (view[x].last \/ Asked(x))
            /\ host_chrome_enabled /\ view[x] # None /\ view[x].fs = "simple" =>
                  Fullscreen(windows[x])
        BY <1>1, <3>1 DEF Heard
      <3>3. IF view[x] = None THEN view'[x] = None \/ view'[x].fs = "no"
            ELSE view'[x] # None /\ Same(x)
        BY <1>1, <1>3, <2>2 DEF TakenWell
      <3> QED BY <3>2, <3>3 DEF Same
    <2> QED BY <2>1, <2>2
  <1> QED BY <1>1, <1>5, <1>6 DEF Heard, LastSaid, Unsaid, Fullscreen

\* user_event: the state the window is told is the state it has.
LEMMA HandleMessageModes ==
    ASSUME ModeInv, HandleMessage
    PROVE  Once' /\ NoToggle' /\ AllHeard'
  <1> DEFINE m == Head(s2c)
  <1>1. /\ Shown /\ Served /\ ~exited /\ Channel /\ Once /\ NoToggle /\ AllHeard
        /\ ServerTypes /\ FreshIds
    BY Parts DEF HandleMessage, ModeInv, IndInv
  <1>2. /\ s2c # <<>> /\ s2c \in Seq(Event) /\ s2c' = Tail(s2c)
        /\ UNCHANGED <<windows, next_window_id, gtk_wm>>
    BY <1>1 DEF HandleMessage, ServerTypes
  <1>3. m \in Event /\ m = s2c[1] /\ 1 \in 1 .. Len(s2c)
    BY <1>2
  <1>4. m.id \in Ids /\ (m.type \in {"configured", "tile"} => m.size \in Int)
        /\ (m.type = "fullscreen" => m.on \in BOOLEAN)
    BY <1>3, EventFields
  <1>5. /\ m.type # "created" => view[m.id] # None
        /\ m.type = "created" => view[m.id] = None
        /\ m.id < next_window_id
    <2>1. m.type # "created" => Announced(view, s2c, m.id, 1)
      BY <1>1, <1>3 DEF Channel
    <2> QED BY <1>1, <1>3, <2>1 DEF Announced, Once, FreshIds
  <1>6. \/ m.type = "created" /\ Created(m.id)
        \/ m.type = "configured" /\ Configured(m.id, m.size)
        \/ m.type = "tile" /\ FrameTile(m.id, m.size)
        \/ m.type = "title" /\ TitleChanged(m.id)
        \/ m.type = "minimized" /\ Minimized
        \/ m.type = "fullscreen" /\ FullscreenChangedApplied(m.id, m.on)
        \/ m.type = "destroyed" /\ Destroyed(m.id)
    BY Zenon DEF HandleMessage
  <1>7. UNCHANGED <<exited, host_chrome_enabled, c2s>>
    BY <1>6 DEF Created, Configured, FrameTile, TitleChanged, Minimized,
       FullscreenChangedApplied, Destroyed, app
  <1>8. NoToggle' /\ \A x \in Ids : Asked(x) => Asked(x)'
    BY <1>1, <1>2, <1>7 DEF NoToggle, Asked
  <1>9. windows[m.id] # None => m.type # "destroyed"
    BY <1>1, <1>3, <1>4 DEF Channel
  <1> HIDE DEF m
  <1>10. /\ \A x \in Ids \ {m.id} : view'[x] = view[x]
         /\ m.type # "destroyed" => TakenWell(m.id, m)
    <2>1. CASE m.type = "created" /\ Created(m.id)
      BY <1>1, <1>4, <1>5, <2>1, CreatedKeeps DEF Stays, TakenWell
    <2>2. CASE m.type = "configured" /\ Configured(m.id, m.size)
      BY <1>1, <1>4, <1>5, <2>2, ConfiguredKeeps DEF Stays, TakenWell
    <2>3. CASE m.type = "tile" /\ FrameTile(m.id, m.size)
      BY <1>1, <1>4, <1>5, <2>3, FrameTileKeeps DEF Stays, TakenWell
    <2>4. CASE m.type = "title" /\ TitleChanged(m.id)
      BY <1>1, <1>4, <1>5, <2>4, TitleChangedKeeps DEF Stays, TakenWell
    <2>5. CASE m.type = "minimized" /\ Minimized
      BY <1>5, <2>5 DEF Minimized, TakenWell, Same
    <2>6. CASE m.type = "fullscreen" /\ FullscreenChangedApplied(m.id, m.on)
      BY <1>1, <1>4, <1>5, <2>6, FullscreenChangedKeeps DEF Stays, TakenWell
    <2>7. CASE m.type = "destroyed" /\ Destroyed(m.id)
      BY <1>1, <1>4, <1>5, <2>7, DestroyedKeeps
    <2> QED BY <1>6, <2>1, <2>2, <2>3, <2>4, <2>5, <2>6, <2>7
  <1>11. ASSUME NEW x \in Ids, windows'[x] # None PROVE Heard(x)'
    <2>1. Heard(x) /\ windows[x] # None
      BY <1>1, <1>2, <1>11 DEF AllHeard
    <2>2. TakenWell(x, m)
      <3>1. CASE x = m.id
        BY <1>9, <1>10, <2>1, <3>1
      <3>2. CASE x # m.id
        BY <1>10, <3>2 DEF TakenWell, Same
      <3> QED BY <3>1, <3>2
    <2>3. TakenWell(x, Head(s2c))
      BY <2>2 DEF m
    <2> QED BY <1>2, <1>7, <1>8, <2>1, <2>3, TakenHeard
  <1>12. Once'
    <2> DEFINE n == Len(s2c)
    <2>1. /\ n \in Nat \ {0} /\ Len(s2c') = n - 1
          /\ \A i \in 1 .. n - 1 : s2c'[i] = s2c[i + 1] /\ i + 1 \in 1 .. n
      BY <1>2
    <2> HIDE DEF n
    <2>2. ASSUME NEW i \in 1 .. n - 1, NEW j \in 1 .. n - 1, s2c'[i].type = "created",
                 s2c'[j].type = "created", s2c'[i].id = s2c'[j].id
          PROVE  i = j
      <3>1. i + 1 = j + 1
        BY <1>1, <2>1, <2>2 DEF Once, n
      <3> QED BY <3>1
    <2>3. ASSUME NEW i \in 1 .. n - 1, s2c'[i].type = "created"
          PROVE  view'[s2c'[i].id] = None
      <3>1. s2c'[i] = s2c[i + 1] /\ i + 1 \in 1 .. n /\ i + 1 # 1
        BY <2>1
      <3>2. s2c[i + 1].id \in Ids /\ view[s2c[i + 1].id] = None
        <4>1. s2c[i + 1] \in Event
          BY <1>2, <3>1 DEF n
        <4> QED BY <1>1, <2>3, <3>1, <4>1, EventFields DEF Once, n
      <3>3. s2c[i + 1].id # m.id
        BY <1>1, <1>3, <1>5, <2>3, <3>1, <3>2 DEF Once, n
      <3> QED BY <1>10, <3>1, <3>2, <3>3
    <2>4. \A x \in Ids : view'[x] # None => x < next_window_id'
      BY <1>1, <1>2, <1>5, <1>10 DEF Once
    <2> QED BY <2>1, <2>2, <2>3, <2>4 DEF Once
  <1> QED BY <1>8, <1>11, <1>12 DEF AllHeard

\* Nothing is shown, said or asked at first, and the options are both at their
\* defaults or neither is.
LEMMA InitModes ==
    Init => ModeInv
  <1> SUFFICES ASSUME Init PROVE ModeInv
    OBVIOUS
  <1>1. /\ windows = [id \in Ids |-> None] /\ s2c = <<>> /\ view = [id \in Ids |-> None]
        /\ c2s = <<>>
    BY DEF Init, ToplevelsInit, ViewerInit
  <1>2. host_chrome_enabled => ~gtk_wm
    BY Zenon DEF Init
  <1>3. 1 .. Len(s2c) = {} /\ 1 .. Len(c2s) = {}
    BY <1>1
  <1>4. Once /\ AllHeard
    BY <1>1, <1>3 DEF Once, AllHeard
  <1>5. NoToggle
    BY <1>2, <1>3 DEF NoToggle
  <1> QED BY <1>4, <1>5, InitInv DEF ModeInv

\* Every step keeps the invariant.
LEMMA NextModes ==
    ASSUME ModeInv, [Next]_vars
    PROVE  ModeInv'
  <1>1. /\ IndInv /\ IndInv' /\ Shown /\ ServerTypes /\ FreshIds /\ Once /\ NoToggle /\ AllHeard
        /\ s2c \in Seq(Event) /\ c2s \in Seq(Input)
    BY NextKeeps, Parts DEF ModeInv, IndInv, ServerTypes, TimerTypes
  <1> SUFFICES Once' /\ NoToggle' /\ AllHeard'
    BY <1>1 DEF ModeInv
  <1>2. CASE Open
    <2>1. NewToplevel /\ UNCHANGED <<view, exited, host_chrome_enabled, c2s, gtk_wm>>
      BY <1>2 DEF Open, viewer, app, NewToplevel
    <2> QED BY <1>1, <2>1, NewToplevelModes DEF NoToggle
  <1>3. CASE Message1
    BY <1>3, HandleMessageModes DEF Message1
  <1>4. CASE HandleInput
    BY <1>4, HandleInputModes
  <1>5. CASE Flush
    <2>1. FlushDue /\ UNCHANGED <<windows, next_window_id, s2c, exited, host_chrome_enabled>>
      BY <1>5 DEF Flush, FlushDue, app, toplevels
    <2>2. (\A x \in Ids : Mild(x)) /\ NoToggle'
      BY <1>1, <2>1, FlushMild
    <2> QED BY <1>1, <2>1, <2>2, MildModes
  <1>6. CASE Leave
    <2>1. /\ exited' /\ UNCHANGED <<next_window_id, s2c, gtk_wm, host_chrome_enabled, c2s>>
          /\ view' = [id \in Ids |-> IF id \in retired_window_ids THEN None ELSE view[id]]
      BY <1>6 DEF Leave, GraceOver, toplevels
    <2>2. \A i \in 1 .. Len(s2c) : s2c[i].id \in Ids
      BY <1>1, EventFields
    <2> QED BY <1>1, <2>1, <2>2 DEF Once, NoToggle, AllHeard
  <1>7. ASSUME NEW id \in Ids, Guest(id)
        PROVE  Once' /\ NoToggle' /\ AllHeard'
    BY <1>7, GuestModes
  <1>8. ASSUME NEW id \in Ids, User(id)
        PROVE  Once' /\ NoToggle' /\ AllHeard'
    <2>1. UNCHANGED <<windows, next_window_id, s2c, exited, host_chrome_enabled>>
      BY <1>8, Zenon DEF User, FullscreenShortcut, HostResize, EdgeSnap, NativeToggle,
         TitlebarToggle, app, toplevels
    <2>2. (\A x \in Ids : Mild(x)) /\ NoToggle'
      BY <1>1, <1>8, UserMild
    <2> QED BY <1>1, <2>1, <2>2, MildModes
  <1>9. ASSUME NEW id \in Ids, windows[id] # None, Tells(id), ModeKept(id),
               UNCHANGED <<viewer, next_window_id, gtk_wm>>
        PROVE  Once' /\ NoToggle' /\ AllHeard'
    <2>1. UNCHANGED <<view, next_window_id, host_chrome_enabled, exited, c2s, gtk_wm>>
      BY <1>9 DEF viewer, app
    <2>2. NoToggle' /\ \A x \in Ids : Asked(x) => Asked(x)'
      BY <1>1, <2>1 DEF NoToggle, Asked
    <2> QED BY <1>1, <1>9, <2>1, <2>2, TellHeard
  <1>10. ASSUME NEW id \in Ids, Answer(id)
         PROVE  Once' /\ NoToggle' /\ AllHeard'
    <2>1. GuestConfigure(id) /\ UNCHANGED <<viewer, gtk_wm>>
      BY <1>10 DEF Answer, GuestConfigure
    <2> QED BY <1>1, <1>9, <2>1, AnswerTells, AnswerKept
  <1>11. ASSUME NEW id \in Ids, MoveGrace(id)
         PROVE  Once' /\ NoToggle' /\ AllHeard'
    <2>1. /\ windows[id] # None /\ windows[id] \in Remote
          /\ UNCHANGED <<viewer, s2c, next_window_id, gtk_wm>>
          /\ Update(id, [windows[id] EXCEPT !.moved = FALSE])
      BY <1>1, <1>11 DEF MoveGrace, MoveGraceOver, ServerTypes
    <2>2. [windows[id] EXCEPT !.moved = FALSE] \in Remote /\ FALSE \in BOOLEAN
      BY <2>1 DEF Remote
    <2>3. Tells(id) /\ ModeKept(id)
      BY <1>1, <2>1, <2>2, ToTell, MovedKept
    <2> QED BY <1>9, <2>1, <2>3
  <1>12. ASSUME NEW id \in Ids, Resize1(id)
         PROVE  Once' /\ NoToggle' /\ AllHeard'
    <2>1. /\ Resized(id)
          /\ UNCHANGED <<windows, next_window_id, s2c, exited, gtk_wm, host_chrome_enabled>>
      BY <1>12 DEF Resize1, Resized, app, toplevels
    <2>2. /\ \A x \in Ids : Mild(x)
          /\ (\A i \in 1 .. Len(c2s) : c2s[i].type # "toggle") =>
                \A i \in 1 .. Len(c2s') : c2s'[i].type # "toggle"
      BY <1>1, <2>1, ResizedMild
    <2>3. NoToggle'
      BY <1>1, <2>1, <2>2 DEF NoToggle
    <2> QED BY <1>1, <2>1, <2>2, <2>3, MildModes
  <1>13. ASSUME NEW id \in Ids, Redraw1(id)
         PROVE  Once' /\ NoToggle' /\ AllHeard'
    <2>1. /\ RedrawRequested(id) /\ view[id] # None /\ UNCHANGED <<c2s, gtk_wm>>
          /\ UNCHANGED <<windows, next_window_id, s2c, exited, host_chrome_enabled>>
      BY <1>13 DEF Redraw1, RedrawRequested, app, toplevels
    <2>2. NoToggle' /\ \A x \in Ids : Asked(x) => Asked(x)'
      BY <1>1, <2>1 DEF NoToggle, Asked
    <2>3. Stays(id) /\ Same(id)
      BY <1>1, <2>1, RedrawKeeps
    <2>4. \A x \in Ids : Mild(x)
      BY <2>1, <2>2, <2>3, SameMild
    <2> QED BY <1>1, <2>1, <2>2, <2>4, MildModes
  <1>14. CASE UNCHANGED vars
    <2>1. /\ UNCHANGED <<windows, next_window_id, s2c, view, exited, host_chrome_enabled>>
          /\ UNCHANGED <<c2s, gtk_wm>>
      BY <1>14 DEF vars, viewer, toplevels, app
    <2>2. NoToggle' /\ \A x \in Ids : Asked(x) => Asked(x)'
      BY <1>1, <2>1 DEF NoToggle, Asked
    <2>3. \A x \in Ids : Mild(x)
      BY <2>1, <2>2 DEF Mild
    <2> QED BY <1>1, <2>1, <2>2, <2>3, MildModes
  <1> QED BY <1>2, <1>3, <1>4, <1>5, <1>6, <1>7, <1>8, <1>10, <1>11, <1>12, <1>13, <1>14
          DEF Next

\* When nothing is on its way what was heard is what is shown.
LEMMA HeardAgrees ==
    ASSUME ModeInv
    PROVE  ModesAgree
  <1> SUFFICES ASSUME Quiet, ~exited, NEW id \in Ids, windows[id] # None
               PROVE  /\ Fullscreen(windows[id]) => IsWindowFullscreen(view[id])
                      /\ host_chrome_enabled /\ view[id].fs = "simple" => Fullscreen(windows[id])
    BY DEF ModesAgree
  <1>1. s2c = <<>> /\ c2s = <<>> /\ osq[id] = <<>>
    BY DEF Quiet
  <1>2. Unsaid(s2c, id) /\ ~Asked(id)
    BY <1>1 DEF Unsaid, Asked
  <1>3. /\ Fullscreen(windows[id]) => view[id] # None /\ view[id].last
        /\ host_chrome_enabled /\ view[id] # None /\ view[id].fs = "simple" =>
              Fullscreen(windows[id])
    BY <1>2 DEF ModeInv, AllHeard, Heard
  <1>4. view[id] # None
    <2>1. Announced(view, s2c, id, Len(s2c) + 1)
      BY DEF ModeInv, IndInv, Channel
    <2> QED BY <1>1, <2>1 DEF Announced
  <1>5. view[id].last => IsWindowFullscreen(view[id])
    BY <1>1, <1>4 DEF ModeInv, IndInv, LastInStep, IsWindowFullscreen
  <1> QED BY <1>3, <1>4, <1>5

\* ModesAgree: when both event loops have handled everything, a fullscreen
\* application is shown in a fullscreen window, and with the default options
\* a window the viewer made fullscreen shows a fullscreen application.  For
\* any number of windows, any screen, and requests of the user and of the
\* application that cross on their way in any number.
THEOREM ModesAlwaysAgree == Spec => []ModesAgree
  <1>1. Init => ModeInv
    BY InitModes
  <1>2. ModeInv /\ [Next]_vars => ModeInv'
    BY NextModes
  <1>3. ModeInv => ModesAgree
    BY HeardAgrees
  <1> QED BY <1>1, <1>2, <1>3, PTL DEF Spec

=============================================================================
