----------------------------- MODULE InputProofs -----------------------------
(***************************************************************************)
(* FocusAgrees, TextInOrder and NoStuckKey of Input, for any set of keys   *)
(* and windows, any limit of the queue and any number of host events; then *)
(* PreeditShowsHeld of Composer and its refinement of TextBuffer, and the  *)
(* invariants of Gestures.                                                 *)
(*                                                                         *)
(* The flush of the queue handles any number of texts in one step, so what *)
(* it keeps is shown by induction over the texts.  The induction principle *)
(* is stated for sets (Induction), from the well-foundedness of inclusion  *)
(* between finite sets.                                                    *)
(***************************************************************************)
EXTENDS Input, Gestures, Composer, FiniteSetTheorems, SequenceTheorems,
        WellFoundedInduction, TLAPS

-----------------------------------------------------------------------------
(* Induction over the naturals, for a set.                                 *)

\* A set of naturals that is not empty has a least member: the intervals that
\* end in its members are finite sets, one of them is minimal.
LEMMA LeastMember ==
    ASSUME NEW T \in SUBSET Nat, T # {}
    PROVE  \E x \in T : \A y \in T : x <= y
  <1> DEFINE C == {0 .. x : x \in T}
             R == StrictSubsetOrdering(Nat)
  <1>1. \A x \in T : IsFiniteSet(0 .. x) /\ 0 .. x \in SUBSET Nat
    BY FS_Interval
  <1>2. C \subseteq FiniteSubsetsOf(Nat) /\ C # {}
    BY <1>1 DEF FiniteSubsetsOf
  <1>3. IsWellFoundedOn(R, FiniteSubsetsOf(Nat))
    BY FS_StrictSubsetOrderingWellFounded
  <1>4. PICK X \in C : \A Y \in C : <<Y, X>> \notin R
    <2> HIDE DEF C, R
    <2> QED BY <1>2, <1>3, WFMin
  <1>5. PICK x \in T : X = 0 .. x
    BY <1>4
  <1>6. ASSUME NEW y \in T, y < x PROVE FALSE
    <2>1. 0 .. y \in C /\ 0 .. y \subseteq Nat /\ X \subseteq Nat
      BY <1>1, <1>5
    <2>2. x \in X /\ x \notin 0 .. y
      BY <1>5, <1>6
    <2>3. 0 .. y \subseteq X /\ 0 .. y # X
      BY <2>2, <1>5, <1>6
    <2>4. <<0 .. y, X>> \in R
      BY <2>1, <2>3 DEF StrictSubsetOrdering
    <2> QED BY <2>1, <2>4, <1>4
  <1> QED BY <1>6

\* A set with 0 and the successor of each of its naturals has them all.
LEMMA Induction ==
    ASSUME NEW S, 0 \in S, \A n \in Nat : n \in S => n + 1 \in S
    PROVE  Nat \subseteq S
  <1> SUFFICES ASSUME NEW k \in Nat, k \notin S PROVE FALSE
    OBVIOUS
  <1> DEFINE T == Nat \ S
  <1>1. PICK x \in T : \A y \in T : x <= y
    BY LeastMember
  <1> QED BY <1>1

\* HandleTexts is what its recursion says: there is a function of the number
\* of texts handled so far.
LEMMA HandleTextsSteps ==
    ASSUME NEW s, NEW X, NEW items \in Seq(X)
    PROVE  \E a : /\ a[0] = s
                  /\ \A n \in 1 .. Len(items) : a[n] = HandleText(a[n - 1], items[n])
                  /\ HandleTexts(s, items) = a[Len(items)]
  <1> DEFINE N == Len(items)
             Runs(a, m) == a = [n \in 0 .. m |-> IF n = 0 THEN s ELSE HandleText(a[n - 1], items[n])]
             S == {m \in Nat : m <= N => \E a : Runs(a, m)}
  <1>0. N \in Nat
    OBVIOUS
  <1>1. 0 \in S
    <2> DEFINE b == [n \in 0 .. 0 |-> s]
    <2>1. Runs(b, 0)
      OBVIOUS
    <2> QED BY <2>1
  <1>2. ASSUME NEW m \in Nat, m \in S PROVE m + 1 \in S
    <2> SUFFICES ASSUME m + 1 <= N PROVE \E a : Runs(a, m + 1)
      OBVIOUS
    <2>1. PICK a : Runs(a, m)
      BY <1>2, <1>0
    <2> DEFINE b == [n \in 0 .. m + 1 |-> IF n = m + 1 THEN HandleText(a[m], items[m + 1]) ELSE a[n]]
    <2>2. \A n \in 0 .. m + 1 : b[n] = IF n = 0 THEN s ELSE HandleText(b[n - 1], items[n])
      <3> SUFFICES ASSUME NEW n \in 0 .. m + 1
                   PROVE  b[n] = IF n = 0 THEN s ELSE HandleText(b[n - 1], items[n])
        OBVIOUS
      <3>1. CASE n = m + 1
        <4>1. b[n] = HandleText(a[m], items[m + 1])
          BY <3>1
        <4>2. b[n - 1] = a[m]
          BY <3>1
        <4> QED BY <4>1, <4>2, <3>1
      <3>2. CASE n # m + 1
        <4>1. n \in 0 .. m /\ b[n] = a[n]
          BY <3>2
        <4>2. a[n] = IF n = 0 THEN s ELSE HandleText(a[n - 1], items[n])
          BY <4>1, <2>1
        <4>3. n # 0 => b[n - 1] = a[n - 1]
          BY <3>2
        <4> QED BY <4>1, <4>2, <4>3
      <3> QED BY <3>1, <3>2
    <2>3. Runs(b, m + 1)
      <3> DEFINE c == [n \in 0 .. m + 1 |-> IF n = 0 THEN s ELSE HandleText(b[n - 1], items[n])]
      <3>1. \A n \in 0 .. m + 1 : b[n] = c[n]
        BY <2>2
      <3>2. b = c
        BY <3>1, Zenon
      <3> QED BY <3>2
    <2> QED BY <2>3
  <1>3. \E a : Runs(a, N)
    <2> HIDE DEF S
    <2>1. N \in S
      BY <1>0, <1>1, <1>2, Induction
    <2> QED BY <2>1, <1>0 DEF S
  <1> DEFINE f == CHOOSE a : Runs(a, N)
  <1>4. Runs(f, N)
    BY <1>3, Zenon
  <1>5. HandleTexts(s, items) = f[N]
    BY Zenon DEF HandleTexts
  <1>6. f[0] = s /\ \A n \in 1 .. N : f[n] = HandleText(f[n - 1], items[n])
    <2> HIDE DEF f
    <2> QED BY <1>4, <1>0
  <1> QED BY <1>5, <1>6

-----------------------------------------------------------------------------
(* The types of the seat's state and of what is sent.                      *)

Codes == {"lctrl", "rctrl", "shift", "t", "space", "enter", "equal"}
Places == Ids \cup {None}
TextKinds == {"other", "preedit", "ascii", "shifted"}

KeyEvents == [type : {"key"}, id : Places, key : Codes, state : {"pressed", "released"}]
FocusEvents == [type : {"focus"}, id : Places, focused : BOOLEAN]
TextEvents == [type : {"text"}, id : Ids, n : Nat, kind : TextKinds]
ButtonEvents == [type : {"button"}, id : Places, state : {"pressed", "released"}]
CloseEvents == [type : {"close"}, id : Places]
Events == KeyEvents \cup FocusEvents \cup TextEvents \cup ButtonEvents \cup CloseEvents

TextInputs == [enabled : BOOLEAN, pending_enabled : BOOLEAN \cup {None}, focused_surface : Places]
Inputs == UNION {[D -> TextInputs] : D \in SUBSET Clients}
Gots == [n : Nat, kind : TextKinds, id : Ids, to : Places, gone : BOOLEAN]
Seats == [active : Places, inputs : Inputs, queue : Seq(TextEvents), keys : SUBSET Codes,
          got : Seq(Gots)]

(* FocusAgrees, of a state of the seat.                                    *)
FocusOf(a, c) == IF a # None /\ Client(a) = c THEN a ELSE None
Focuses(s) ==
    /\ s.active # None => s.active \in windows
    /\ \A c \in DOMAIN s.inputs : s.inputs[c].focused_surface = FocusOf(s.active, c)

(* Two states with the same text inputs enabled.                           *)
SameEnabled(s, t) ==
    /\ DOMAIN t.inputs = DOMAIN s.inputs
    /\ \A c \in DOMAIN s.inputs : t.inputs[c].enabled = s.inputs[c].enabled

(* The client of window w has enabled its text input.                      *)
Enabled(s, w) == Client(w) \in DOMAIN s.inputs /\ s.inputs[Client(w)].enabled

\* The text inputs are a function on clients.
LEMMA InputsFcn ==
    ASSUME NEW f \in Inputs
    PROVE  /\ DOMAIN f \subseteq Clients /\ f = [c \in DOMAIN f |-> f[c]]
           /\ \A c \in DOMAIN f : f[c] \in TextInputs
  BY DEF Inputs

\* A function on clients to text inputs is one.
LEMMA FcnInputs ==
    ASSUME NEW D \in SUBSET Clients, NEW f \in [D -> TextInputs]
    PROVE  f \in Inputs
  BY DEF Inputs

\* set_text_input_focus tells the client of the window and no other.
LEMMA SetFocus ==
    ASSUME NEW f \in Inputs, NEW w \in Ids
    PROVE  LET g == SetTextInputFocus(f, w)
           IN  /\ g \in Inputs /\ DOMAIN g = DOMAIN f
               /\ \A c \in DOMAIN f : /\ g[c].enabled = f[c].enabled
                                      /\ g[c].focused_surface = FocusOf(w, c)
  <1> DEFINE g == SetTextInputFocus(f, w)
  <1>1. DOMAIN f \subseteq Clients /\ \A c \in DOMAIN f : f[c] \in TextInputs
    BY InputsFcn
  <1>2. w \in Places /\ None \in Places /\ w # None
    BY SeatAssumption DEF Places
  <1>3. \A c \in DOMAIN f : /\ g[c] \in TextInputs /\ g[c].enabled = f[c].enabled
                            /\ g[c].focused_surface = IF c = Client(w) THEN w ELSE None
    BY <1>1, <1>2 DEF SetTextInputFocus, TextInputs
  <1>4. g = [c \in DOMAIN f |-> g[c]] /\ DOMAIN g = DOMAIN f
    BY DEF SetTextInputFocus
  <1>5. g \in Inputs
    BY <1>1, <1>3, <1>4, FcnInputs
  <1> QED BY <1>2, <1>3, <1>4, <1>5 DEF FocusOf

\* clear_text_input_focus tells every client.
LEMMA ClearFocusInputs ==
    ASSUME NEW f \in Inputs
    PROVE  LET g == ClearTextInputFocus(f)
           IN  /\ g \in Inputs /\ DOMAIN g = DOMAIN f
               /\ \A c \in DOMAIN f : /\ g[c].enabled = f[c].enabled
                                      /\ g[c].focused_surface = FocusOf(None, c)
  <1> DEFINE g == ClearTextInputFocus(f)
  <1>1. DOMAIN f \subseteq Clients /\ \A c \in DOMAIN f : f[c] \in TextInputs
    BY InputsFcn
  <1>2. None \in Places
    BY DEF Places
  <1>3. \A c \in DOMAIN f : /\ g[c] \in TextInputs /\ g[c].enabled = f[c].enabled
                            /\ g[c].focused_surface = None
    BY <1>1, <1>2 DEF ClearTextInputFocus, TextInputs
  <1>4. g = [c \in DOMAIN f |-> g[c]] /\ DOMAIN g = DOMAIN f
    BY DEF ClearTextInputFocus
  <1>5. g \in Inputs
    BY <1>1, <1>3, <1>4, FcnInputs
  <1> QED BY <1>3, <1>4, <1>5 DEF FocusOf

\* focus_window: the seat's focus and the text inputs change together.
LEMMA FocusWindowKeeps ==
    ASSUME NEW s \in Seats, Focuses(s), NEW w \in Places, windows \subseteq Ids
    PROVE  LET t == FocusWindow(s, w)
           IN  /\ t \in Seats /\ Focuses(t) /\ SameEnabled(s, t)
               /\ t.queue = s.queue /\ t.keys = s.keys /\ t.got = s.got
               /\ w \in windows => t.active = w
  <1> DEFINE t == FocusWindow(s, w)
  <1>1. CASE w \notin windows
    BY <1>1 DEF FocusWindow, SameEnabled
  <1>2. CASE w \in windows
    <2>1. w \in Ids /\ w # None /\ s.inputs \in Inputs
      BY <1>2, SeatAssumption DEF Seats
    <2> DEFINE g == SetTextInputFocus(s.inputs, w)
    <2>2. /\ g \in Inputs /\ DOMAIN g = DOMAIN s.inputs
          /\ \A c \in DOMAIN s.inputs : /\ g[c].enabled = s.inputs[c].enabled
                                        /\ g[c].focused_surface = FocusOf(w, c)
      BY <2>1, SetFocus
    <2>3. t = [s EXCEPT !.active = w, !.inputs = g]
      BY <1>2 DEF FocusWindow
    <2> HIDE DEF g, t
    <2>4. /\ t \in Seats /\ t.active = w /\ t.inputs = g
          /\ t.queue = s.queue /\ t.keys = s.keys /\ t.got = s.got
      BY <2>2, <2>3 DEF Seats
    <2> QED BY <1>2, <2>2, <2>4 DEF Focuses, SameEnabled, t
  <1> QED BY <1>1, <1>2

-----------------------------------------------------------------------------
(* What becomes of a text: lost, delivered or queued.                      *)

GotOf(s, item) == [n |-> item.n, kind |-> item.kind, id |-> item.id,
                   to |-> s.active, gone |-> item.id \notin windows]

Outcome(s, item, t) ==
    \/ t.got = s.got /\ t.queue = s.queue
    \/ /\ t.queue = s.queue
       /\ \E g \in Gots : /\ t.got = Append(s.got, g)
                          /\ g.n = item.n /\ g.kind = item.kind /\ g.id = item.id
                          /\ g.gone = (item.id \notin windows)
                          /\ g.to = item.id \/ g.gone
       /\ item.kind = "other" /\ item.id \in windows => Enabled(s, item.id)
    \/ /\ t.got = s.got /\ t.queue = Append(s.queue, item)
       /\ item.id \in windows => ~Enabled(s, item.id)

TextEffect(s, item, t) ==
    /\ t \in Seats /\ Focuses(t) /\ SameEnabled(s, t) /\ t.keys \subseteq s.keys
    /\ Outcome(s, item, t)
    /\ Len(t.queue) <= PendingLimit \/ Len(t.queue) <= Len(s.queue)

\* keyboard_key, beside the keys, is focus_window.
LEMMA KeyboardKeyKeeps ==
    ASSUME NEW s \in Seats, Focuses(s), NEW w \in Places, windows \subseteq Ids,
           NEW k \in Codes, NEW state
    PROVE  LET t == KeyboardKey(s, w, k, state)
           IN  /\ t \in Seats /\ Focuses(t) /\ SameEnabled(s, t)
               /\ t.queue = s.queue /\ t.got = s.got
               /\ state = "pressed" => t.keys = s.keys \cup {k}
               /\ state # "pressed" => t.keys = s.keys \ {k}
  <1> DEFINE r == FocusWindow(s, w)
             t == KeyboardKey(s, w, k, state)
             ks == IF state = "pressed" THEN s.keys \cup {k} ELSE s.keys \ {k}
  <1>1. /\ r \in Seats /\ Focuses(r) /\ SameEnabled(s, r)
        /\ r.queue = s.queue /\ r.keys = s.keys /\ r.got = s.got
    BY FocusWindowKeeps
  <1>2. t = [r EXCEPT !.keys = IF state = "pressed" THEN @ \cup {k} ELSE @ \ {k}]
    BY DEF KeyboardKey
  <1> HIDE DEF r, t
  <1>3. t = [r EXCEPT !.keys = ks] /\ ks \in SUBSET Codes
    BY <1>1, <1>2 DEF Seats
  <1> HIDE DEF ks
  <1>4. /\ t \in Seats /\ t.active = r.active /\ t.inputs = r.inputs
        /\ t.queue = r.queue /\ t.keys = ks /\ t.got = r.got
    BY <1>1, <1>3 DEF Seats
  <1> QED BY <1>1, <1>4 DEF Focuses, SameEnabled, t, ks

\* Shift pressed and released.
LEMMA ShiftKeeps ==
    ASSUME NEW s \in Seats, Focuses(s), NEW w \in Places, windows \subseteq Ids
    PROVE  /\ LET t == KeyboardKey(s, w, "shift", "pressed")
              IN  /\ t \in Seats /\ Focuses(t) /\ SameEnabled(s, t)
                  /\ t.queue = s.queue /\ t.got = s.got /\ t.keys = s.keys \cup {"shift"}
           /\ LET t == KeyboardKey(s, w, "shift", "released")
              IN  /\ t \in Seats /\ Focuses(t) /\ SameEnabled(s, t)
                  /\ t.queue = s.queue /\ t.got = s.got /\ t.keys = s.keys \ {"shift"}
  <1>1. \A state : LET t == KeyboardKey(s, w, "shift", state)
                   IN  /\ t \in Seats /\ Focuses(t) /\ SameEnabled(s, t)
                       /\ t.queue = s.queue /\ t.got = s.got
                       /\ state = "pressed" => t.keys = s.keys \cup {"shift"}
                       /\ state # "pressed" => t.keys = s.keys \ {"shift"}
    <2>1. "shift" \in Codes
      BY DEF Codes
    <2> QED BY <2>1, KeyboardKeyKeeps
  <1>2. "pressed" # "released"
    OBVIOUS
  <1> QED BY <1>1, <1>2

\* A text that the focused window's client gets.
LEMMA GotKeeps ==
    ASSUME NEW s \in Seats, Focuses(s), NEW item \in TextEvents, windows \subseteq Ids,
           item.id \in windows => s.active = item.id
    PROVE  LET t == Got(s, item)
           IN  /\ t \in Seats /\ Focuses(t) /\ SameEnabled(s, t)
               /\ t.active = s.active /\ t.queue = s.queue /\ t.keys = s.keys
               /\ \E g \in Gots : /\ t.got = Append(s.got, g)
                                  /\ g.n = item.n /\ g.kind = item.kind /\ g.id = item.id
                                  /\ g.gone = (item.id \notin windows)
                                  /\ g.to = item.id \/ g.gone
  <1> DEFINE t == Got(s, item)
             g == GotOf(s, item)
  <1>1. /\ g \in Gots /\ g.n = item.n /\ g.kind = item.kind /\ g.id = item.id
        /\ g.gone = (item.id \notin windows) /\ g.to = s.active
    BY DEF GotOf, Gots, TextEvents, Seats
  <1>2. t = [s EXCEPT !.got = Append(@, g)]
    BY DEF Got, GotOf
  <1> HIDE DEF g, t
  <1> DEFINE q == Append(s.got, g)
  <1>6. q \in Seq(Gots) /\ t = [s EXCEPT !.got = q]
    BY <1>1, <1>2 DEF Seats
  <1> HIDE DEF q
  <1>7. /\ t \in Seats /\ t.active = s.active /\ t.inputs = s.inputs
        /\ t.queue = s.queue /\ t.keys = s.keys /\ t.got = q
    BY <1>6 DEF Seats
  <1>3. /\ t \in Seats /\ t.active = s.active /\ t.inputs = s.inputs
        /\ t.queue = s.queue /\ t.keys = s.keys /\ t.got = Append(s.got, g)
    BY <1>7 DEF q
  <1>4. Focuses(t) /\ SameEnabled(s, t)
    BY <1>3 DEF Focuses, SameEnabled
  <1>5. g.to = item.id \/ g.gone
    BY <1>1
  <1> QED BY <1>1, <1>3, <1>4, <1>5 DEF t

\* synthesize_ascii_text: Shift is not down any more when it has been used.
LEMMA SynthesizeKeeps ==
    ASSUME NEW s \in Seats, Focuses(s), NEW item \in TextEvents, windows \subseteq Ids,
           item.id \in windows => s.active = item.id, item.kind # "other"
    PROVE  TextEffect(s, item, SynthesizeAsciiText(s, item))
  <1> DEFINE t == SynthesizeAsciiText(s, item)
             r == Got(s, item)
             u == KeyboardKey(r, item.id, "shift", "pressed")
             v == KeyboardKey(u, item.id, "shift", "released")
  <1>1. CASE s.active = None
    <2>1. t = s
      BY <1>1 DEF SynthesizeAsciiText
    <2> QED BY <2>1 DEF TextEffect, Outcome, SameEnabled, Seats
  <1>2. CASE s.active # None
    <2>1. /\ r \in Seats /\ Focuses(r) /\ SameEnabled(s, r)
          /\ r.queue = s.queue /\ r.keys = s.keys
          /\ \E g \in Gots : /\ r.got = Append(s.got, g)
                             /\ g.n = item.n /\ g.kind = item.kind /\ g.id = item.id
                             /\ g.gone = (item.id \notin windows)
                             /\ g.to = item.id \/ g.gone
      BY GotKeeps
    <2>2. item.id \in Places /\ "shift" \in Codes
      BY DEF TextEvents, Places, Codes
    <2>3. t = IF item.kind = "shifted" THEN v ELSE r
      BY <1>2 DEF SynthesizeAsciiText
    <2> HIDE DEF r, t
    <2>4. /\ u \in Seats /\ Focuses(u) /\ SameEnabled(r, u)
          /\ u.queue = r.queue /\ u.got = r.got /\ u.keys = r.keys \cup {"shift"}
      BY <2>1, <2>2, ShiftKeeps
    <2> HIDE DEF u
    <2>5. /\ v \in Seats /\ Focuses(v) /\ SameEnabled(u, v)
          /\ v.queue = u.queue /\ v.got = u.got /\ v.keys = u.keys \ {"shift"}
      BY <2>2, <2>4, ShiftKeeps
    <2> HIDE DEF v
    <2>6. /\ t \in Seats /\ Focuses(t) /\ SameEnabled(s, t) /\ t.keys \subseteq s.keys
          /\ t.queue = s.queue /\ t.got = r.got
      BY <2>1, <2>3, <2>4, <2>5 DEF SameEnabled
    <2>7. Outcome(s, item, t)
      BY <2>1, <2>6 DEF Outcome
    <2>8. Len(t.queue) <= Len(s.queue)
      BY <2>6 DEF Seats
    <2> QED BY <2>6, <2>7, <2>8 DEF TextEffect, t
  <1> QED BY <1>1, <1>2

\* queue_pending_text_input.
LEMMA QueuePendingKeeps ==
    ASSUME NEW s \in Seats, Focuses(s), NEW item \in TextEvents,
           item.id \in windows => ~Enabled(s, item.id)
    PROVE  TextEffect(s, item, QueuePending(s, item))
  <1> DEFINE t == QueuePending(s, item)
  <1>0. PendingLimit \in Nat /\ s.queue \in Seq(TextEvents)
    BY SeatAssumption DEF Seats
  <1>1. CASE Len(s.queue) >= PendingLimit
    <2>1. t = s
      BY <1>1 DEF QueuePending
    <2> QED BY <2>1, <1>0 DEF TextEffect, Outcome, SameEnabled
  <1>2. CASE ~(Len(s.queue) >= PendingLimit)
    <2>1. t = [s EXCEPT !.queue = Append(@, item)]
      BY <1>2 DEF QueuePending
    <2> HIDE DEF t
    <2> DEFINE q == Append(s.queue, item)
    <2>4. q \in Seq(TextEvents) /\ t = [s EXCEPT !.queue = q]
      BY <2>1, <1>0
    <2> HIDE DEF q
    <2>5. /\ t \in Seats /\ t.active = s.active /\ t.inputs = s.inputs
          /\ t.queue = q /\ t.keys = s.keys /\ t.got = s.got
      BY <2>4 DEF Seats
    <2>2. /\ t \in Seats /\ t.active = s.active /\ t.inputs = s.inputs
          /\ t.queue = Append(s.queue, item) /\ t.keys = s.keys /\ t.got = s.got
      BY <2>5 DEF q
    <2>3. Len(t.queue) <= PendingLimit
      BY <2>2, <1>2, <1>0
    <2> QED BY <2>2, <2>3 DEF TextEffect, Outcome, SameEnabled, Focuses, t
  <1> QED BY <1>1, <1>2

\* inject_text after focus_window.
LEMMA InjectKeeps ==
    ASSUME NEW s \in Seats, Focuses(s), NEW item \in TextEvents, windows \subseteq Ids
    PROVE  LET r == FocusWindow(s, item.id)
           IN  TextEffect(r, item, InjectText(s, item))
  <1> DEFINE r == FocusWindow(s, item.id)
             t == InjectText(s, item)
             ascii == item.kind \in {"ascii", "shifted"}
  <1>1. item.id \in Places /\ item.id \in Ids /\ item.id # None
    BY SeatAssumption DEF TextEvents, Places
  <1>2. r \in Seats /\ Focuses(r) /\ (item.id \in windows => r.active = item.id)
    BY <1>1, FocusWindowKeeps
  <1>3. t = CASE Delivery(r) = "sent" -> Got(r, item)
              [] Delivery(r) # "sent" /\ ascii -> SynthesizeAsciiText(r, item)
              [] Delivery(r) = "waiting" /\ ~ascii -> QueuePending(r, item)
              [] Delivery(r) = "unavailable" /\ ~ascii -> r
    BY DEF InjectText
  <1>4. /\ Delivery(r) \in {"sent", "waiting", "unavailable"}
        /\ item.id \in windows => (Delivery(r) = "sent" <=> Enabled(r, item.id))
    BY <1>1, <1>2 DEF Delivery, Enabled
  <1> HIDE DEF r, t
  <1>5. CASE Delivery(r) = "sent"
    <2>1. t = Got(r, item)
      BY <1>3, <1>5
    <2> DEFINE u == Got(r, item)
    <2>2. /\ u \in Seats /\ Focuses(u) /\ SameEnabled(r, u)
          /\ u.queue = r.queue /\ u.keys = r.keys
          /\ \E g \in Gots : /\ u.got = Append(r.got, g)
                             /\ g.n = item.n /\ g.kind = item.kind /\ g.id = item.id
                             /\ g.gone = (item.id \notin windows)
                             /\ g.to = item.id \/ g.gone
      BY <1>2, GotKeeps
    <2> HIDE DEF u
    <2>3. Outcome(r, item, u)
      BY <2>2, <1>4, <1>5 DEF Outcome
    <2>4. Len(u.queue) <= Len(r.queue)
      BY <2>2 DEF Seats
    <2>5. TextEffect(r, item, u)
      BY <2>2, <2>3, <2>4 DEF TextEffect
    <2> QED BY <2>1, <2>5 DEF u, r, t
  <1>6. CASE Delivery(r) # "sent" /\ ascii
    <2>1. t = SynthesizeAsciiText(r, item)
      BY <1>3, <1>6
    <2> QED BY <2>1, <1>2, <1>6, SynthesizeKeeps DEF r, t
  <1>7. CASE Delivery(r) = "waiting" /\ ~ascii
    <2>1. t = QueuePending(r, item)
      BY <1>3, <1>7
    <2>2. item.id \in windows => ~Enabled(r, item.id)
      BY <1>4, <1>7
    <2> QED BY <2>1, <2>2, <1>2, QueuePendingKeeps DEF r, t
  <1>8. CASE Delivery(r) = "unavailable" /\ ~ascii
    <2>1. t = r
      BY <1>3, <1>8
    <2>2. TextEffect(r, item, r)
      BY <1>2 DEF TextEffect, Outcome, SameEnabled, Seats
    <2> QED BY <2>1, <2>2 DEF r, t
  <1> QED BY <1>4, <1>5, <1>6, <1>7, <1>8

\* preedit_text_input after focus_window.
LEMMA PreeditKeeps ==
    ASSUME NEW s \in Seats, Focuses(s), NEW item \in TextEvents, windows \subseteq Ids
    PROVE  LET r == FocusWindow(s, item.id)
           IN  TextEffect(r, item, PreeditTextInput(s, item))
  <1> DEFINE r == FocusWindow(s, item.id)
             t == PreeditTextInput(s, item)
  <1>1. item.id \in Places /\ item.id \in Ids /\ item.id # None
    BY SeatAssumption DEF TextEvents, Places
  <1>2. r \in Seats /\ Focuses(r) /\ (item.id \in windows => r.active = item.id)
    BY <1>1, FocusWindowKeeps
  <1>3. t = IF Delivery(r) = "waiting" THEN QueuePending(r, item) ELSE r
    BY DEF PreeditTextInput
  <1>4. item.id \in windows => (Delivery(r) = "sent" <=> Enabled(r, item.id))
    BY <1>1, <1>2 DEF Delivery, Enabled
  <1> HIDE DEF r, t
  <1>5. CASE Delivery(r) = "waiting"
    <2>1. t = QueuePending(r, item)
      BY <1>3, <1>5
    <2>2. item.id \in windows => ~Enabled(r, item.id)
      BY <1>4, <1>5
    <2> QED BY <2>1, <2>2, <1>2, QueuePendingKeeps DEF r, t
  <1>6. CASE Delivery(r) # "waiting"
    <2>1. t = r
      BY <1>3, <1>6
    <2>2. TextEffect(r, item, r)
      BY <1>2 DEF TextEffect, Outcome, SameEnabled, Seats
    <2> QED BY <2>1, <2>2 DEF r, t
  <1> QED BY <1>5, <1>6

\* A text is lost, delivered or queued, whichever way it is handled.
LEMMA HandleTextEffect ==
    ASSUME NEW s \in Seats, Focuses(s), NEW item \in TextEvents, windows \subseteq Ids
    PROVE  TextEffect(s, item, HandleText(s, item))
  <1> DEFINE r == FocusWindow(s, item.id)
             t == HandleText(s, item)
  <1>1. item.id \in Places
    BY DEF TextEvents, Places
  <1>2. /\ r \in Seats /\ SameEnabled(s, r)
        /\ r.queue = s.queue /\ r.keys = s.keys /\ r.got = s.got
    BY <1>1, FocusWindowKeeps
  <1>3. TextEffect(r, item, t)
    BY InjectKeeps, PreeditKeeps DEF HandleText
  <1> HIDE DEF r, t
  <1>4. Enabled(r, item.id) <=> Enabled(s, item.id)
    BY <1>2 DEF Enabled, SameEnabled
  <1>5. SameEnabled(s, t)
    BY <1>2, <1>3 DEF TextEffect, SameEnabled
  <1>6. Outcome(s, item, t)
    BY <1>2, <1>3, <1>4 DEF TextEffect, Outcome
  <1> QED BY <1>2, <1>3, <1>5, <1>6 DEF TextEffect, t

-----------------------------------------------------------------------------
(* The order of the texts that are not typed as keys, in a state of the    *)
(* seat with the events R still to come: TextInOrder holds, what waits or  *)
(* is still to come was typed later, and what waits for a window that      *)
(* lives does so because its client has not enabled its text input.        *)

Other(e) == e.type = "text" /\ e.kind = "other"
Reached(g) == g.kind = "other" /\ ~g.gone

GotInOrder(got) ==
    /\ \A i \in DOMAIN got : got[i].to = got[i].id \/ got[i].gone
    /\ \A i, j \in DOMAIN got :
          i < j /\ got[i].id = got[j].id /\ Reached(got[i]) /\ Reached(got[j])
          => got[i].n < got[j].n
QueueInOrder(q) ==
    \A i, j \in DOMAIN q : i < j /\ Other(q[i]) /\ Other(q[j]) => q[i].n < q[j].n
QueueBefore(q, R) == \A i \in DOMAIN q, b \in R : Other(q[i]) /\ Other(b) => q[i].n < b.n
Before(g, b) == Reached(g) /\ Other(b) /\ b.id = g.id /\ b.id \in windows => g.n < b.n
GotBefore(got, R) == \A i \in DOMAIN got, b \in R : Before(got[i], b)
GotBeforeQueue(got, q) == \A i \in DOMAIN got, j \in DOMAIN q : Before(got[i], q[j])
WaitsDisabled(s) ==
    \A j \in DOMAIN s.queue :
       Other(s.queue[j]) /\ s.queue[j].id \in windows => ~Enabled(s, s.queue[j].id)

InOrder(s, R) ==
    /\ GotInOrder(s.got) /\ QueueInOrder(s.queue)
    /\ QueueBefore(s.queue, R) /\ GotBefore(s.got, R) /\ GotBeforeQueue(s.got, s.queue)
    /\ WaitsDisabled(s)

\* The members of a sequence with one more at its end.
LEMMA Appended ==
    ASSUME NEW X, NEW q \in Seq(X), NEW x \in X
    PROVE  /\ DOMAIN Append(q, x) = DOMAIN q \cup {Len(q) + 1}
           /\ \A i \in DOMAIN q : /\ Append(q, x)[i] = q[i] /\ i < Len(q) + 1 /\ i \in Nat
                                  /\ i # Len(q) + 1
           /\ Append(q, x)[Len(q) + 1] = x
           /\ Len(q) + 1 \in Nat
  OBVIOUS

\* A text that comes first of what is still to come keeps the order.
LEMMA EffectInOrder ==
    ASSUME NEW s \in Seats, NEW t, NEW item \in TextEvents, NEW R, NEW Q,
           InOrder(s, R), TextEffect(s, item, t),
           item \in R, Q \subseteq R, \A b \in Q : Other(item) /\ Other(b) => item.n < b.n
    PROVE  InOrder(t, Q)
  <1>0. /\ s.got \in Seq(Gots) /\ s.queue \in Seq(TextEvents)
        /\ SameEnabled(s, t) /\ Outcome(s, item, t)
    BY DEF Seats, TextEffect
  <1>1. \A w : Enabled(t, w) <=> Enabled(s, w)
    BY <1>0 DEF SameEnabled, Enabled
  <1>2. InOrder(s, Q)
    BY DEF InOrder, QueueBefore, GotBefore
  <1>3. CASE t.got = s.got /\ t.queue = s.queue
    BY <1>1, <1>2, <1>3 DEF InOrder, WaitsDisabled
  <1>4. CASE /\ t.queue = s.queue
             /\ \E g \in Gots : /\ t.got = Append(s.got, g)
                                /\ g.n = item.n /\ g.kind = item.kind /\ g.id = item.id
                                /\ g.gone = (item.id \notin windows)
                                /\ g.to = item.id \/ g.gone
             /\ item.kind = "other" /\ item.id \in windows => Enabled(s, item.id)
    <2>1. PICK g \in Gots : /\ t.got = Append(s.got, g)
                            /\ g.n = item.n /\ g.kind = item.kind /\ g.id = item.id
                            /\ g.gone = (item.id \notin windows)
                            /\ g.to = item.id \/ g.gone
      BY <1>4
    <2> DEFINE n == Len(s.got) + 1
    <2>2. /\ DOMAIN t.got = DOMAIN s.got \cup {n} /\ t.got[n] = g
          /\ \A i \in DOMAIN s.got : t.got[i] = s.got[i] /\ i < n /\ i \in Nat /\ i # n
          /\ n \in Nat
      BY <2>1, <1>0, Appended
    <2> HIDE DEF n
    <2>3. Reached(g) => Other(item) /\ item.id \in windows /\ item.id = g.id /\ Enabled(s, item.id)
      BY <2>1, <1>4 DEF Reached, Other, TextEvents
    <2>4. \A i \in DOMAIN s.got : Reached(s.got[i]) /\ Reached(g) /\ s.got[i].id = g.id => s.got[i].n < g.n
      BY <2>1, <2>3 DEF InOrder, GotBefore, Before
    <2>5. GotInOrder(t.got)
      <3>1. \A i \in DOMAIN t.got : t.got[i].to = t.got[i].id \/ t.got[i].gone
        BY <2>1, <2>2 DEF InOrder, GotInOrder
      <3>2. ASSUME NEW i \in DOMAIN t.got, NEW j \in DOMAIN t.got, i < j,
                   t.got[i].id = t.got[j].id, Reached(t.got[i]), Reached(t.got[j])
            PROVE  t.got[i].n < t.got[j].n
        <4>1. i \in DOMAIN s.got
          BY <3>2, <2>2
        <4>2. CASE j = n
          BY <4>1, <4>2, <3>2, <2>2, <2>4
        <4>3. CASE j \in DOMAIN s.got
          BY <4>1, <4>3, <3>2, <2>2 DEF InOrder, GotInOrder
        <4> QED BY <4>2, <4>3, <2>2
      <3> QED BY <3>1, <3>2 DEF GotInOrder
    <2>6. GotBefore(t.got, Q)
      <3>1. \A b \in Q : Before(g, b)
        BY <2>1, <2>3 DEF Before
      <3> QED BY <3>1, <2>2, <1>2 DEF InOrder, GotBefore
    <2>7. GotBeforeQueue(t.got, t.queue)
      <3>1. \A j \in DOMAIN s.queue : Before(g, s.queue[j])
        BY <2>3 DEF Before, InOrder, WaitsDisabled
      <3> QED BY <3>1, <2>2, <1>4 DEF InOrder, GotBeforeQueue
    <2> QED BY <2>5, <2>6, <2>7, <1>1, <1>2, <1>4 DEF InOrder, WaitsDisabled
  <1>5. CASE /\ t.got = s.got /\ t.queue = Append(s.queue, item)
             /\ item.id \in windows => ~Enabled(s, item.id)
    <2> DEFINE n == Len(s.queue) + 1
    <2>2. /\ DOMAIN t.queue = DOMAIN s.queue \cup {n} /\ t.queue[n] = item
          /\ \A i \in DOMAIN s.queue : t.queue[i] = s.queue[i] /\ i < n /\ i \in Nat /\ i # n
          /\ n \in Nat
      BY <1>5, <1>0, Appended
    <2> HIDE DEF n
    <2>3. \A i \in DOMAIN s.queue : Other(s.queue[i]) /\ Other(item) => s.queue[i].n < item.n
      BY DEF InOrder, QueueBefore
    <2>4. QueueInOrder(t.queue)
      <3> SUFFICES ASSUME NEW i \in DOMAIN t.queue, NEW j \in DOMAIN t.queue, i < j,
                          Other(t.queue[i]), Other(t.queue[j])
                   PROVE  t.queue[i].n < t.queue[j].n
        BY DEF QueueInOrder
      <3>1. i \in DOMAIN s.queue
        BY <2>2
      <3>2. CASE j = n
        BY <3>1, <3>2, <2>2, <2>3
      <3>3. CASE j \in DOMAIN s.queue
        BY <3>1, <3>3, <2>2 DEF InOrder, QueueInOrder
      <3> QED BY <3>2, <3>3, <2>2
    <2>5. QueueBefore(t.queue, Q)
      BY <2>2, <1>2 DEF InOrder, QueueBefore
    <2>6. GotBeforeQueue(t.got, t.queue)
      BY <2>2, <1>5 DEF InOrder, GotBefore, GotBeforeQueue
    <2>7. WaitsDisabled(t)
      BY <2>2, <1>1, <1>5 DEF InOrder, WaitsDisabled
    <2> QED BY <2>4, <2>5, <2>6, <2>7, <1>2, <1>5 DEF InOrder
  <1> QED BY <1>0, <1>3, <1>4, <1>5 DEF Outcome

(* What is known of a state of the seat, with the events R still to come,  *)
(* texts numbered up to m and windows up to b - 1.                         *)
TextKnown(e, m, b) == (e.kind = "other" => e.n <= m) /\ e.id < b
SeatOK(s, R, m, b) ==
    /\ s \in Seats /\ Focuses(s) /\ InOrder(s, R)
    /\ \A i \in DOMAIN s.queue : TextKnown(s.queue[i], m, b)
    /\ \A i \in DOMAIN s.got : TextKnown(s.got[i], m, b)
    /\ Len(s.queue) <= PendingLimit

\* One text.
LEMMA TextStep ==
    ASSUME NEW s, NEW item \in TextEvents, NEW R, NEW Q, NEW m \in Nat, NEW b \in Nat,
           windows \subseteq Ids, SeatOK(s, R, m, b), TextKnown(item, m, b),
           item \in R, Q \subseteq R, \A e \in Q : Other(item) /\ Other(e) => item.n < e.n
    PROVE  LET t == HandleText(s, item)
           IN  SeatOK(t, Q, m, b) /\ SameEnabled(s, t) /\ t.keys \subseteq s.keys
  <1> DEFINE t == HandleText(s, item)
  <1>1. TextEffect(s, item, t)
    BY HandleTextEffect DEF SeatOK
  <1> HIDE DEF t
  <1>2. InOrder(t, Q)
    BY <1>1, EffectInOrder DEF SeatOK
  <1>3. /\ s.got \in Seq(Gots) /\ s.queue \in Seq(TextEvents) /\ PendingLimit \in Nat
        /\ t.got \in Seq(Gots) /\ t.queue \in Seq(TextEvents)
    BY <1>1, SeatAssumption DEF SeatOK, Seats, TextEffect
  <1>4. Len(t.queue) <= PendingLimit
    BY <1>1, <1>3 DEF TextEffect, SeatOK
  <1>5. \A i \in DOMAIN t.queue : TextKnown(t.queue[i], m, b)
    <2>1. CASE t.queue = s.queue
      BY <2>1 DEF SeatOK
    <2>2. CASE t.queue = Append(s.queue, item)
      BY <2>2, <1>3, Appended DEF SeatOK
    <2> QED BY <2>1, <2>2, <1>1 DEF TextEffect, Outcome
  <1>6. \A i \in DOMAIN t.got : TextKnown(t.got[i], m, b)
    <2>1. CASE t.got = s.got
      BY <2>1 DEF SeatOK
    <2>2. ASSUME NEW g \in Gots, t.got = Append(s.got, g), g.n = item.n, g.id = item.id,
                 g.kind = item.kind
          PROVE  \A i \in DOMAIN t.got : TextKnown(t.got[i], m, b)
      <3>1. TextKnown(g, m, b)
        BY <2>2 DEF TextKnown
      <3> QED BY <3>1, <2>2, <1>3, Appended DEF SeatOK
    <2> QED BY <2>1, <2>2, <1>1 DEF TextEffect, Outcome
  <1> QED BY <1>1, <1>2, <1>4, <1>5, <1>6 DEF SeatOK, TextEffect, t

\* flush_pending_text_input: any number of texts, by induction.
LEMMA TextsStep ==
    ASSUME NEW s, NEW items \in Seq(TextEvents), NEW R, NEW m \in Nat, NEW b \in Nat,
           windows \subseteq Ids, SeatOK(s, R \cup {items[i] : i \in 1 .. Len(items)}, m, b),
           QueueInOrder(items), QueueBefore(items, R),
           \A i \in DOMAIN items : TextKnown(items[i], m, b)
    PROVE  LET t == HandleTexts(s, items)
           IN  SeatOK(t, R, m, b) /\ SameEnabled(s, t) /\ t.keys \subseteq s.keys
  <1> DEFINE N == Len(items)
             Rest(k) == R \cup {items[i] : i \in k + 1 .. N}
             Fine(t, k) == SeatOK(t, Rest(k), m, b) /\ SameEnabled(s, t) /\ t.keys \subseteq s.keys
  <1>0. N \in Nat /\ DOMAIN items = 1 .. N /\ \A i \in 1 .. N : items[i] \in TextEvents
    OBVIOUS
  <1>1. PICK a : /\ a[0] = s
                 /\ \A n \in 1 .. N : a[n] = HandleText(a[n - 1], items[n])
                 /\ HandleTexts(s, items) = a[N]
    BY HandleTextsSteps
  <1> DEFINE S == {k \in Nat : k <= N => Fine(a[k], k)}
  <1>2. 0 \in S
    <2>1. Rest(0) = R \cup {items[i] : i \in 1 .. N}
      OBVIOUS
    <2>2. SameEnabled(s, s)
      BY DEF SameEnabled
    <2> QED BY <2>1, <2>2, <1>1
  <1>3. ASSUME NEW k \in Nat, k \in S PROVE k + 1 \in S
    <2> SUFFICES ASSUME k + 1 <= N PROVE Fine(a[k + 1], k + 1)
      OBVIOUS
    <2> DEFINE item == items[k + 1]
    <2>1. Fine(a[k], k)
      BY <1>3, <1>0
    <2>2. k + 1 \in 1 .. N /\ item \in TextEvents /\ a[k + 1] = HandleText(a[k], item)
      BY <1>0, <1>1
    <2>3. item \in Rest(k) /\ Rest(k + 1) \subseteq Rest(k) /\ TextKnown(item, m, b)
      BY <1>0, <2>2
    <2>4. \A e \in Rest(k + 1) : Other(item) /\ Other(e) => item.n < e.n
      <3> SUFFICES ASSUME NEW e \in Rest(k + 1), Other(item), Other(e) PROVE item.n < e.n
        OBVIOUS
      <3>1. CASE e \in R
        BY <3>1, <2>2, <1>0 DEF QueueBefore
      <3>2. ASSUME NEW i \in k + 2 .. N, e = items[i] PROVE item.n < e.n
        <4>1. i \in DOMAIN items /\ k + 1 \in DOMAIN items /\ k + 1 < i
          BY <3>2, <2>2, <1>0
        <4> QED BY <4>1, <3>2 DEF QueueInOrder
      <3> QED BY <3>1, <3>2
    <2> HIDE DEF item, Rest
    <2>5. SeatOK(a[k + 1], Rest(k + 1), m, b) /\ SameEnabled(a[k], a[k + 1]) /\ a[k + 1].keys \subseteq a[k].keys
      BY <2>1, <2>2, <2>3, <2>4, TextStep
    <2> QED BY <2>1, <2>5 DEF SameEnabled
  <1>4. Fine(a[N], N)
    <2> HIDE DEF Fine, S
    <2>1. N \in S
      BY <1>0, <1>2, <1>3, Induction
    <2> QED BY <2>1, <1>0 DEF S
  <1>5. Rest(N) = R
    BY <1>0
  <1> QED BY <1>1, <1>4, <1>5

-----------------------------------------------------------------------------
(* The viewer's keys.  A key is live if the guest sees it pressed once the *)
(* events on their way have been handled.                                  *)

ModCodes == {"lctrl", "rctrl", "shift"}
Tracks == UNION {[D -> Places] : D \in SUBSET Codes}
Counts == UNION {[D -> Nat \ {0}] : D \in SUBSET ModCodes}
Mods == SUBSET {"control", "super", "shift"}
KeyStates == [pressed : Tracks, counts : Counts, sends : Seq(Events), mods : Mods]

Press(e, k) == e.type = "key" /\ e.key = k /\ e.state = "pressed"
Release(e, k) == e.type = "key" /\ e.key = k /\ e.state = "released"
LiveIn(down, q, k) ==
    \/ k \in down /\ \A i \in DOMAIN q : ~Release(q[i], k)
    \/ \E i \in DOMAIN q : Press(q[i], k) /\ \A j \in DOMAIN q : j > i => ~Release(q[j], k)

\* An event at the end of the queue.
LEMMA LiveAppend ==
    ASSUME NEW down, NEW q \in Seq(Events), NEW e \in Events, NEW k,
           LiveIn(down, Append(q, e), k)
    PROVE  Press(e, k) \/ (LiveIn(down, q, k) /\ ~Release(e, k))
  <1> DEFINE r == Append(q, e)
             n == Len(q) + 1
  <1>1. /\ DOMAIN r = DOMAIN q \cup {n} /\ r[n] = e /\ n \in Nat
        /\ \A i \in DOMAIN q : r[i] = q[i] /\ i < n /\ i \in Nat /\ i # n
    BY Appended
  <1> HIDE DEF r, n
  <1>2. CASE k \in down /\ \A i \in DOMAIN r : ~Release(r[i], k)
    BY <1>1, <1>2 DEF LiveIn
  <1>3. CASE \E i \in DOMAIN r : Press(r[i], k) /\ \A j \in DOMAIN r : j > i => ~Release(r[j], k)
    <2>1. PICK i \in DOMAIN r : Press(r[i], k) /\ \A j \in DOMAIN r : j > i => ~Release(r[j], k)
      BY <1>3
    <2>2. CASE i = n
      BY <2>1, <2>2, <1>1
    <2>3. CASE i \in DOMAIN q
      <3>1. Press(q[i], k) /\ \A j \in DOMAIN q : j > i => ~Release(q[j], k)
        BY <2>1, <2>3, <1>1
      <3>2. n > i
        BY <2>3, <1>1
      <3>3. ~Release(e, k)
        BY <2>1, <3>2, <1>1
      <3> QED BY <3>1, <3>3, <2>3 DEF LiveIn
    <2> QED BY <2>2, <2>3, <1>1
  <1> QED BY <1>2, <1>3 DEF LiveIn, r

\* Releases at the end of the queue.
LEMMA LiveConcat ==
    ASSUME NEW down, NEW q \in Seq(Events), NEW r \in Seq(Events), NEW k,
           \A i \in DOMAIN r : ~Press(r[i], k), LiveIn(down, q \o r, k)
    PROVE  LiveIn(down, q, k) /\ \A i \in DOMAIN r : ~Release(r[i], k)
  <1> DEFINE c == q \o r
             n == Len(q)
  <1>1. /\ n \in Nat /\ DOMAIN q = 1 .. n /\ DOMAIN r = 1 .. Len(r) /\ Len(r) \in Nat
        /\ DOMAIN c = 1 .. n + Len(r)
        /\ \A i \in 1 .. n : c[i] = q[i]
        /\ \A i \in 1 .. Len(r) : c[n + i] = r[i]
    OBVIOUS
  <1> HIDE DEF c, n
  <1>2. CASE k \in down /\ \A i \in DOMAIN c : ~Release(c[i], k)
    <2>1. \A i \in DOMAIN q : ~Release(q[i], k)
      BY <1>1, <1>2
    <2>2. \A i \in DOMAIN r : ~Release(r[i], k)
      BY <1>1, <1>2
    <2> QED BY <2>1, <2>2, <1>2 DEF LiveIn
  <1>3. CASE \E i \in DOMAIN c : Press(c[i], k) /\ \A j \in DOMAIN c : j > i => ~Release(c[j], k)
    <2>1. PICK i \in DOMAIN c : Press(c[i], k) /\ \A j \in DOMAIN c : j > i => ~Release(c[j], k)
      BY <1>3
    <2>2. i <= n
      <3> SUFFICES ASSUME i > n PROVE FALSE
        BY <1>1
      <3>1. i - n \in DOMAIN r /\ c[i] = r[i - n]
        BY <1>1
      <3> QED BY <3>1, <2>1
    <2>3. i \in DOMAIN q /\ Press(q[i], k) /\ \A j \in DOMAIN q : j > i => ~Release(q[j], k)
      BY <2>1, <2>2, <1>1
    <2>4. \A j \in DOMAIN r : ~Release(r[j], k)
      <3> SUFFICES ASSUME NEW j \in DOMAIN r PROVE ~Release(r[j], k)
        OBVIOUS
      <3>1. n + j \in DOMAIN c /\ n + j > i /\ c[n + j] = r[j]
        BY <2>2, <1>1
      <3> QED BY <3>1, <2>1
    <2> QED BY <2>3, <2>4 DEF LiveIn
  <1> QED BY <1>2, <1>3 DEF LiveIn, c

\* The windows of the tracked keys.
LEMMA TracksFcn ==
    ASSUME NEW f \in Tracks
    PROVE  DOMAIN f \subseteq Codes /\ \A k \in DOMAIN f : f[k] \in Places
  BY DEF Tracks

\* With a key.
LEMMA TracksWith ==
    ASSUME NEW f \in Tracks, NEW k \in Codes, NEW w \in Places
    PROVE  LET g == With(f, k, w)
           IN  /\ g \in Tracks /\ DOMAIN g = DOMAIN f \cup {k} /\ g[k] = w
               /\ \A j \in DOMAIN f : j # k => g[j] = f[j]
  <1>1. DOMAIN f \in SUBSET Codes /\ \A j \in DOMAIN f : f[j] \in Places
    BY TracksFcn
  <1>2. With(f, k, w) \in [DOMAIN f \cup {k} -> Places]
    BY <1>1 DEF With
  <1>3. DOMAIN f \cup {k} \in SUBSET Codes
    BY <1>1
  <1> QED BY <1>2, <1>3 DEF Tracks, With

\* Without some keys.
LEMMA TracksWithout ==
    ASSUME NEW f \in Tracks, NEW ks
    PROVE  LET g == Without(f, ks)
           IN  /\ g \in Tracks /\ DOMAIN g = DOMAIN f \ ks
               /\ \A j \in DOMAIN f : j \notin ks => g[j] = f[j]
  <1>1. DOMAIN f \in SUBSET Codes /\ \A j \in DOMAIN f : f[j] \in Places
    BY TracksFcn
  <1>2. Without(f, ks) \in [DOMAIN f \ ks -> Places]
    BY <1>1 DEF Without
  <1>3. DOMAIN f \ ks \in SUBSET Codes
    BY <1>1
  <1> QED BY <1>2, <1>3 DEF Tracks, Without

\* The counts of the modifiers.
LEMMA CountsFcn ==
    ASSUME NEW f \in Counts
    PROVE  DOMAIN f \subseteq ModCodes /\ \A k \in DOMAIN f : f[k] \in Nat \ {0}
  BY DEF Counts

\* With a key.
LEMMA CountsWith ==
    ASSUME NEW f \in Counts, NEW k \in ModCodes, NEW w \in Nat \ {0}
    PROVE  LET g == With(f, k, w)
           IN  /\ g \in Counts /\ DOMAIN g = DOMAIN f \cup {k} /\ g[k] = w
               /\ \A j \in DOMAIN f : j # k => g[j] = f[j]
  <1>1. DOMAIN f \in SUBSET ModCodes /\ \A j \in DOMAIN f : f[j] \in Nat \ {0}
    BY CountsFcn
  <1>2. With(f, k, w) \in [DOMAIN f \cup {k} -> Nat \ {0}]
    BY <1>1 DEF With
  <1>3. DOMAIN f \cup {k} \in SUBSET ModCodes
    BY <1>1
  <1> QED BY <1>2, <1>3 DEF Counts, With

\* Without some keys.
LEMMA CountsWithout ==
    ASSUME NEW f \in Counts, NEW ks
    PROVE  LET g == Without(f, ks)
           IN  /\ g \in Counts /\ DOMAIN g = DOMAIN f \ ks
               /\ \A j \in DOMAIN f : j \notin ks => g[j] = f[j]
  <1>1. DOMAIN f \in SUBSET ModCodes /\ \A j \in DOMAIN f : f[j] \in Nat \ {0}
    BY CountsFcn
  <1>2. Without(f, ks) \in [DOMAIN f \ ks -> Nat \ {0}]
    BY <1>1 DEF Without
  <1>3. DOMAIN f \ ks \in SUBSET ModCodes
    BY <1>1
  <1> QED BY <1>2, <1>3 DEF Counts, Without

\* There is a sequence of the releases of some keys: one for each of them.
LEMMA ReleasesAll ==
    ASSUME NEW ks \in SUBSET Codes, NEW w \in Places
    PROVE  LET q == Releases(w, ks)
           IN  /\ q \in Seq(Events)
               /\ \A i \in DOMAIN q : q[i].type = "key" /\ q[i].state = "released" /\ q[i].key \in ks
               /\ \A k \in ks : \E i \in DOMAIN q : Release(q[i], k)
  <1> DEFINE C == Cardinality(ks)
             E == {Key(w, k, "released") : k \in ks}
             Fine(q) == \A k \in ks : \E i \in DOMAIN q : q[i].key = k
             q == Releases(w, ks)
  <1>1. IsFiniteSet(Codes)
    <2>1. IsFiniteSet({"lctrl"}) BY FS_Singleton
    <2>2. IsFiniteSet({"lctrl"} \cup {"rctrl"}) BY <2>1, FS_AddElement
    <2>3. IsFiniteSet({"lctrl"} \cup {"rctrl"} \cup {"shift"}) BY <2>2, FS_AddElement
    <2>4. IsFiniteSet({"lctrl"} \cup {"rctrl"} \cup {"shift"} \cup {"t"}) BY <2>3, FS_AddElement
    <2>5. IsFiniteSet({"lctrl"} \cup {"rctrl"} \cup {"shift"} \cup {"t"} \cup {"space"}) BY <2>4, FS_AddElement
    <2>6. IsFiniteSet({"lctrl"} \cup {"rctrl"} \cup {"shift"} \cup {"t"} \cup {"space"} \cup {"enter"})
      BY <2>5, FS_AddElement
    <2>7. IsFiniteSet({"lctrl"} \cup {"rctrl"} \cup {"shift"} \cup {"t"} \cup {"space"} \cup {"enter"} \cup {"equal"})
      BY <2>6, FS_AddElement
    <2>8. {"lctrl"} \cup {"rctrl"} \cup {"shift"} \cup {"t"} \cup {"space"} \cup {"enter"} \cup {"equal"} = Codes
      BY DEF Codes
    <2> QED BY <2>7, <2>8
  <1>2. C \in Nat /\ \E f : f \in Bijection(1 .. C, ks)
    <2>1. IsFiniteSet(ks)
      BY <1>1, FS_Subset
    <2> QED BY <2>1, FS_CardinalityType DEF ExistsBijection
  <1>3. PICK f : f \in [1 .. C -> ks] /\ \A k \in ks : \E i \in 1 .. C : f[i] = k
    BY <1>2 DEF Bijection, Surjection
  <1>4. \E r \in [1 .. C -> E] : Fine(r)
    <2> DEFINE r == [i \in 1 .. C |-> Key(w, f[i], "released")]
    <2>1. r \in [1 .. C -> E]
      BY <1>3
    <2>2. Fine(r)
      BY <1>3 DEF Key
    <2> QED BY <2>1, <2>2
  <1>5. q = CHOOSE r \in [1 .. C -> E] : Fine(r)
    BY DEF Releases
  <1> HIDE DEF C, E, q
  <1>6. q \in [1 .. C -> E] /\ Fine(q)
    BY <1>4, <1>5
  <1>7. \A e \in E : e \in Events /\ e.type = "key" /\ e.state = "released" /\ e.key \in ks
    BY DEF E, Key, Events, KeyEvents
  <1>8. q \in Seq(Events) /\ DOMAIN q = 1 .. C
    BY <1>2, <1>6, <1>7
  <1>9. \A i \in DOMAIN q : q[i].type = "key" /\ q[i].state = "released" /\ q[i].key \in ks
    BY <1>6, <1>7
  <1>10. \A k \in ks : \E i \in DOMAIN q : Release(q[i], k)
    BY <1>6, <1>9 DEF Release
  <1> QED BY <1>8, <1>9, <1>10 DEF q

-----------------------------------------------------------------------------
(* What the viewer tracks, with the events s.sends it is about to send and *)
(* the focus in f: every live key is tracked, for the window with the      *)
(* focus; the counts are those of the modifiers among them.                *)

TrackOK(s, f) ==
    /\ s \in KeyStates
    /\ \A k \in DOMAIN s.pressed : s.pressed[k] = f /\ f # None
    /\ \A k \in Codes : LiveIn(pressed, inbox \o s.sends, k) => k \in DOMAIN s.pressed
SendsOK(s, f) ==
    \A i \in DOMAIN s.sends :
       s.sends[i].type = "text" => s.sends[i].id = f /\ s.sends[i].kind # "other"
CountOK(s) == DOMAIN s.counts = DOMAIN s.pressed \cap ModCodes
KeysOK(s, f) == TrackOK(s, f) /\ SendsOK(s, f) /\ CountOK(s)

(* A key that is tracked is held, a modifier at least as often as counted. *)
One(b) == IF b THEN 1 ELSE 0
HeldCount(h, k) ==
    IF k = "lctrl" THEN One("ControlLeft" \in h) + One("SuperLeft" \in h)
    ELSE IF k = "rctrl" THEN One("ControlRight" \in h) ELSE One("ShiftLeft" \in h)
HeldOK(s, h) ==
    /\ \A k \in DOMAIN s.counts : s.counts[k] <= HeldCount(h, k)
    /\ "t" \in DOMAIN s.pressed => "KeyT" \in h
    /\ "enter" \in DOMAIN s.pressed => "Enter" \in h
    /\ "equal" \in DOMAIN s.pressed => "Equal" \in h

(* Concatenation is associative; the operator keeps the equation whole.    *)
Assoc(p, q, r) == p \o (q \o r) = (p \o q) \o r

\* Events after events after events.
LEMMA ConcatAssoc ==
    ASSUME NEW X, NEW p \in Seq(X), NEW q \in Seq(X), NEW r \in Seq(X)
    PROVE  Assoc(p, q, r)
  BY DEF Assoc

\* One more event to send.
LEMMA SendOne ==
    ASSUME inbox \in Seq(Events), NEW q \in Seq(Events), NEW e \in Events, NEW k,
           LiveIn(pressed, inbox \o Append(q, e), k)
    PROVE  Press(e, k) \/ (LiveIn(pressed, inbox \o q, k) /\ ~Release(e, k))
  <1> DEFINE p == inbox \o q
  <1>1. inbox \o Append(q, e) = Append(p, e) /\ p \in Seq(Events)
    OBVIOUS
  <1>2. LiveIn(pressed, Append(p, e), k)
    BY <1>1, Zenon
  <1> HIDE DEF p
  <1>3. Press(e, k) \/ (LiveIn(pressed, p, k) /\ ~Release(e, k))
    BY <1>1, <1>2, LiveAppend
  <1> QED BY <1>3 DEF p

\* More events to send, none of them a press.
LEMMA SendMore ==
    ASSUME inbox \in Seq(Events), NEW q \in Seq(Events), NEW r \in Seq(Events), NEW k,
           \A i \in DOMAIN r : ~Press(r[i], k), LiveIn(pressed, inbox \o (q \o r), k)
    PROVE  LiveIn(pressed, inbox \o q, k) /\ \A i \in DOMAIN r : ~Release(r[i], k)
  <1> DEFINE p == inbox \o q
  <1>1. inbox \o (q \o r) = p \o r /\ p \in Seq(Events)
    OBVIOUS
  <1>2. LiveIn(pressed, p \o r, k)
    BY <1>1, Zenon
  <1> HIDE DEF p
  <1>3. LiveIn(pressed, p, k) /\ \A i \in DOMAIN r : ~Release(r[i], k)
    BY <1>1, <1>2, LiveConcat
  <1> QED BY <1>3 DEF p

\* send_tracked_guest_key.
LEMMA SendTrackedKeyOK ==
    ASSUME inbox \in Seq(Events), NEW f \in Ids, NEW s, TrackOK(s, f), SendsOK(s, f),
           NEW w, NEW k \in Codes, NEW state \in {"pressed", "released"},
           state = "pressed" => w = f
    PROVE  LET t == SendTrackedKey(s, w, k, state)
           IN  /\ TrackOK(t, f) /\ SendsOK(t, f) /\ t.counts = s.counts /\ t.mods = s.mods
               /\ state = "pressed" => DOMAIN t.pressed = DOMAIN s.pressed \cup {k}
               /\ state # "pressed" => DOMAIN t.pressed = DOMAIN s.pressed \ {k}
  <1> DEFINE t == SendTrackedKey(s, w, k, state)
  <1>0. /\ f # None /\ f \in Places /\ s \in KeyStates /\ s.pressed \in Tracks
        /\ s.sends \in Seq(Events)
    BY SeatAssumption DEF Places, TrackOK, KeyStates
  <1>1. CASE state = "pressed"
    <2> DEFINE e == Key(f, k, state)
               g == With(s.pressed, k, f)
               q == Append(s.sends, e)
    <2>1. e \in Events /\ e.type = "key" /\ ~Release(e, k)
          /\ \A j : Press(e, j) => j = k
      BY <1>1, <1>0 DEF Key, Events, KeyEvents, Release, Press
    <2>10. /\ g \in Tracks /\ DOMAIN g = DOMAIN s.pressed \cup {k} /\ g[k] = f
           /\ \A j \in DOMAIN s.pressed : j # k => g[j] = s.pressed[j]
      BY <1>0, TracksWith
    <2>2. /\ g \in Tracks /\ DOMAIN g = DOMAIN s.pressed \cup {k}
          /\ \A j \in DOMAIN g : g[j] = f
      <3> HIDE DEF g
      <3> QED BY <2>10 DEF TrackOK
    <2>3. t = [s EXCEPT !.pressed = g, !.sends = q]
      BY <1>1 DEF SendTrackedKey
    <2> HIDE DEF e, g, t
    <2>4. q \in Seq(Events)
      BY <1>0, <2>1
    <2>5. /\ DOMAIN q = DOMAIN s.sends \cup {Len(s.sends) + 1} /\ q[Len(s.sends) + 1] = e
          /\ \A i \in DOMAIN s.sends : q[i] = s.sends[i]
      BY <1>0, <2>1, Appended
    <2>6. \A j \in Codes : LiveIn(pressed, inbox \o q, j) => j \in DOMAIN g
      BY <1>0, <2>1, <2>2, SendOne DEF TrackOK
    <2> HIDE DEF q
    <2>7. /\ t \in KeyStates /\ t.pressed = g /\ t.sends = q /\ t.counts = s.counts /\ t.mods = s.mods
      BY <1>0, <2>2, <2>3, <2>4 DEF KeyStates
    <2>8. SendsOK(t, f)
      BY <2>1, <2>5, <2>7 DEF SendsOK
    <2>9. TrackOK(t, f)
      BY <1>0, <2>2, <2>6, <2>7 DEF TrackOK
    <2> QED BY <1>1, <2>2, <2>7, <2>8, <2>9 DEF t
  <1>2. CASE state # "pressed" /\ k \in DOMAIN s.pressed
    <2> DEFINE e == Key(s.pressed[k], k, state)
               g == Without(s.pressed, {k})
               q == Append(s.sends, e)
    <2>1. e \in Events /\ e.type = "key" /\ Release(e, k)
          /\ \A j : ~Press(e, j)
      BY <1>2, <1>0 DEF Key, Events, KeyEvents, Release, Press, TrackOK
    <2>10. /\ g \in Tracks /\ DOMAIN g = DOMAIN s.pressed \ {k}
           /\ \A j \in DOMAIN s.pressed : j \notin {k} => g[j] = s.pressed[j]
      BY <1>0, TracksWithout
    <2>2. /\ g \in Tracks /\ DOMAIN g = DOMAIN s.pressed \ {k}
          /\ \A j \in DOMAIN g : g[j] = f
      <3> HIDE DEF g
      <3> QED BY <2>10 DEF TrackOK
    <2>3. t = [s EXCEPT !.pressed = g, !.sends = q]
      BY <1>2 DEF SendTrackedKey
    <2> HIDE DEF e, g, t
    <2>4. q \in Seq(Events)
      BY <1>0, <2>1
    <2>5. /\ DOMAIN q = DOMAIN s.sends \cup {Len(s.sends) + 1} /\ q[Len(s.sends) + 1] = e
          /\ \A i \in DOMAIN s.sends : q[i] = s.sends[i]
      BY <1>0, <2>1, Appended
    <2>6. \A j \in Codes : LiveIn(pressed, inbox \o q, j) => j \in DOMAIN g
      BY <1>0, <2>1, <2>2, SendOne DEF TrackOK
    <2> HIDE DEF q
    <2>7. /\ t \in KeyStates /\ t.pressed = g /\ t.sends = q /\ t.counts = s.counts /\ t.mods = s.mods
      BY <1>0, <2>2, <2>3, <2>4 DEF KeyStates
    <2>8. SendsOK(t, f)
      BY <2>1, <2>5, <2>7 DEF SendsOK
    <2>9. TrackOK(t, f)
      BY <1>0, <2>2, <2>6, <2>7 DEF TrackOK
    <2> QED BY <1>2, <2>2, <2>7, <2>8, <2>9 DEF t
  <1>3. CASE state # "pressed" /\ k \notin DOMAIN s.pressed
    <2>1. t = s
      BY <1>3 DEF SendTrackedKey
    <2> QED BY <2>1, <1>3
  <1> QED BY <1>1, <1>2, <1>3

\* A record of the keys with other counts.
LEMMA WithCounts ==
    ASSUME NEW s \in KeyStates, NEW c \in Counts
    PROVE  LET t == [s EXCEPT !.counts = c]
           IN  /\ t \in KeyStates /\ t.counts = c
               /\ t.pressed = s.pressed /\ t.sends = s.sends /\ t.mods = s.mods
  BY DEF KeyStates

\* A record of the keys with other modifiers.
LEMMA WithMods ==
    ASSUME NEW s \in KeyStates, NEW m \in Mods
    PROVE  LET t == [s EXCEPT !.mods = m]
           IN  /\ t \in KeyStates /\ t.mods = m
               /\ t.pressed = s.pressed /\ t.sends = s.sends /\ t.counts = s.counts
  BY DEF KeyStates

\* A record of the keys with other events to send.
LEMMA WithSends ==
    ASSUME NEW s \in KeyStates, NEW q \in Seq(Events)
    PROVE  LET t == [s EXCEPT !.sends = q]
           IN  /\ t \in KeyStates /\ t.sends = q
               /\ t.pressed = s.pressed /\ t.mods = s.mods /\ t.counts = s.counts
  BY DEF KeyStates

\* send_tracked_guest_modifier_key: the count of the one modifier changes, and
\* it is tracked as long as it is counted.
LEMMA SendTrackedModifierOK ==
    ASSUME inbox \in Seq(Events), NEW f \in Ids, NEW s, KeysOK(s, f),
           NEW k \in ModCodes, NEW state \in {"pressed", "released"}
    PROVE  LET t == SendTrackedModifier(s, f, k, state)
           IN  /\ KeysOK(t, f) /\ t.mods = s.mods
               /\ DOMAIN t.pressed \ {k} = DOMAIN s.pressed \ {k}
               /\ \A j \in DOMAIN t.counts : j # k => t.counts[j] = s.counts[j]
               /\ state = "pressed" => t.counts[k] = IF k \in DOMAIN s.counts THEN s.counts[k] + 1 ELSE 1
               /\ state = "released" /\ k \in DOMAIN t.counts =>
                     k \in DOMAIN s.counts /\ t.counts[k] = s.counts[k] - 1
  <1> DEFINE t == SendTrackedModifier(s, f, k, state)
             c == ModifierCounts(s, k, state)
             counted == [s EXCEPT !.counts = c]
             n == IF k \in DOMAIN s.counts THEN s.counts[k] ELSE 0
  <1>0. /\ s \in KeyStates /\ s.counts \in Counts /\ k \in Codes
        /\ DOMAIN s.counts = DOMAIN s.pressed \cap ModCodes
    BY DEF KeysOK, TrackOK, CountOK, KeyStates, ModCodes, Codes
  <1>1. n \in Nat /\ (k \in DOMAIN s.counts => n \in Nat \ {0})
    BY <1>0, CountsFcn
  <1>2. c = CASE state = "pressed" -> With(s.counts, k, n + 1)
              [] state = "released" /\ n > 1 -> With(s.counts, k, n - 1)
              [] state = "released" /\ n <= 1 -> Without(s.counts, {k})
    BY DEF ModifierCounts
  <1>3. t = IF ModifierForward(s, k, state) THEN SendTrackedKey(counted, f, k, state) ELSE counted
    BY DEF SendTrackedModifier
  <1> HIDE DEF t, c
  <1>4. /\ c \in Counts /\ DOMAIN c \ {k} = DOMAIN s.counts \ {k}
        /\ \A j \in DOMAIN c : j # k => c[j] = s.counts[j]
        /\ state = "pressed" => k \in DOMAIN c /\ c[k] = n + 1
        /\ state = "released" => (k \in DOMAIN c <=> n > 1) /\ (n > 1 => c[k] = n - 1)
    <2> HIDE DEF n
    <2>1. CASE state = "pressed"
      <3>1. c = With(s.counts, k, n + 1) /\ n + 1 \in Nat \ {0}
        BY <2>1, <1>1, <1>2
      <3> DEFINE d == With(s.counts, k, n + 1)
      <3>2. /\ d \in Counts /\ DOMAIN d = DOMAIN s.counts \cup {k} /\ d[k] = n + 1
            /\ \A j \in DOMAIN s.counts : j # k => d[j] = s.counts[j]
        BY <3>1, <1>0, CountsWith
      <3> HIDE DEF d
      <3>3. c = d
        BY <3>1 DEF d
      <3> QED BY <3>2, <3>3, <2>1
    <2>2. CASE state = "released" /\ n > 1
      <3>1. c = With(s.counts, k, n - 1) /\ n - 1 \in Nat \ {0}
        BY <2>2, <1>1, <1>2
      <3>2. k \in DOMAIN s.counts
        BY <2>2, <1>1 DEF n
      <3> DEFINE d == With(s.counts, k, n - 1)
      <3>3. /\ d \in Counts /\ DOMAIN d = DOMAIN s.counts \cup {k} /\ d[k] = n - 1
            /\ \A j \in DOMAIN s.counts : j # k => d[j] = s.counts[j]
        BY <3>1, <1>0, CountsWith
      <3> HIDE DEF d
      <3>4. c = d
        BY <3>1 DEF d
      <3> QED BY <3>2, <3>3, <3>4, <2>2
    <2>3. CASE state = "released" /\ ~(n > 1)
      <3>1. c = Without(s.counts, {k})
        BY <2>3, <1>1, <1>2
      <3> DEFINE d == Without(s.counts, {k})
      <3>2. /\ d \in Counts /\ DOMAIN d = DOMAIN s.counts \ {k}
            /\ \A j \in DOMAIN s.counts : j \notin {k} => d[j] = s.counts[j]
        BY <1>0, CountsWithout
      <3> HIDE DEF d
      <3>3. c = d
        BY <3>1 DEF d
      <3> QED BY <3>2, <3>3, <2>3
    <2> QED BY <2>1, <2>2, <2>3
  <1>5. /\ counted \in KeyStates /\ counted.counts = c
        /\ counted.pressed = s.pressed /\ counted.sends = s.sends /\ counted.mods = s.mods
    BY <1>0, <1>4, WithCounts
  <1> HIDE DEF counted
  <1>6. TrackOK(counted, f) /\ SendsOK(counted, f)
    BY <1>5 DEF KeysOK, TrackOK, SendsOK
  <1>7. CASE ModifierForward(s, k, state)
    <2> DEFINE u == SendTrackedKey(counted, f, k, state)
    <2>1. /\ TrackOK(u, f) /\ SendsOK(u, f) /\ u.counts = c /\ u.mods = s.mods
          /\ state = "pressed" => DOMAIN u.pressed = DOMAIN s.pressed \cup {k}
          /\ state # "pressed" => DOMAIN u.pressed = DOMAIN s.pressed \ {k}
      <3>1. /\ TrackOK(u, f) /\ SendsOK(u, f) /\ u.counts = counted.counts /\ u.mods = counted.mods
            /\ state = "pressed" => DOMAIN u.pressed = DOMAIN counted.pressed \cup {k}
            /\ state # "pressed" => DOMAIN u.pressed = DOMAIN counted.pressed \ {k}
        <4>1. k \in Codes
          BY <1>0
        <4> HIDE DEF n
        <4> QED BY <4>1, <1>6, SendTrackedKeyOK
      <3> QED BY <3>1, <1>5
    <2>2. t = u
      BY <1>3, <1>7
    <2> HIDE DEF u
    <2>3. state = "released" => n = 1 /\ k \in DOMAIN s.counts
      BY <1>7 DEF ModifierForward
    <2>4. DOMAIN c = DOMAIN u.pressed \cap ModCodes
      <3>1. CASE state = "pressed"
        <4>1. DOMAIN u.pressed = DOMAIN s.pressed \cup {k} /\ k \in DOMAIN c
          BY <3>1, <2>1, <1>4
        <4> QED BY <4>1, <1>0, <1>4
      <3>2. CASE state = "released"
        <4>1. DOMAIN u.pressed = DOMAIN s.pressed \ {k} /\ k \notin DOMAIN c
          BY <3>2, <2>1, <2>3, <1>4
        <4> QED BY <4>1, <1>0, <1>4
      <3> QED BY <3>1, <3>2
    <2>5. CountOK(u)
      BY <2>1, <2>4 DEF CountOK
    <2> QED BY <2>1, <2>2, <2>3, <2>5, <1>1, <1>4 DEF KeysOK, t
  <1>8. CASE ~ModifierForward(s, k, state)
    <2>1. t = counted
      BY <1>3, <1>8
    <2>2. /\ state = "pressed" => k \in DOMAIN s.counts
          /\ state = "released" => k \notin DOMAIN s.counts \/ n # 1
      BY <1>8 DEF ModifierForward
    <2>4. k \in DOMAIN c <=> k \in DOMAIN s.counts
      <3>1. CASE state = "pressed"
        BY <3>1, <2>2, <1>4
      <3>2. CASE state = "released"
        BY <3>2, <2>2, <1>1, <1>4
      <3> QED BY <3>1, <3>2
    <2>3. CountOK(counted)
      BY <2>4, <1>0, <1>4, <1>5 DEF CountOK
    <2> QED BY <2>1, <2>2, <2>3, <1>0, <1>1, <1>4, <1>5, <1>6 DEF KeysOK, t
  <1> QED BY <1>7, <1>8

\* release_window_guest_keys: with the focus in that window, every key.
LEMMA ReleaseWindowKeysOK ==
    ASSUME inbox \in Seq(Events), NEW f \in Places, NEW s, KeysOK(s, f), NEW w \in Ids
    PROVE  LET t == ReleaseWindowKeys(s, w)
           IN  /\ KeysOK(t, f) /\ t.mods = s.mods
               /\ DOMAIN t.pressed \subseteq DOMAIN s.pressed
               /\ \A j \in DOMAIN t.counts : j \in DOMAIN s.counts /\ t.counts[j] = s.counts[j]
               /\ w = f => DOMAIN t.pressed = {}
               /\ \A i \in DOMAIN t.sends : t.sends[i].type = "text" => i \in DOMAIN s.sends
  <1> DEFINE ks == {k \in DOMAIN s.pressed : s.pressed[k] = w}
             t == ReleaseWindowKeys(s, w)
             g == Without(s.pressed, ks)
             c == Without(s.counts, ks)
             r == Releases(w, ks)
             q == s.sends \o r
  <1>0. /\ s \in KeyStates /\ s.pressed \in Tracks /\ s.counts \in Counts
        /\ s.sends \in Seq(Events) /\ w \in Places
    BY DEF KeysOK, TrackOK, KeyStates, Places
  <1>1. ks \in SUBSET Codes
    BY <1>0, TracksFcn
  <1>2. t = [s EXCEPT !.pressed = g, !.counts = c, !.sends = q]
    BY DEF ReleaseWindowKeys
  <1> HIDE DEF ks, t
  <1>3. /\ r \in Seq(Events)
        /\ \A i \in DOMAIN r : r[i].type = "key" /\ r[i].state = "released" /\ r[i].key \in ks
        /\ \A k \in ks : \E i \in DOMAIN r : Release(r[i], k)
    BY <1>0, <1>1, ReleasesAll
  <1>4. /\ g \in Tracks /\ DOMAIN g = DOMAIN s.pressed \ ks
        /\ \A j \in DOMAIN s.pressed : j \notin ks => g[j] = s.pressed[j]
    BY <1>0, TracksWithout
  <1>5. /\ c \in Counts /\ DOMAIN c = DOMAIN s.counts \ ks
        /\ \A j \in DOMAIN s.counts : j \notin ks => c[j] = s.counts[j]
    BY <1>0, CountsWithout
  <1> HIDE DEF g, c, r
  <1>6. q \in Seq(Events)
    BY <1>0, <1>3
  <1>7. \A k \in Codes : LiveIn(pressed, inbox \o q, k) => k \in DOMAIN g
    <2> SUFFICES ASSUME NEW k \in Codes, LiveIn(pressed, inbox \o q, k) PROVE k \in DOMAIN g
      OBVIOUS
    <2>1. \A i \in DOMAIN r : ~Press(r[i], k)
      BY <1>3 DEF Press
    <2>2. LiveIn(pressed, inbox \o s.sends, k) /\ \A i \in DOMAIN r : ~Release(r[i], k)
      BY <2>1, <1>0, <1>3, SendMore
    <2>3. k \in DOMAIN s.pressed /\ k \notin ks
      BY <2>2, <1>3 DEF KeysOK, TrackOK
    <2> QED BY <2>3, <1>4
  <1>8. \A i \in DOMAIN q : q[i].type = "text" =>
           q[i].id = f /\ q[i].kind # "other" /\ i \in DOMAIN s.sends
    <2> SUFFICES ASSUME NEW i \in DOMAIN q, q[i].type = "text"
                 PROVE  q[i].id = f /\ q[i].kind # "other" /\ i \in DOMAIN s.sends
      OBVIOUS
    <2>1. CASE i \in DOMAIN s.sends
      <3>1. q[i] = s.sends[i]
        BY <2>1, <1>0, <1>3
      <3> QED BY <3>1, <2>1 DEF KeysOK, SendsOK
    <2>2. CASE i \notin DOMAIN s.sends
      <3>1. i - Len(s.sends) \in DOMAIN r /\ q[i] = r[i - Len(s.sends)]
        BY <2>2, <1>0, <1>3
      <3> QED BY <3>1, <1>3
    <2> QED BY <2>1, <2>2
  <1> HIDE DEF q
  <1>9. /\ t \in KeyStates /\ t.pressed = g /\ t.counts = c /\ t.sends = q /\ t.mods = s.mods
    BY <1>0, <1>2, <1>4, <1>5, <1>6 DEF KeyStates
  <1>10. CountOK(t)
    BY <1>4, <1>5, <1>9 DEF KeysOK, CountOK
  <1>11. TrackOK(t, f)
    BY <1>4, <1>7, <1>9 DEF KeysOK, TrackOK
  <1>12. SendsOK(t, f)
    BY <1>8, <1>9 DEF SendsOK
  <1>13. w = f => DOMAIN t.pressed = {}
    BY <1>4, <1>9 DEF KeysOK, TrackOK, ks
  <1> QED BY <1>4, <1>5, <1>8, <1>9, <1>10, <1>11, <1>12, <1>13 DEF KeysOK, t

\* release_guest_key_if_pressed.
LEMMA ReleaseKeyOK ==
    ASSUME inbox \in Seq(Events), NEW f \in Ids, NEW s, KeysOK(s, f), NEW k \in Codes
    PROVE  LET t == ReleaseKey(s, k)
           IN  /\ KeysOK(t, f) /\ t.mods = s.mods
               /\ DOMAIN t.pressed = DOMAIN s.pressed \ {k}
               /\ \A j \in DOMAIN t.counts : j \in DOMAIN s.counts /\ t.counts[j] = s.counts[j]
  <1> DEFINE c == Without(s.counts, {k})
             r == [s EXCEPT !.counts = c]
             t == SendTrackedKey(r, None, k, "released")
  <1>0. s \in KeyStates /\ s.counts \in Counts
    BY DEF KeysOK, TrackOK, KeyStates
  <1>1. /\ c \in Counts /\ DOMAIN c = DOMAIN s.counts \ {k}
        /\ \A j \in DOMAIN s.counts : j \notin {k} => c[j] = s.counts[j]
    BY <1>0, CountsWithout
  <1> HIDE DEF c
  <1>2. /\ r \in KeyStates /\ r.counts = c
        /\ r.pressed = s.pressed /\ r.sends = s.sends /\ r.mods = s.mods
    BY <1>0, <1>1, WithCounts
  <1>3. ReleaseKey(s, k) = t
    BY DEF ReleaseKey, c
  <1> HIDE DEF r
  <1>4. TrackOK(r, f) /\ SendsOK(r, f)
    BY <1>2 DEF KeysOK, TrackOK, SendsOK
  <1>5. \A state \in {"pressed", "released"} : state # "pressed" =>
           LET u == SendTrackedKey(r, None, k, state)
           IN  /\ TrackOK(u, f) /\ SendsOK(u, f) /\ u.counts = r.counts /\ u.mods = r.mods
               /\ DOMAIN u.pressed = DOMAIN r.pressed \ {k}
    BY <1>4, SendTrackedKeyOK
  <1>6. /\ TrackOK(t, f) /\ SendsOK(t, f) /\ t.counts = r.counts /\ t.mods = r.mods
        /\ DOMAIN t.pressed = DOMAIN r.pressed \ {k}
    BY <1>5
  <1> HIDE DEF t
  <1>7. CountOK(t)
    BY <1>1, <1>2, <1>6 DEF CountOK, KeysOK
  <1> QED BY <1>1, <1>2, <1>3, <1>6, <1>7 DEF KeysOK

-----------------------------------------------------------------------------
(* handle_keyboard.                                                        *)

\* The keycodes.
LEMMA KeycodeFacts ==
    /\ ModifierKeys = {"ControlLeft", "SuperLeft", "ControlRight", "ShiftLeft"}
    /\ GuestModifier["ControlLeft"] = "lctrl" /\ GuestModifier["SuperLeft"] = "lctrl"
    /\ GuestModifier["ControlRight"] = "rctrl" /\ GuestModifier["ShiftLeft"] = "shift"
    /\ ShortcutKeycode["KeyT"] = "t" /\ ShortcutKeycode["Space"] = "space"
    /\ ShortcutKeycode["Enter"] = "enter" /\ ShortcutKeycode["Equal"] = "equal"
  BY DEF ModifierKeys, GuestModifier, ShortcutKeycode

\* Events in which every press is followed by its release change nothing.
LEMMA LiveBalanced ==
    ASSUME NEW down, NEW q \in Seq(Events), NEW r \in Seq(Events), NEW k,
           \A i \in DOMAIN r : Press(r[i], k) => \E j \in DOMAIN r : j > i /\ Release(r[j], k),
           LiveIn(down, q \o r, k)
    PROVE  LiveIn(down, q, k)
  <1> DEFINE c == q \o r
             n == Len(q)
  <1>1. /\ n \in Nat /\ DOMAIN q = 1 .. n /\ DOMAIN r = 1 .. Len(r) /\ Len(r) \in Nat
        /\ DOMAIN c = 1 .. n + Len(r)
        /\ \A i \in 1 .. n : c[i] = q[i]
        /\ \A i \in 1 .. Len(r) : c[n + i] = r[i]
    OBVIOUS
  <1> HIDE DEF c, n
  <1>2. CASE k \in down /\ \A i \in DOMAIN c : ~Release(c[i], k)
    <2>1. \A i \in DOMAIN q : ~Release(q[i], k)
      BY <1>1, <1>2
    <2> QED BY <2>1, <1>2 DEF LiveIn
  <1>3. CASE \E i \in DOMAIN c : Press(c[i], k) /\ \A j \in DOMAIN c : j > i => ~Release(c[j], k)
    <2>1. PICK i \in DOMAIN c : Press(c[i], k) /\ \A j \in DOMAIN c : j > i => ~Release(c[j], k)
      BY <1>3
    <2>2. i <= n
      <3> SUFFICES ASSUME i > n PROVE FALSE
        BY <1>1
      <3>1. i - n \in DOMAIN r /\ c[i] = r[i - n]
        BY <1>1
      <3>2. PICK j \in DOMAIN r : j > i - n /\ Release(r[j], k)
        BY <3>1, <2>1
      <3>3. n + j \in DOMAIN c /\ c[n + j] = r[j] /\ n + j > i
        BY <3>1, <3>2, <1>1
      <3> QED BY <3>2, <3>3, <2>1
    <2>3. i \in DOMAIN q /\ Press(q[i], k) /\ \A j \in DOMAIN q : j > i => ~Release(q[j], k)
      BY <2>1, <2>2, <1>1
    <2> QED BY <2>3 DEF LiveIn
  <1> QED BY <1>2, <1>3 DEF LiveIn, c

\* Such events, none of them a text, may be sent.
LEMMA SendBalanced ==
    ASSUME inbox \in Seq(Events), NEW f \in Places, NEW s, KeysOK(s, f), NEW r \in Seq(Events),
           \A i \in DOMAIN r : r[i].type # "text",
           \A k \in Codes : \A i \in DOMAIN r :
              Press(r[i], k) => \E j \in DOMAIN r : j > i /\ Release(r[j], k)
    PROVE  LET t == [s EXCEPT !.sends = s.sends \o r]
           IN  /\ KeysOK(t, f) /\ t.pressed = s.pressed /\ t.counts = s.counts /\ t.mods = s.mods
  <1> DEFINE q == s.sends \o r
             t == [s EXCEPT !.sends = q]
  <1>0. s \in KeyStates /\ s.sends \in Seq(Events)
    BY DEF KeysOK, TrackOK, KeyStates
  <1>1. q \in Seq(Events)
    BY <1>0
  <1>2. \A k \in Codes : LiveIn(pressed, inbox \o q, k) => k \in DOMAIN s.pressed
    <2> SUFFICES ASSUME NEW k \in Codes, LiveIn(pressed, inbox \o q, k) PROVE k \in DOMAIN s.pressed
      OBVIOUS
    <2> DEFINE p == inbox \o s.sends
    <2>5. Assoc(inbox, s.sends, r)
      BY <1>0, ConcatAssoc
    <2>1. inbox \o q = p \o r
      BY <2>5, Zenon DEF Assoc
    <2>4. p \in Seq(Events)
      BY <1>0
    <2>2. LiveIn(pressed, p \o r, k)
      BY <2>1, Zenon
    <2> HIDE DEF p
    <2>3. LiveIn(pressed, p, k)
      BY <2>2, <2>4, LiveBalanced
    <2> QED BY <2>3 DEF p, KeysOK, TrackOK
  <1>3. \A i \in DOMAIN q : q[i].type = "text" => q[i].id = f /\ q[i].kind # "other"
    <2> SUFFICES ASSUME NEW i \in DOMAIN q, q[i].type = "text"
                 PROVE  q[i].id = f /\ q[i].kind # "other"
      OBVIOUS
    <2>1. CASE i \in DOMAIN s.sends
      <3>1. q[i] = s.sends[i]
        BY <2>1, <1>0
      <3> QED BY <3>1, <2>1 DEF KeysOK, SendsOK
    <2>2. CASE i \notin DOMAIN s.sends
      <3>1. i - Len(s.sends) \in DOMAIN r /\ q[i] = r[i - Len(s.sends)]
        BY <2>2, <1>0
      <3> QED BY <3>1
    <2> QED BY <2>1, <2>2
  <1> HIDE DEF q
  <1>4. /\ t \in KeyStates /\ t.sends = q
        /\ t.pressed = s.pressed /\ t.mods = s.mods /\ t.counts = s.counts
    BY <1>0, <1>1, WithSends
  <1> HIDE DEF t
  <1>5. KeysOK(t, f)
    BY <1>2, <1>3, <1>4 DEF KeysOK, TrackOK, SendsOK, CountOK
  <1> QED BY <1>4, <1>5 DEF t, q

\* The new tab of a terminal: every key goes down and up.
LEMMA NewTabKeysOK ==
    ASSUME inbox \in Seq(Events), NEW f \in Ids, NEW s, KeysOK(s, f)
    PROVE  LET t == NewTabKeys(s, f)
           IN  KeysOK(t, f) /\ t.pressed = s.pressed /\ t.counts = s.counts /\ t.mods = s.mods
  <1> DEFINE a == Key(f, "shift", "pressed")
             b == Key(f, "t", "pressed")
             c == Key(f, "t", "released")
             d == Key(f, "shift", "released")
             x == Key(f, "lctrl", "pressed")
             y == Key(f, "lctrl", "released")
             r == IF "lctrl" \in DOMAIN s.pressed THEN <<a, b, c, d>> ELSE <<x, a, b, c, d, y>>
  <1>0. f \in Places /\ s \in KeyStates /\ s.sends \in Seq(Events)
    BY DEF Places, KeysOK, TrackOK, KeyStates
  <1>1. /\ a \in Events /\ b \in Events /\ c \in Events /\ d \in Events /\ x \in Events /\ y \in Events
        /\ a.type = "key" /\ b.type = "key" /\ c.type = "key" /\ d.type = "key"
        /\ x.type = "key" /\ y.type = "key"
    BY <1>0 DEF Key, Events, KeyEvents, Codes
  <1>2. \A k : /\ (Press(a, k) <=> k = "shift") /\ (Press(b, k) <=> k = "t") /\ (Press(x, k) <=> k = "lctrl")
               /\ ~Press(c, k) /\ ~Press(d, k) /\ ~Press(y, k)
               /\ (Release(d, k) <=> k = "shift") /\ (Release(c, k) <=> k = "t")
               /\ (Release(y, k) <=> k = "lctrl")
    BY DEF Key, Press, Release
  <1>3. NewTabKeys(s, f) = [s EXCEPT !.sends = s.sends \o r]
    <2> HIDE DEF a, b, c, d, x, y
    <2>1. CASE "lctrl" \in DOMAIN s.pressed
      <3>1. NewTabKeys(s, f) = [s EXCEPT !.sends = s.sends \o <<>> \o <<a, b, c, d>> \o <<>>]
        BY <2>1 DEF NewTabKeys, a, b, c, d
      <3>2. s.sends \o <<>> \o <<a, b, c, d>> \o <<>> = s.sends \o <<a, b, c, d>>
        BY <1>0, <1>1
      <3> QED BY <2>1, <3>1, <3>2
    <2>2. CASE "lctrl" \notin DOMAIN s.pressed
      <3>1. NewTabKeys(s, f) = [s EXCEPT !.sends = s.sends \o <<x>> \o <<a, b, c, d>> \o <<y>>]
        BY <2>2 DEF NewTabKeys, a, b, c, d, x, y
      <3>2. s.sends \o <<x>> \o <<a, b, c, d>> \o <<y>> = s.sends \o <<x, a, b, c, d, y>>
        <4> DEFINE u == <<x>>
                   v == <<a, b, c, d>>
                   z == <<y>>
        <4>1. u \o (v \o z) = <<x, a, b, c, d, y>>
          <5> DEFINE l == <<x>> \o (<<a, b, c, d>> \o <<y>>)
                     o == <<x, a, b, c, d, y>>
          <5>1. /\ l \in Seq(Events) /\ Len(l) = 6 /\ l[1] = x /\ l[2] = a /\ l[3] = b
                /\ l[4] = c /\ l[5] = d /\ l[6] = y
            BY <1>1
          <5>2. /\ o \in Seq(Events) /\ Len(o) = 6 /\ o[1] = x /\ o[2] = a /\ o[3] = b
                /\ o[4] = c /\ o[5] = d /\ o[6] = y
            BY <1>1
          <5>4. l = o
            <6> HIDE DEF l, o
            <6>1. \A i \in 1 .. 6 : i = 1 \/ i = 2 \/ i = 3 \/ i = 4 \/ i = 5 \/ i = 6
              OBVIOUS
            <6>2. \A i \in 1 .. 6 : l[i] = o[i]
              BY <5>1, <5>2, <6>1
            <6> QED BY <5>1, <5>2, <6>2
          <5> QED BY <5>4
        <4>2. u \in Seq(Events) /\ v \in Seq(Events) /\ z \in Seq(Events)
          BY <1>1
        <4> HIDE DEF u, v, z
        <4>3. v \o z \in Seq(Events) /\ s.sends \o u \in Seq(Events)
          BY <1>0, <4>2
        <4>4. Assoc(s.sends, u, v \o z) /\ Assoc(s.sends \o u, v, z)
          BY <1>0, <4>2, <4>3, ConcatAssoc
        <4>6. s.sends \o u \o v \o z = s.sends \o <<x, a, b, c, d, y>>
          BY <4>1, <4>4, Zenon DEF Assoc
        <4> QED BY <4>6 DEF u, v, z
      <3> QED BY <2>2, <3>1, <3>2
    <2> QED BY <2>1, <2>2
  <1> HIDE DEF a, b, c, d, x, y
  <1>4. /\ r \in Seq(Events) /\ \A i \in DOMAIN r : r[i].type # "text"
        /\ \A k \in Codes : \A i \in DOMAIN r :
              Press(r[i], k) => \E j \in DOMAIN r : j > i /\ Release(r[j], k)
    <2>1. CASE "lctrl" \in DOMAIN s.pressed
      <3> DEFINE v == <<a, b, c, d>>
      <3>1. /\ v \in Seq(Events) /\ DOMAIN v = 1 .. 4
            /\ v[1] = a /\ v[2] = b /\ v[3] = c /\ v[4] = d
        BY <1>1
      <3> HIDE DEF v
      <3>2. \A i \in 1 .. 4 : i = 1 \/ i = 2 \/ i = 3 \/ i = 4
        OBVIOUS
      <3>3. \A k : \A i \in DOMAIN v :
               Press(v[i], k) => \E j \in DOMAIN v : j > i /\ Release(v[j], k)
        BY <3>1, <3>2, <1>2
      <3>4. \A i \in DOMAIN v : v[i].type # "text"
        BY <3>1, <3>2, <1>1
      <3>5. r = v
        BY <2>1 DEF v
      <3> QED BY <3>1, <3>3, <3>4, <3>5
    <2>2. CASE "lctrl" \notin DOMAIN s.pressed
      <3> DEFINE v == <<x, a, b, c, d, y>>
      <3>1. /\ v \in Seq(Events) /\ DOMAIN v = 1 .. 6
            /\ v[1] = x /\ v[2] = a /\ v[3] = b /\ v[4] = c /\ v[5] = d /\ v[6] = y
        BY <1>1
      <3> HIDE DEF v
      <3>2. \A i \in 1 .. 6 : i = 1 \/ i = 2 \/ i = 3 \/ i = 4 \/ i = 5 \/ i = 6
        OBVIOUS
      <3>3. \A k : \A i \in DOMAIN v :
               Press(v[i], k) => \E j \in DOMAIN v : j > i /\ Release(v[j], k)
        BY <3>1, <3>2, <1>2
      <3>4. \A i \in DOMAIN v : v[i].type # "text"
        BY <3>1, <3>2, <1>1
      <3>5. r = v
        BY <2>2 DEF v
      <3> QED BY <3>1, <3>3, <3>4, <3>5
    <2> QED BY <2>1, <2>2
  <1> HIDE DEF r
  <1> QED BY <1>0, <1>3, <1>4, SendBalanced

\* clear_stale_shortcut_modifiers_for_text changes the modifiers alone.
LEMMA ClearStaleOK ==
    ASSUME NEW f \in Places, NEW s, KeysOK(s, f)
    PROVE  LET t == ClearStale(s)
           IN  /\ KeysOK(t, f) /\ t.pressed = s.pressed /\ t.counts = s.counts /\ t.sends = s.sends
  <1> DEFINE t == [s EXCEPT !.mods = {}]
  <1>0. s \in KeyStates /\ {} \in Mods
    BY DEF KeysOK, TrackOK, Mods
  <1>1. /\ t \in KeyStates
        /\ t.pressed = s.pressed /\ t.sends = s.sends /\ t.counts = s.counts
    BY <1>0, WithMods
  <1>2. ClearStale(s) = s \/ ClearStale(s) = t
    BY DEF ClearStale
  <1> HIDE DEF t
  <1>3. KeysOK(t, f)
    BY <1>1 DEF KeysOK, TrackOK, SendsOK, CountOK
  <1> QED BY <1>1, <1>2, <1>3

\* An event that is no key may be sent.
LEMMA SendOther ==
    ASSUME inbox \in Seq(Events), NEW f, NEW s, TrackOK(s, f), NEW e \in Events, e.type # "key"
    PROVE  LET t == [s EXCEPT !.sends = Append(s.sends, e)]
           IN  /\ TrackOK(t, f) /\ t.pressed = s.pressed /\ t.counts = s.counts /\ t.mods = s.mods
               /\ t.sends = Append(s.sends, e)
  <1> DEFINE q == Append(s.sends, e)
             t == [s EXCEPT !.sends = q]
  <1>0. s \in KeyStates /\ s.sends \in Seq(Events)
    BY DEF TrackOK, KeyStates
  <1>1. q \in Seq(Events)
    BY <1>0
  <1>2. \A k \in Codes : LiveIn(pressed, inbox \o q, k) => k \in DOMAIN s.pressed
    <2>1. \A k : ~Press(e, k)
      BY DEF Press
    <2> QED BY <2>1, <1>0, SendOne DEF TrackOK
  <1> HIDE DEF q
  <1>4. /\ t \in KeyStates /\ t.sends = q
        /\ t.pressed = s.pressed /\ t.mods = s.mods /\ t.counts = s.counts
    BY <1>0, <1>1, WithSends
  <1> HIDE DEF t
  <1>5. TrackOK(t, f)
    BY <1>2, <1>4 DEF TrackOK
  <1> QED BY <1>4, <1>5 DEF t, q

\* The letter of a key.
LEMMA KeyTextOK ==
    ASSUME inbox \in Seq(Events), NEW f \in Ids, NEW s, KeysOK(s, f), texts \in Nat, NEW keys
    PROVE  LET t == KeyText(s, f, keys)
           IN  /\ KeysOK(t, f) /\ t.pressed = s.pressed /\ t.counts = s.counts
  <1> DEFINE e == Text(f, texts + 1, IF "shift" \in ModifiersOf(keys) THEN "shifted" ELSE "ascii")
             t == [s EXCEPT !.sends = Append(s.sends, e)]
  <1>1. KeyText(s, f, keys) = t
    BY DEF KeyText
  <1>2. e \in Events /\ e.type = "text" /\ e.id = f /\ e.kind # "other"
    BY DEF Text, Events, TextEvents, TextKinds
  <1> HIDE DEF e
  <1>3. TrackOK(s, f) /\ SendsOK(s, f) /\ CountOK(s)
    BY DEF KeysOK
  <1>4. /\ TrackOK(t, f) /\ t.pressed = s.pressed /\ t.counts = s.counts
        /\ t.sends = Append(s.sends, e)
    BY <1>2, <1>3, SendOther
  <1> HIDE DEF t
  <1>5. s.sends \in Seq(Events)
    BY <1>3 DEF TrackOK, KeyStates
  <1>6. SendsOK(t, f)
    BY <1>2, <1>3, <1>4, <1>5, Appended DEF SendsOK
  <1> QED BY <1>1, <1>3, <1>4, <1>6 DEF KeysOK, CountOK

\* A key that is no modifier, for the window with the focus: at most that key
\* becomes tracked, and a release ends that.
LEMMA PlainKeyOK ==
    ASSUME inbox \in Seq(Events), texts \in Nat, NEW f \in Ids, NEW s, KeysOK(s, f),
           NEW p \in AllKeys, p \notin ModifierKeys, NEW state \in {"pressed", "released"},
           NEW repeat, NEW keys
    PROVE  LET t == PlainKey(s, f, p, state, repeat, keys)
               k == ShortcutKeycode[p]
           IN  /\ KeysOK(t, f) /\ t.counts = s.counts
               /\ DOMAIN t.pressed \subseteq DOMAIN s.pressed \cup {k}
               /\ state = "released" => DOMAIN t.pressed = DOMAIN s.pressed \ {k}
  <1> DEFINE t == PlainKey(s, f, p, state, repeat, keys)
             u == IF state = "pressed" /\ Printable(p, keys) THEN ClearStale(s) ELSE s
             k == ShortcutKeycode[p]
             v == SendTrackedKey(u, f, k, state)
             x == KeyText(u, f, keys)
  <1>0. f \in Places /\ k \in Codes \ ModCodes
    BY KeycodeFacts DEF Places, AllKeys, Codes, ModCodes
  <1>1. t = u \/ t = v \/ t = x
    BY Zenon DEF PlainKey
  <1>2. state = "released" => t = v
    BY Zenon DEF PlainKey, ViewShortcut
  <1>3. KeysOK(u, f) /\ u.counts = s.counts /\ u.pressed = s.pressed
    BY <1>0, ClearStaleOK
  <1> HIDE DEF t, u
  <1>4. /\ TrackOK(v, f) /\ SendsOK(v, f) /\ v.counts = u.counts
        /\ state = "pressed" => DOMAIN v.pressed = DOMAIN u.pressed \cup {k}
        /\ state # "pressed" => DOMAIN v.pressed = DOMAIN u.pressed \ {k}
    BY <1>0, <1>3, SendTrackedKeyOK DEF KeysOK
  <1>5. KeysOK(x, f) /\ x.counts = u.counts /\ x.pressed = u.pressed
    BY <1>3, KeyTextOK
  <1> HIDE DEF v, x, k
  <1>6. KeysOK(v, f)
    BY <1>0, <1>3, <1>4 DEF KeysOK, CountOK
  <1> QED BY <1>1, <1>2, <1>3, <1>4, <1>5, <1>6 DEF t, k

\* handle_keyboard: the keys that are tracked stay tracked for the window with
\* the focus, and as long as they are held.
LEMMA HandleKeyboardOK ==
    ASSUME inbox \in Seq(Events), texts \in Nat, NEW f \in Ids, NEW s, KeysOK(s, f),
           NEW p \in AllKeys, NEW state \in {"pressed", "released"}, NEW repeat, NEW h, NEW keys,
           state = "pressed" => keys = h \cup {p} /\ (p \in ModifierKeys => p \notin h),
           state = "released" => keys = h \ {p} /\ p \in h
    PROVE  LET t == HandleKeyboard(s, f, p, state, repeat, keys)
           IN  KeysOK(t, f) /\ (HeldOK(s, h) => HeldOK(t, keys))
  <1> DEFINE t == HandleKeyboard(s, f, p, state, repeat, keys)
  <1>0. /\ s \in KeyStates /\ s.counts \in Counts /\ s.pressed \in Tracks
        /\ DOMAIN s.counts = DOMAIN s.pressed \cap ModCodes
        /\ DOMAIN s.counts \subseteq ModCodes /\ \A j \in DOMAIN s.counts : s.counts[j] \in Nat \ {0}
    BY CountsFcn DEF KeysOK, TrackOK, CountOK, KeyStates
  <1>1. CASE p \in ModifierKeys
    <2> DEFINE k == GuestModifier[p]
    <2>1. t = SendTrackedModifier(s, f, k, state)
      BY <1>1 DEF HandleKeyboard
    <2>2. k \in ModCodes
      BY <1>1, KeycodeFacts DEF ModCodes
    <2>3. /\ KeysOK(t, f) /\ DOMAIN t.pressed \ {k} = DOMAIN s.pressed \ {k}
          /\ \A j \in DOMAIN t.counts : j # k => t.counts[j] = s.counts[j]
          /\ state = "pressed" => t.counts[k] = IF k \in DOMAIN s.counts THEN s.counts[k] + 1 ELSE 1
          /\ state = "released" /\ k \in DOMAIN t.counts =>
                k \in DOMAIN s.counts /\ t.counts[k] = s.counts[k] - 1
      BY <2>1, <2>2, SendTrackedModifierOK
    <2> HIDE DEF t
    <2>4. DOMAIN t.counts = DOMAIN t.pressed \cap ModCodes
      BY <2>3 DEF KeysOK, CountOK
    <2>5. ASSUME HeldOK(s, h) PROVE HeldOK(t, keys)
      <3>1. \A j \in DOMAIN t.counts : t.counts[j] <= HeldCount(keys, j)
        <4> SUFFICES ASSUME NEW j \in DOMAIN t.counts PROVE t.counts[j] <= HeldCount(keys, j)
          OBVIOUS
        <4>0. j \in ModCodes
          BY <2>4
        <4>1. CASE j # k
          <5>1. j \in DOMAIN s.counts /\ t.counts[j] = s.counts[j] /\ s.counts[j] <= HeldCount(h, j)
            BY <4>1, <2>3, <2>4, <2>5, <1>0 DEF HeldOK
          <5>2. HeldCount(keys, j) = HeldCount(h, j)
            <6> HIDE DEF k
            <6>1. p \in {"ControlLeft", "SuperLeft", "ControlRight", "ShiftLeft"}
              BY <1>1, KeycodeFacts
            <6>2. keys = h \cup {p} \/ keys = h \ {p}
              OBVIOUS
            <6> QED BY <6>1, <6>2, <4>0, <4>1, KeycodeFacts DEF HeldCount, One, ModCodes, k
          <5> QED BY <5>1, <5>2
        <4>2. CASE j = k /\ state = "pressed"
          <5>1. HeldCount(keys, k) = HeldCount(h, k) + 1 /\ HeldCount(h, k) \in Nat
            BY <1>1, <4>2, KeycodeFacts DEF HeldCount, One
          <5>2. k \in DOMAIN s.counts => s.counts[k] <= HeldCount(h, k) /\ s.counts[k] \in Nat
            BY <2>5, <1>0 DEF HeldOK
          <5> HIDE DEF k
          <5> QED BY <5>1, <5>2, <4>2, <2>3
        <4>3. CASE j = k /\ state = "released"
          <5>1. HeldCount(keys, k) = HeldCount(h, k) - 1 /\ HeldCount(h, k) \in Nat
            BY <1>1, <4>3, KeycodeFacts DEF HeldCount, One
          <5>2. k \in DOMAIN s.counts /\ s.counts[k] <= HeldCount(h, k) /\ s.counts[k] \in Nat
                /\ t.counts[k] = s.counts[k] - 1
            BY <2>3, <2>5, <1>0, <4>3 DEF HeldOK
          <5> HIDE DEF k
          <5> QED BY <5>1, <5>2, <4>3
        <4> QED BY <4>1, <4>2, <4>3
      <3>2. \A c \in {"t", "enter", "equal"} : c \in DOMAIN t.pressed => c \in DOMAIN s.pressed
        BY <2>2, <2>3 DEF ModCodes
      <3>3. \A c \in {"KeyT", "Enter", "Equal"} : c \in h => c \in keys
        BY <1>1, KeycodeFacts
      <3> HIDE DEF k
      <3> QED BY <3>1, <3>2, <3>3, <2>5 DEF HeldOK
    <2> QED BY <2>3, <2>5 DEF t
  <1>2. CASE p \notin ModifierKeys
    <2> DEFINE k == ShortcutKeycode[p]
               v == PlainKey(s, f, p, state, repeat, keys)
               x == NewTabKeys(s, f)
    <2>1. \/ t = s /\ (state = "released" => p = "Space")
          \/ t = x /\ state = "pressed"
          \/ t = v
      BY <1>2, Zenon DEF HandleKeyboard, PickerPress, PickerRelease, NewTab
    <2>2. /\ KeysOK(v, f) /\ v.counts = s.counts
          /\ DOMAIN v.pressed \subseteq DOMAIN s.pressed \cup {k}
          /\ state = "released" => DOMAIN v.pressed = DOMAIN s.pressed \ {k}
      BY <1>2, PlainKeyOK
    <2>3. KeysOK(x, f) /\ x.pressed = s.pressed /\ x.counts = s.counts
      BY NewTabKeysOK
    <2> HIDE DEF t, v, x
    <2>4. /\ KeysOK(t, f) /\ t.counts = s.counts
          /\ DOMAIN t.pressed \subseteq DOMAIN s.pressed \cup {k}
          /\ state = "released" /\ p # "Space" => k \notin DOMAIN t.pressed
      <3> HIDE DEF k
      <3> QED BY <2>1, <2>2, <2>3
    <2>5. p \in {"KeyT", "Space", "Enter", "Equal"}
      BY <1>2, KeycodeFacts DEF AllKeys
    <2>6. \A j \in ModCodes : HeldCount(keys, j) = HeldCount(h, j)
      <3>1. keys = h \cup {p} \/ keys = h \ {p}
        OBVIOUS
      <3> QED BY <3>1, <2>5 DEF HeldCount, One, ModCodes
    <2>7. ASSUME HeldOK(s, h) PROVE HeldOK(t, keys)
      <3>1. \A j \in DOMAIN t.counts : t.counts[j] <= HeldCount(keys, j)
        BY <2>4, <2>6, <2>7, <1>0 DEF HeldOK
      <3>2. /\ "t" \in DOMAIN t.pressed => "KeyT" \in keys
            /\ "enter" \in DOMAIN t.pressed => "Enter" \in keys
            /\ "equal" \in DOMAIN t.pressed => "Equal" \in keys
        BY <2>4, <2>5, <2>7, KeycodeFacts DEF HeldOK
      <3> QED BY <3>1, <3>2 DEF HeldOK
    <2> QED BY <2>4, <2>7 DEF t
  <1> QED BY <1>1, <1>2

-----------------------------------------------------------------------------
(* The inductive invariant.                                                *)

Coming == {inbox[i] : i \in DOMAIN inbox}
WindowEvents == [type : {"created", "destroyed"}, id : Ids]

\* Windows are numbered below next_window_id wherever they are spoken of.
Numbered ==
    /\ next_window_id \in Nat /\ windows \subseteq Ids /\ views \subseteq Ids
    /\ focused \in views \cup {None} /\ outbox \in Seq(WindowEvents)
    /\ \A w \in windows \cup views : w < next_window_id
    /\ \A i \in DOMAIN outbox : outbox[i].id < next_window_id

Hosted ==
    /\ held \subseteq Keys /\ modifiers \in Mods /\ texts \in Nat /\ lost \in BOOLEAN
    /\ button \in Places

\* The texts on their way are in the order they were typed.
Sent ==
    /\ inbox \in Seq(Events) /\ QueueInOrder(inbox)
    /\ \A i \in DOMAIN inbox : inbox[i].type = "text" => TextKnown(inbox[i], texts, next_window_id)

SeatFine == SeatOK(SeatNow, Coming, texts, next_window_id)
Tracked == TrackOK(KeysNow(modifiers), focused) /\ CountOK(KeysNow(modifiers))
IsHeld == ~lost => HeldOK(KeysNow(modifiers), held)

IInv == Numbered /\ Hosted /\ Sent /\ SeatFine /\ Tracked /\ IsHeld

\* What is known of a state of the seat depends on the windows alone.
LEMMA SeatBecomes ==
    ASSUME NEW t, NEW R, NEW m, NEW b, SeatOK(t, R, m, b), SeatBecome(t), windows' = windows,
           Coming' \subseteq R, texts' = m, next_window_id' = b
    PROVE  SeatFine'
  <1>1. SeatNow' = t
    BY DEF SeatOK, Seats, SeatBecome, SeatNow, Seated
  <1>2. Focuses(t)'
    BY DEF SeatOK, Focuses
  <1>3. InOrder(t, R)'
    BY DEF SeatOK, InOrder, GotBefore, GotBeforeQueue, Before, WaitsDisabled
  <1>4. InOrder(t, Coming)'
    BY <1>3 DEF InOrder, QueueBefore, GotBefore
  <1> QED BY <1>1, <1>2, <1>4 DEF SeatFine, SeatOK

\* Another focus changes nothing in the order of the texts.
LEMMA SameOrder ==
    ASSUME NEW s, NEW R, NEW m, NEW b, SeatOK(s, R, m, b), NEW t \in Seats, Focuses(t),
           NEW Q \in SUBSET R,
           \A w : Enabled(t, w) => Enabled(s, w), t.queue = s.queue, t.got = s.got
    PROVE  SeatOK(t, Q, m, b)
  <1>1. InOrder(t, Q)
    BY DEF SeatOK, InOrder, QueueBefore, GotBefore, WaitsDisabled
  <1> QED BY <1>1 DEF SeatOK

(* What a step of the viewer leaves alone.                                 *)
SeatKept == UNCHANGED <<windows, next_window_id, active_window_id, text_inputs,
                        pending_text_input, pressed, delivered>>

\* A step that leaves the whole seat alone.
LEMMA KeptSeat ==
    ASSUME UNCHANGED seat PROVE SeatKept
  BY DEF seat, SeatKept

\* The viewer sends more: nothing of what the seat has is disturbed.
LEMMA Sends ==
    ASSUME IInv, NEW q \in Seq(Events), inbox' = inbox \o q, SeatKept,
           texts' \in Nat, texts' >= texts, QueueInOrder(q),
           \A i \in DOMAIN q : /\ q[i].type = "text" => q[i].id < next_window_id
                               /\ Other(q[i]) => texts < q[i].n /\ q[i].n <= texts'
    PROVE  Sent' /\ SeatFine'
  <1> DEFINE r == inbox \o q
             n == Len(inbox)
  <1>0. texts \in Nat /\ next_window_id \in Nat /\ inbox \in Seq(Events)
    BY DEF IInv, Hosted, Numbered, Sent
  <1>1. /\ r \in Seq(Events) /\ n \in Nat /\ DOMAIN inbox = 1 .. n /\ DOMAIN q = 1 .. Len(q)
        /\ Len(q) \in Nat /\ DOMAIN r = 1 .. n + Len(q)
        /\ \A i \in 1 .. n : r[i] = inbox[i]
        /\ \A i \in 1 .. Len(q) : r[n + i] = q[i]
    BY <1>0
  <1> HIDE DEF r, n
  <1>2. \A i \in DOMAIN r : i > n => i - n \in DOMAIN q /\ r[i] = q[i - n]
    <2> SUFFICES ASSUME NEW i \in DOMAIN r, i > n PROVE i - n \in DOMAIN q /\ r[i] = q[i - n]
      OBVIOUS
    <2>1. i - n \in 1 .. Len(q) /\ n + (i - n) = i
      BY <1>1
    <2> QED BY <2>1, <1>1
  <1>3. \A i \in DOMAIN r : i \in Nat /\ (i <= n => i \in DOMAIN inbox /\ r[i] = inbox[i])
    BY <1>1
  <1>12. \A e \in Events : Other(e) => e.n \in Nat
    BY DEF Events, KeyEvents, FocusEvents, TextEvents, ButtonEvents, CloseEvents, Other
  <1>4. \A i \in DOMAIN inbox : Other(inbox[i]) => inbox[i].n <= texts /\ inbox[i].n \in Nat
    BY <1>0, <1>12 DEF IInv, Sent, Other, TextKnown
  <1>5. \A i \in DOMAIN q : Other(q[i]) => q[i].n \in Nat
    BY <1>12
  <1>6. QueueInOrder(r)
    <2> SUFFICES ASSUME NEW i \in DOMAIN r, NEW j \in DOMAIN r, i < j, Other(r[i]), Other(r[j])
                 PROVE  r[i].n < r[j].n
      BY DEF QueueInOrder
    <2>1. CASE j <= n
      <3>1. i \in DOMAIN inbox /\ j \in DOMAIN inbox /\ r[i] = inbox[i] /\ r[j] = inbox[j]
        BY <2>1, <1>1, <1>3
      <3> QED BY <3>1 DEF IInv, Sent, QueueInOrder
    <2>2. CASE i <= n /\ j > n
      BY <2>2, <1>0, <1>2, <1>3, <1>4, <1>5
    <2>3. CASE i > n
      <3>1. i - n \in DOMAIN q /\ r[i] = q[i - n] /\ j - n \in DOMAIN q /\ r[j] = q[j - n] /\ i - n < j - n
        BY <2>3, <1>1, <1>2, <1>3
      <3> QED BY <3>1 DEF QueueInOrder
    <2> QED BY <2>1, <2>2, <2>3, <1>1, <1>3
  <1>7. \A i \in DOMAIN r : r[i].type = "text" => TextKnown(r[i], texts', next_window_id)
    <2> SUFFICES ASSUME NEW i \in DOMAIN r, r[i].type = "text"
                 PROVE  TextKnown(r[i], texts', next_window_id)
      OBVIOUS
    <2>1. CASE i <= n
      <3>1. i \in DOMAIN inbox /\ r[i] = inbox[i]
        BY <2>1, <1>3
      <3>2. TextKnown(r[i], texts, next_window_id) /\ (Other(r[i]) => r[i].n \in Nat)
        BY <3>1, <1>4 DEF IInv, Sent
      <3> QED BY <3>2, <1>0 DEF TextKnown, Other
    <2>2. CASE i > n
      BY <2>2, <1>2 DEF TextKnown, Other
    <2> QED BY <2>1, <2>2, <1>1, <1>3
  <1>8. UNCHANGED <<windows, next_window_id, active_window_id, text_inputs, pending_text_input,
                    pressed, delivered>>
    BY DEF SeatKept
  <1>9. inbox' = r
    BY DEF r
  <1>10. Sent'
    BY <1>1, <1>6, <1>7, <1>8, <1>9 DEF Sent, QueueInOrder, TextKnown
  <1>11. SeatFine'
    <2> DEFINE s == SeatNow
               R == {r[i] : i \in DOMAIN r}
    <2>0. SeatOK(s, Coming, texts, next_window_id)
      BY DEF IInv, SeatFine
    <2>1. SeatBecome(s)
      BY <1>8 DEF SeatBecome, SeatNow, Seated
    <2>2. s \in Seats
      BY <2>0 DEF SeatOK
    <2> HIDE DEF s
    <2>3. \A e \in R : Other(e) => e \in Coming \/ (e.n > texts /\ e.n \in Nat)
      <3> SUFFICES ASSUME NEW i \in DOMAIN r, Other(r[i])
                   PROVE  r[i] \in Coming \/ (r[i].n > texts /\ r[i].n \in Nat)
        OBVIOUS
      <3>1. CASE i <= n
        BY <3>1, <1>3 DEF Coming
      <3>2. CASE i > n
        BY <3>2, <1>2, <1>5, <1>0
      <3> QED BY <3>1, <3>2, <1>1, <1>3
    <2>13. s.queue \in Seq(TextEvents) /\ s.got \in Seq(Gots)
      BY <2>2 DEF Seats
    <2>14. (\A e \in TextEvents : e.n \in Nat) /\ (\A e \in Gots : e.n \in Nat)
      BY DEF TextEvents, Gots
    <2>4. \A i \in DOMAIN s.queue : s.queue[i] \in TextEvents /\ s.queue[i].n \in Nat
      BY <2>13, <2>14
    <2>5. \A i \in DOMAIN s.got : s.got[i] \in Gots /\ s.got[i].n \in Nat
      BY <2>13, <2>14
    <2>6. QueueBefore(s.queue, R)
      BY <2>0, <2>3, <2>4, <1>0 DEF SeatOK, InOrder, QueueBefore, TextKnown, Other
    <2>7. GotBefore(s.got, R)
      <3> SUFFICES ASSUME NEW i \in DOMAIN s.got, NEW e \in R, Other(e), Reached(s.got[i]),
                          e.id = s.got[i].id, e.id \in windows
                   PROVE  s.got[i].n < e.n
        BY DEF GotBefore, Before
      <3>1. CASE e \in Coming
        BY <3>1, <2>0 DEF SeatOK, InOrder, GotBefore, Before
      <3>2. CASE e.n > texts /\ e.n \in Nat
        <4>1. s.got[i].n <= texts
          BY <2>0 DEF SeatOK, TextKnown, Reached
        <4> QED BY <4>1, <3>2, <2>5, <1>0
      <3> QED BY <3>1, <3>2, <2>3
    <2>8. InOrder(s, R)
      BY <2>0, <2>6, <2>7 DEF SeatOK, InOrder
    <2>9. \A i \in DOMAIN s.queue : TextKnown(s.queue[i], texts', next_window_id)
      BY <2>0, <2>4, <1>0 DEF SeatOK, TextKnown
    <2>10. \A i \in DOMAIN s.got : TextKnown(s.got[i], texts', next_window_id)
      BY <2>0, <2>5, <1>0 DEF SeatOK, TextKnown
    <2>11. SeatOK(s, R, texts', next_window_id)
      BY <2>0, <2>8, <2>9, <2>10 DEF SeatOK
    <2>12. Coming' = R
      BY <1>9 DEF Coming
    <2> HIDE DEF R
    <2> QED BY <2>1, <2>11, <2>12, <1>8, SeatBecomes
  <1> QED BY <1>10, <1>11

\* The viewer's keys become t, with the focus in f.
LEMMA KeysBecomes ==
    ASSUME IInv, NEW t, NEW f, TrackOK(t, f), CountOK(t), KeysBecome(t), pressed' = pressed,
           focused' = f
    PROVE  Tracked' /\ modifiers' \in Mods /\ inbox' = inbox \o t.sends /\ t.sends \in Seq(Events)
  <1>0. inbox \in Seq(Events) /\ t \in KeyStates /\ t.sends \in Seq(Events)
    BY DEF IInv, Sent, TrackOK, KeyStates
  <1>1. inbox \o t.sends \o <<>> = inbox \o t.sends
    BY <1>0
  <1>2. /\ inbox' = inbox \o t.sends /\ modifiers' = t.mods /\ pressed_guest_keys' = t.pressed
        /\ pressed_guest_modifier_counts' = t.counts
    BY DEF KeysBecome
  <1> DEFINE s == State(t.pressed, t.counts, <<>>, t.mods)
  <1>3. KeysNow(modifiers)' = s
    BY <1>2 DEF KeysNow, State
  <1>4. /\ s \in KeyStates /\ s.pressed = t.pressed /\ s.sends = <<>> /\ s.counts = t.counts
        /\ s.mods = t.mods /\ t.mods \in Mods
    BY <1>0 DEF State, KeyStates
  <1> HIDE DEF s
  <1>5. TrackOK(s, f)'
    <2>1. \A k \in Codes : LiveIn(pressed, inbox \o t.sends, k) => k \in DOMAIN s.pressed
      BY <1>4 DEF TrackOK
    <2>2. inbox' \o s.sends = inbox \o t.sends
      BY <1>1, <1>2, <1>4
    <2>3. \A k \in Codes : LiveIn(pressed', inbox' \o s.sends, k) => k \in DOMAIN s.pressed
      BY <2>1, <2>2
    <2> QED BY <2>3, <1>4 DEF TrackOK, LiveIn
  <1>6. CountOK(s)
    BY <1>4 DEF CountOK
  <1> QED BY <1>0, <1>2, <1>3, <1>4, <1>5, <1>6 DEF Tracked

-----------------------------------------------------------------------------
(* The host's events.                                                      *)

\* The tracked keys as they are, with any modifiers.
LEMMA KeysNowOK ==
    ASSUME IInv, NEW m \in Mods
    PROVE  LET s == KeysNow(m)
           IN  /\ \A g : KeysOK(s, focused) /\ SendsOK(s, g) /\ s.sends = <<>> /\ s.mods = m
               /\ s.pressed = KeysNow(modifiers).pressed /\ s.counts = KeysNow(modifiers).counts
               /\ \A h : HeldOK(s, h) <=> HeldOK(KeysNow(modifiers), h)
  <1> DEFINE s == KeysNow(m)
             r == KeysNow(modifiers)
  <1>0. TrackOK(r, focused) /\ CountOK(r) /\ r \in KeyStates
    BY DEF IInv, Tracked, TrackOK
  <1>1. /\ s.pressed = r.pressed /\ s.counts = r.counts /\ s.sends = <<>> /\ r.sends = <<>>
        /\ s.mods = m /\ s \in KeyStates
    BY <1>0 DEF KeysNow, State, KeyStates
  <1> HIDE DEF s, r
  <1>2. \A g : SendsOK(s, g)
    BY <1>1 DEF SendsOK
  <1>3. TrackOK(s, focused) /\ CountOK(s)
    BY <1>0, <1>1 DEF TrackOK, CountOK
  <1>4. \A h : HeldOK(s, h) <=> HeldOK(r, h)
    BY <1>1 DEF HeldOK
  <1> QED BY <1>1, <1>2, <1>3, <1>4 DEF KeysOK, s, r

\* The focus is in a window that is numbered.
LEMMA FocusedIs ==
    ASSUME IInv, focused # None
    PROVE  focused \in Ids /\ focused \in Places /\ focused < next_window_id
  BY DEF IInv, Numbered, Places

\* The viewer's keys become t, and no text of an input method is sent.
LEMMA HostKeys ==
    ASSUME IInv, NEW t, NEW f, TrackOK(t, f), CountOK(t), KeysBecome(t), SeatKept,
           focused' = f, texts' \in Nat, texts' >= texts,
           \A i \in DOMAIN t.sends : t.sends[i].type = "text" =>
              t.sends[i].id < next_window_id /\ t.sends[i].kind # "other"
    PROVE  Sent' /\ SeatFine' /\ Tracked' /\ modifiers' \in Mods
  <1> DEFINE q == t.sends
  <1>1. pressed' = pressed
    BY DEF SeatKept
  <1>2. Tracked' /\ modifiers' \in Mods /\ inbox' = inbox \o q /\ q \in Seq(Events)
    BY <1>1, KeysBecomes
  <1>3. \A i \in DOMAIN q : ~Other(q[i])
    BY DEF Other
  <1>4. QueueInOrder(q)
    BY <1>3 DEF QueueInOrder
  <1>5. \A i \in DOMAIN q : /\ q[i].type = "text" => q[i].id < next_window_id
                            /\ Other(q[i]) => texts < q[i].n /\ q[i].n <= texts'
    BY <1>3
  <1> HIDE DEF q
  <1>6. Sent' /\ SeatFine'
    BY <1>2, <1>4, <1>5, Sends
  <1> QED BY <1>2, <1>6

\* The windows' numbers and the host's state, when the seat stays and no view
\* comes or goes.
LEMMA HostRest ==
    ASSUME IInv, UNCHANGED seat, views' = views, focused' \in views \cup {None}
    PROVE  Numbered'
  <1>1. UNCHANGED <<windows, next_window_id, outbox>>
    BY DEF seat
  <1> QED BY <1>1 DEF IInv, Numbered

\* The tracked keys are held as the state the viewer's keys become says.
LEMMA HeldNext ==
    ASSUME NEW t, KeysBecome(t), ~lost' => HeldOK(t, held')
    PROVE  IsHeld'
  <1>1. KeysNow(modifiers)'.counts = t.counts /\ KeysNow(modifiers)'.pressed = t.pressed
    BY DEF KeysBecome, KeysNow, State
  <1> QED BY <1>1 DEF IsHeld, HeldOK

\* A key goes down, or repeats.
LEMMA KeyPressedOK ==
    ASSUME IInv, NEW p \in Keys, KeyPressed(p), UNCHANGED <<seat, button>>
    PROVE  IInv'
  <1> DEFINE keys == held \cup {p}
             mods == IF p \in ModifierKeys THEN ModifiersOf(keys) ELSE modifiers
             s == KeysNow(mods)
             t == HandleKeyboard(s, focused, p, "pressed", p \in held, keys)
  <1>0. /\ focused # None /\ (p \in held => p \notin ModifierKeys) /\ held' = keys
        /\ KeysBecome(t) /\ Typed(t) /\ UNCHANGED <<views, focused, lost>>
    BY Zenon DEF KeyPressed
  <1>1. mods \in Mods /\ p \in AllKeys /\ texts \in Nat /\ inbox \in Seq(Events)
    BY KeyboardAssumption DEF IInv, Hosted, Sent, Mods, ModifiersOf
  <1> HIDE DEF mods
  <1>2. focused \in Ids /\ focused \in Places /\ focused < next_window_id
    BY <1>0, FocusedIs
  <1>3. KeysOK(s, focused) /\ (HeldOK(s, held) <=> HeldOK(KeysNow(modifiers), held))
    BY <1>1, KeysNowOK
  <1> HIDE DEF s
  <1>4. KeysOK(t, focused) /\ (HeldOK(s, held) => HeldOK(t, keys))
    <2>1. \A state \in {"pressed", "released"} : \A repeat : state = "pressed" =>
             LET u == HandleKeyboard(s, focused, p, state, repeat, keys)
             IN  KeysOK(u, focused) /\ (HeldOK(s, held) => HeldOK(u, keys))
      BY <1>0, <1>1, <1>2, <1>3, HandleKeyboardOK
    <2> QED BY <2>1
  <1> HIDE DEF t
  <1>5. t \in KeyStates /\ t.sends \in Seq(Events)
    BY <1>4 DEF KeysOK, TrackOK, KeyStates
  <1>6. texts' \in Nat /\ texts' >= texts
    <2> DEFINE T == {i \in DOMAIN t.sends : t.sends[i].type = "text"}
    <2>1. IsFiniteSet(1 .. Len(t.sends)) /\ T \subseteq 1 .. Len(t.sends)
      BY <1>5, FS_Interval
    <2> HIDE DEF T
    <2>2. Cardinality(T) \in Nat
      BY <2>1, FS_Subset, FS_CardinalityType
    <2> QED BY <2>2, <1>0, <1>1 DEF Typed, T
  <1>7. Sent' /\ SeatFine' /\ Tracked' /\ modifiers' \in Mods
    <2>1. \A i \in DOMAIN t.sends : t.sends[i].type = "text" =>
             t.sends[i].id < next_window_id /\ t.sends[i].kind # "other"
      BY <1>2, <1>4 DEF KeysOK, SendsOK
    <2> QED BY <2>1, <1>0, <1>4, <1>6, HostKeys, KeptSeat DEF KeysOK
  <1>8. Numbered'
    BY <1>0, HostRest DEF IInv, Numbered
  <1>9. Hosted'
    BY <1>0, <1>6, <1>7 DEF IInv, Hosted
  <1>10. IsHeld'
    BY <1>0, <1>3, <1>4, HeldNext DEF IInv, IsHeld
  <1> QED BY <1>7, <1>8, <1>9, <1>10 DEF IInv

\* A key goes up.
LEMMA KeyReleasedOK ==
    ASSUME IInv, NEW p \in Keys, KeyReleased(p), UNCHANGED <<seat, button>>
    PROVE  IInv'
  <1> DEFINE keys == held \ {p}
             mods == IF p \in ModifierKeys THEN ModifiersOf(keys) ELSE modifiers
             s == KeysNow(mods)
             t == HandleKeyboard(s, focused, p, "released", FALSE, keys)
  <1>0. /\ focused # None /\ p \in held /\ held' = keys
        /\ KeysBecome(t) /\ UNCHANGED <<views, focused, texts, lost>>
    BY Zenon DEF KeyReleased
  <1>1. mods \in Mods /\ p \in AllKeys /\ texts \in Nat /\ inbox \in Seq(Events)
    BY KeyboardAssumption DEF IInv, Hosted, Sent, Mods, ModifiersOf
  <1> HIDE DEF mods
  <1>2. focused \in Ids /\ focused \in Places /\ focused < next_window_id
    BY <1>0, FocusedIs
  <1>3. KeysOK(s, focused) /\ (HeldOK(s, held) <=> HeldOK(KeysNow(modifiers), held))
    BY <1>1, KeysNowOK
  <1> HIDE DEF s
  <1>4. KeysOK(t, focused) /\ (HeldOK(s, held) => HeldOK(t, keys))
    <2>1. \A state \in {"pressed", "released"} : \A repeat : state = "released" =>
             LET u == HandleKeyboard(s, focused, p, state, repeat, keys)
             IN  KeysOK(u, focused) /\ (HeldOK(s, held) => HeldOK(u, keys))
      BY <1>0, <1>1, <1>2, <1>3, HandleKeyboardOK
    <2> QED BY <2>1
  <1> HIDE DEF t
  <1>6. texts' \in Nat /\ texts' >= texts
    BY <1>0, <1>1
  <1>7. Sent' /\ SeatFine' /\ Tracked' /\ modifiers' \in Mods
    <2>1. \A i \in DOMAIN t.sends : t.sends[i].type = "text" =>
             t.sends[i].id < next_window_id /\ t.sends[i].kind # "other"
      BY <1>2, <1>4 DEF KeysOK, SendsOK
    <2> QED BY <2>1, <1>0, <1>4, <1>6, HostKeys, KeptSeat DEF KeysOK
  <1>8. Numbered'
    BY <1>0, HostRest DEF IInv, Numbered
  <1>9. Hosted'
    BY <1>0, <1>6, <1>7 DEF IInv, Hosted
  <1>10. IsHeld'
    BY <1>0, <1>3, <1>4, HeldNext DEF IInv, IsHeld
  <1> QED BY <1>7, <1>8, <1>9, <1>10 DEF IInv

\* Keys that are all released leave nothing to be held.
LEMMA NothingTracked ==
    ASSUME NEW t, t \in KeyStates, CountOK(t), DOMAIN t.pressed = {}
    PROVE  \A h : HeldOK(t, h)
  BY DEF CountOK, HeldOK

\* Less to be held.
LEMMA HeldLess ==
    ASSUME NEW s, NEW t, NEW h, HeldOK(s, h), DOMAIN t.pressed \subseteq DOMAIN s.pressed,
           \A j \in DOMAIN t.counts : j \in DOMAIN s.counts /\ t.counts[j] = s.counts[j]
    PROVE  HeldOK(t, h)
  BY DEF HeldOK

\* A key goes up and no window of the viewer is told.
LEMMA KeyUnseenOK ==
    ASSUME IInv, NEW p \in Keys, KeyUnseen(p), UNCHANGED <<seat, button>>
    PROVE  IInv'
  <1> DEFINE s == KeysNow(modifiers)
  <1>0. /\ held' = held \ {p} /\ lost' = (lost \/ focused # None)
        /\ UNCHANGED <<views, focused, modifiers, pressed_guest_keys,
                       pressed_guest_modifier_counts, inbox, texts>>
    BY DEF KeyUnseen
  <1>1. UNCHANGED <<windows, next_window_id, active_window_id, text_inputs, pending_text_input,
                    pressed, pointer, delivered, outbox>>
    BY DEF seat
  <1>2. /\ s.pressed = pressed_guest_keys /\ s.counts = pressed_guest_modifier_counts
        /\ KeysNow(modifiers)'.pressed = pressed_guest_keys
        /\ KeysNow(modifiers)'.counts = pressed_guest_modifier_counts
    BY <1>0 DEF KeysNow, State
  <1>3. KeysNow(modifiers)' = s
    BY <1>0 DEF KeysNow, State
  <1>4. Numbered'
    BY <1>0, HostRest DEF IInv, Numbered
  <1>5. Hosted'
    BY <1>0 DEF IInv, Hosted
  <1>6. Sent'
    BY <1>0, <1>1 DEF IInv, Sent, QueueInOrder, TextKnown
  <1>7. Tracked'
    <2> HIDE DEF s
    <2>1. TrackOK(s, focused) /\ CountOK(s)
      BY DEF IInv, Tracked, s
    <2>2. inbox \o <<>> = inbox
      BY DEF IInv, Sent
    <2>3. KeysBecome(s)
      BY <2>2, <1>0 DEF KeysBecome, s, KeysNow, State
    <2> QED BY <2>1, <2>3, <1>0, <1>1, KeysBecomes
  <1>8. SeatFine'
    <2>0. SeatOK(SeatNow, Coming, texts, next_window_id)
      BY DEF IInv, SeatFine
    <2>1. SeatBecome(SeatNow)
      BY <1>1 DEF SeatBecome, SeatNow, Seated
    <2>2. Coming' = Coming
      BY <1>0 DEF Coming
    <2> QED BY <2>0, <2>1, <2>2, <1>0, <1>1, SeatBecomes
  <1>9. IsHeld'
    <2> SUFFICES ASSUME ~lost' PROVE HeldOK(KeysNow(modifiers)', held')
      BY DEF IsHeld, HeldOK
    <2>1. focused = None /\ TrackOK(s, focused) /\ CountOK(s)
      BY <1>0 DEF IInv, Tracked
    <2> HIDE DEF s
    <2>2. DOMAIN s.pressed = {} /\ s \in KeyStates
      BY <2>1 DEF TrackOK
    <2> QED BY <2>1, <2>2, <1>3, NothingTracked
  <1> QED BY <1>4, <1>5, <1>6, <1>7, <1>8, <1>9 DEF IInv

\* Keys that are all released, with the focus anywhere.
LEMMA ReleasedAnywhere ==
    ASSUME NEW t, NEW f, TrackOK(t, f), DOMAIN t.pressed = {}
    PROVE  \A g : TrackOK(t, g)
  BY DEF TrackOK

\* The focus moves.
LEMMA FocusMovesOK ==
    ASSUME IInv, NEW w \in views \cup {None}, FocusMoves(w), UNCHANGED <<seat, button>>
    PROVE  IInv'
  <1> DEFINE s == KeysNow(modifiers)
             r == ReleaseWindowKeys(s, focused)
             off == IF focused = None THEN s
                    ELSE [r EXCEPT !.sends = Append(r.sends, Focus(focused, FALSE))]
             t == IF w = None THEN off ELSE [off EXCEPT !.sends = Append(off.sends, Focus(w, TRUE))]
             NoText(u) == \A i \in DOMAIN u.sends : u.sends[i].type # "text"
             Free(u) == /\ \A g : TrackOK(u, g)
                        /\ CountOK(u) /\ DOMAIN u.pressed = {} /\ NoText(u) /\ u \in KeyStates
  <1>0. focused' = w /\ KeysBecome(t) /\ UNCHANGED <<views, held, texts, lost>>
    BY Zenon DEF FocusMoves
  <1>1. modifiers \in Mods /\ texts \in Nat /\ inbox \in Seq(Events) /\ w \in Places
    BY DEF IInv, Hosted, Sent, Numbered, Places
  <1>2. KeysOK(s, focused) /\ s.sends = <<>>
    BY <1>1, KeysNowOK
  <1> HIDE DEF s
  <1>3. ASSUME NEW u, Free(u), NEW e \in FocusEvents
        PROVE  Free([u EXCEPT !.sends = Append(u.sends, e)])
    <2> DEFINE v == [u EXCEPT !.sends = Append(u.sends, e)]
    <2>1. e \in Events /\ e.type = "focus"
      BY DEF FocusEvents, Events
    <2>2. u.sends \in Seq(Events)
      BY <1>3 DEF KeyStates
    <2>3. TrackOK(u, None)
      BY <1>3
    <2>4. /\ TrackOK(v, None) /\ v.pressed = u.pressed /\ v.counts = u.counts
          /\ v.sends = Append(u.sends, e)
      BY <1>1, <2>1, <2>3, SendOther
    <2>5. NoText(v)
      BY <2>1, <2>2, <2>4, <1>3, Appended
    <2> HIDE DEF v, NoText
    <2>6. (\A g : TrackOK(v, g)) /\ DOMAIN v.pressed = {}
      BY <2>4, <1>3, ReleasedAnywhere
    <2>7. CountOK(v) /\ v \in KeyStates
      BY <2>4, <1>3 DEF CountOK, TrackOK
    <2> QED BY <2>5, <2>6, <2>7 DEF v
  <1>4. Free(off)
    <2>1. CASE focused = None
      <3>1. off = s /\ DOMAIN s.pressed = {} /\ TrackOK(s, focused) /\ CountOK(s) /\ s \in KeyStates
        BY <2>1, <1>2 DEF KeysOK, TrackOK
      <3>2. NoText(s)
        BY <1>2
      <3>3. \A g : TrackOK(s, g)
        BY <3>1, ReleasedAnywhere
      <3> QED BY <3>1, <3>2, <3>3
    <2>2. CASE focused # None
      <3>0. focused \in Ids /\ focused \in Places
        BY <2>2, FocusedIs
      <3>1. /\ KeysOK(r, focused) /\ DOMAIN r.pressed = {}
            /\ \A i \in DOMAIN r.sends : r.sends[i].type = "text" => i \in DOMAIN s.sends
        BY <3>0, <1>1, <1>2, ReleaseWindowKeysOK
      <3> HIDE DEF r
      <3>2. NoText(r)
        BY <3>1, <1>2
      <3>3. TrackOK(r, focused) /\ CountOK(r) /\ r \in KeyStates
        BY <3>1 DEF KeysOK, TrackOK
      <3>4. \A g : TrackOK(r, g)
        BY <3>1, <3>3, ReleasedAnywhere
      <3>5. Focus(focused, FALSE) \in FocusEvents
        BY <3>0 DEF Focus, FocusEvents
      <3>6. Free(r)
        BY <3>1, <3>2, <3>3, <3>4
      <3> HIDE DEF Free
      <3> QED BY <2>2, <3>5, <3>6, <1>3
    <2> QED BY <2>1, <2>2
  <1> HIDE DEF off
  <1>5. Free(t)
    <2>1. Focus(w, TRUE) \in FocusEvents
      BY <1>1 DEF Focus, FocusEvents
    <2> HIDE DEF Free
    <2> QED BY <2>1, <1>3, <1>4
  <1> HIDE DEF t
  <1>6. texts' \in Nat /\ texts' >= texts
    BY <1>0, <1>1
  <1>7. Sent' /\ SeatFine' /\ Tracked' /\ modifiers' \in Mods
    <2>1. TrackOK(t, w) /\ CountOK(t) /\ \A i \in DOMAIN t.sends : t.sends[i].type # "text"
      BY <1>5
    <2> QED BY <2>1, <1>0, <1>6, HostKeys, KeptSeat
  <1>8. Numbered'
    BY <1>0, HostRest
  <1>9. Hosted'
    BY <1>0, <1>6, <1>7 DEF IInv, Hosted
  <1>10. IsHeld'
    BY <1>0, <1>5, NothingTracked, HeldNext
  <1> QED BY <1>7, <1>8, <1>9, <1>10 DEF IInv

\* CloseRequested.
LEMMA CloseRequestedOK ==
    ASSUME IInv, CloseRequested, UNCHANGED <<seat, button>>
    PROVE  IInv'
  <1> DEFINE s == KeysNow(modifiers)
             r == ReleaseWindowKeys(s, focused)
             e == [type |-> "close", id |-> focused]
             t == [r EXCEPT !.sends = Append(r.sends, e)]
  <1>0. focused # None /\ KeysBecome(t) /\ UNCHANGED <<views, focused, held, texts, lost>>
    BY Zenon DEF CloseRequested
  <1>1. modifiers \in Mods /\ texts \in Nat /\ inbox \in Seq(Events)
    BY DEF IInv, Hosted, Sent
  <1>2. focused \in Ids /\ focused \in Places
    BY <1>0, FocusedIs
  <1>3. KeysOK(s, focused) /\ s.sends = <<>>
    BY <1>1, KeysNowOK
  <1> HIDE DEF s
  <1>4. /\ KeysOK(r, focused) /\ DOMAIN r.pressed = {}
        /\ \A i \in DOMAIN r.sends : r.sends[i].type = "text" => i \in DOMAIN s.sends
    BY <1>1, <1>2, <1>3, ReleaseWindowKeysOK
  <1> HIDE DEF r
  <1>5. TrackOK(r, focused) /\ CountOK(r) /\ r.sends \in Seq(Events)
    BY <1>4 DEF KeysOK, TrackOK, KeyStates
  <1>6. e \in Events /\ e.type = "close"
    BY <1>2 DEF Events, CloseEvents
  <1> HIDE DEF e
  <1>7. /\ TrackOK(t, focused) /\ t.pressed = r.pressed /\ t.counts = r.counts
        /\ t.sends = Append(r.sends, e)
    BY <1>1, <1>5, <1>6, SendOther
  <1> HIDE DEF t
  <1>8. \A i \in DOMAIN t.sends : t.sends[i].type # "text"
    BY <1>3, <1>4, <1>5, <1>6, <1>7, Appended
  <1>9. CountOK(t) /\ t \in KeyStates /\ DOMAIN t.pressed = {}
    BY <1>4, <1>5, <1>7 DEF CountOK, TrackOK
  <1>10. texts' \in Nat /\ texts' >= texts
    BY <1>0, <1>1
  <1>11. Sent' /\ SeatFine' /\ Tracked' /\ modifiers' \in Mods
    BY <1>0, <1>7, <1>8, <1>9, <1>10, HostKeys, KeptSeat
  <1>12. Numbered'
    BY <1>0, HostRest DEF IInv, Numbered
  <1>13. Hosted'
    BY <1>0, <1>10, <1>11 DEF IInv, Hosted
  <1>14. IsHeld'
    BY <1>0, <1>9, NothingTracked, HeldNext
  <1> QED BY <1>11, <1>12, <1>13, <1>14 DEF IInv

\* Ime::Enabled.
LEMMA ImeEnabledOK ==
    ASSUME IInv, ImeEnabled, UNCHANGED <<seat, button>>
    PROVE  IInv'
  <1> DEFINE s == KeysNow(modifiers)
             r == ReleaseKey(s, "lctrl")
             t == [r EXCEPT !.mods = {}]
  <1>0. focused # None /\ KeysBecome(t) /\ UNCHANGED <<views, focused, held, texts, lost>>
    BY Zenon DEF ImeEnabled
  <1>1. modifiers \in Mods /\ texts \in Nat /\ inbox \in Seq(Events) /\ {} \in Mods
    BY DEF IInv, Hosted, Sent, Mods
  <1>2. focused \in Ids /\ focused \in Places /\ focused < next_window_id
    BY <1>0, FocusedIs
  <1>3. KeysOK(s, focused) /\ (~lost => HeldOK(s, held))
    BY <1>1, KeysNowOK DEF IInv, IsHeld
  <1> HIDE DEF s
  <1>4. /\ KeysOK(r, focused) /\ DOMAIN r.pressed \subseteq DOMAIN s.pressed
        /\ \A j \in DOMAIN r.counts : j \in DOMAIN s.counts /\ r.counts[j] = s.counts[j]
    <2>1. \A k \in Codes :
             LET u == ReleaseKey(s, k)
             IN  /\ KeysOK(u, focused) /\ DOMAIN u.pressed = DOMAIN s.pressed \ {k}
                 /\ \A j \in DOMAIN u.counts : j \in DOMAIN s.counts /\ u.counts[j] = s.counts[j]
      BY <1>1, <1>2, <1>3, ReleaseKeyOK
    <2>2. "lctrl" \in Codes
      BY DEF Codes
    <2> QED BY <2>1, <2>2
  <1> HIDE DEF r
  <1>5. r \in KeyStates
    BY <1>4 DEF KeysOK, TrackOK
  <1>6. t \in KeyStates /\ t.pressed = r.pressed /\ t.sends = r.sends /\ t.counts = r.counts
    BY <1>1, <1>5, WithMods
  <1> HIDE DEF t
  <1>7. TrackOK(t, focused) /\ CountOK(t) /\ SendsOK(t, focused)
    BY <1>4, <1>6 DEF KeysOK, TrackOK, CountOK, SendsOK
  <1>8. \A i \in DOMAIN t.sends : t.sends[i].type = "text" =>
           t.sends[i].id < next_window_id /\ t.sends[i].kind # "other"
    BY <1>2, <1>7 DEF SendsOK
  <1>10. texts' \in Nat /\ texts' >= texts
    BY <1>0, <1>1
  <1>11. Sent' /\ SeatFine' /\ Tracked' /\ modifiers' \in Mods
    BY <1>0, <1>7, <1>8, <1>10, HostKeys, KeptSeat
  <1>12. Numbered'
    BY <1>0, HostRest DEF IInv, Numbered
  <1>13. Hosted'
    BY <1>0, <1>10, <1>11 DEF IInv, Hosted
  <1>14. IsHeld'
    <2>1. ~lost => HeldOK(t, held)
      BY <1>3, <1>4, <1>6, HeldLess
    <2> QED BY <2>1, <1>0, HeldNext
  <1> QED BY <1>11, <1>12, <1>13, <1>14 DEF IInv

\* Ime::Commit of text that is not ASCII, or a preedit.
LEMMA ImeTextOK ==
    ASSUME IInv, NEW kind \in {"other", "preedit"}, ImeText(kind), UNCHANGED <<seat, button>>
    PROVE  IInv'
  <1> DEFINE s == KeysNow(modifiers)
             r == ClearStale(s)
             e == Text(focused, texts + 1, kind)
             v == [r EXCEPT !.sends = Append(r.sends, e)]
             t == IF Shortcut(r.mods) THEN r ELSE v
  <1>0. /\ focused # None /\ KeysBecome(t) /\ UNCHANGED <<views, focused, held, lost>>
        /\ texts' = IF Shortcut(r.mods) THEN texts ELSE texts + 1
    BY Zenon DEF ImeText
  <1>1. modifiers \in Mods /\ texts \in Nat /\ inbox \in Seq(Events)
    BY DEF IInv, Hosted, Sent
  <1>2. focused \in Ids /\ focused \in Places /\ focused < next_window_id
    BY <1>0, FocusedIs
  <1>3. KeysOK(s, focused) /\ (~lost => HeldOK(s, held)) /\ s.sends = <<>>
    BY <1>1, KeysNowOK DEF IInv, IsHeld
  <1> HIDE DEF s
  <1>4. KeysOK(r, focused) /\ r.pressed = s.pressed /\ r.counts = s.counts /\ r.sends = <<>>
    BY <1>2, <1>3, ClearStaleOK
  <1> HIDE DEF r
  <1>5. TrackOK(r, focused) /\ CountOK(r)
    BY <1>4 DEF KeysOK
  <1>6. e \in Events /\ e.type = "text" /\ e.id = focused /\ e.n = texts + 1
    BY <1>1, <1>2 DEF Text, Events, TextEvents, TextKinds
  <1> HIDE DEF e
  <1>7. /\ TrackOK(v, focused) /\ v.pressed = r.pressed /\ v.counts = r.counts
        /\ v.sends = Append(r.sends, e)
    BY <1>1, <1>5, <1>6, SendOther
  <1> HIDE DEF v
  <1>8. v.sends = <<e>>
    BY <1>4, <1>6, <1>7
  <1>9. TrackOK(t, focused) /\ CountOK(t) /\ t.pressed = s.pressed /\ t.counts = s.counts
    BY <1>4, <1>5, <1>7 DEF CountOK
  <1>10. texts' \in Nat /\ texts' >= texts
    BY <1>0, <1>1
  <1>11. QueueInOrder(t.sends) /\ \A i \in DOMAIN t.sends :
            /\ t.sends[i].type = "text" => t.sends[i].id < next_window_id
            /\ Other(t.sends[i]) => texts < t.sends[i].n /\ t.sends[i].n <= texts'
    <2>1. CASE Shortcut(r.mods)
      BY <2>1, <1>4 DEF QueueInOrder
    <2>2. CASE ~Shortcut(r.mods)
      <3>1. t.sends = <<e>> /\ texts' = texts + 1
        BY <2>2, <1>0, <1>8
      <3>2. DOMAIN t.sends = {1} /\ t.sends[1] = e
        BY <3>1
      <3> HIDE DEF t
      <3> QED BY <3>1, <3>2, <1>1, <1>2, <1>6 DEF QueueInOrder
    <2> QED BY <2>1, <2>2
  <1> HIDE DEF t
  <1>12. Tracked' /\ modifiers' \in Mods /\ inbox' = inbox \o t.sends /\ t.sends \in Seq(Events)
    <2>1. pressed' = pressed
      BY DEF seat
    <2> QED BY <2>1, <1>0, <1>9, KeysBecomes
  <1>13. Sent' /\ SeatFine'
    <2> DEFINE q == t.sends
    <2>1. /\ q \in Seq(Events) /\ inbox' = inbox \o q /\ QueueInOrder(q)
          /\ \A i \in DOMAIN q : /\ q[i].type = "text" => q[i].id < next_window_id
                                 /\ Other(q[i]) => texts < q[i].n /\ q[i].n <= texts'
      BY <1>11, <1>12
    <2> HIDE DEF q
    <2> QED BY <2>1, <1>10, Sends, KeptSeat
  <1>14. Numbered'
    BY <1>0, HostRest DEF IInv, Numbered
  <1>15. Hosted'
    BY <1>0, <1>10, <1>12 DEF IInv, Hosted
  <1>16. IsHeld'
    <2>1. ~lost => HeldOK(t, held)
      BY <1>3, <1>9 DEF HeldOK
    <2> QED BY <2>1, <1>0, HeldNext
  <1> QED BY <1>12, <1>13, <1>14, <1>15, <1>16 DEF IInv

\* Events that are neither keys nor texts are sent, and the keys stay.
LEMMA SendsPlain ==
    ASSUME IInv, NEW q \in Seq(Events), inbox' = inbox \o q, UNCHANGED seat,
           \A i \in DOMAIN q : q[i].type \notin {"key", "text"},
           UNCHANGED <<views, focused, held, modifiers, pressed_guest_keys,
                       pressed_guest_modifier_counts, texts, lost>>,
           button' \in Places
    PROVE  IInv'
  <1> DEFINE s == KeysNow(modifiers)
             t == [s EXCEPT !.sends = q]
  <1>0. texts \in Nat /\ modifiers \in Mods /\ inbox \in Seq(Events) /\ pressed' = pressed
    BY DEF IInv, Hosted, Sent, seat
  <1>1. /\ KeysOK(s, focused) /\ (~lost => HeldOK(s, held)) /\ s.sends = <<>> /\ s.mods = modifiers
        /\ s.pressed = pressed_guest_keys /\ s.counts = pressed_guest_modifier_counts
    BY <1>0, KeysNowOK DEF IInv, IsHeld, KeysNow, State
  <1> HIDE DEF s
  <1>2. TrackOK(s, focused) /\ CountOK(s) /\ s \in KeyStates
    BY <1>1 DEF KeysOK, TrackOK
  <1>3. /\ t \in KeyStates /\ t.sends = q /\ t.pressed = s.pressed /\ t.mods = s.mods
        /\ t.counts = s.counts
    BY <1>2, WithSends
  <1> HIDE DEF t
  <1>4. KeysBecome(t)
    BY <1>1, <1>3 DEF KeysBecome
  <1>5. TrackOK(t, focused)
    <2>1. \A k \in Codes : LiveIn(pressed, inbox \o q, k) => k \in DOMAIN t.pressed
      <3> SUFFICES ASSUME NEW k \in Codes, LiveIn(pressed, inbox \o q, k) PROVE k \in DOMAIN t.pressed
        OBVIOUS
      <3>1. \A i \in DOMAIN q : ~Press(q[i], k)
        BY DEF Press
      <3>2. LiveIn(pressed, inbox, k)
        BY <3>1, <1>0, LiveConcat
      <3>3. inbox \o s.sends = inbox
        BY <1>0, <1>1
      <3> QED BY <3>2, <3>3, <1>2, <1>3 DEF TrackOK
    <2> QED BY <2>1, <1>2, <1>3 DEF TrackOK
  <1>6. CountOK(t)
    BY <1>2, <1>3 DEF CountOK
  <1>7. Tracked' /\ modifiers' \in Mods
    BY <1>0, <1>4, <1>5, <1>6, KeysBecomes
  <1>8. QueueInOrder(q) /\ \A i \in DOMAIN q : q[i].type # "text" /\ ~Other(q[i])
    BY DEF QueueInOrder, Other
  <1>9. Sent' /\ SeatFine'
    BY <1>0, <1>8, Sends, KeptSeat
  <1>10. Numbered'
    BY HostRest DEF IInv, Numbered
  <1>11. Hosted'
    BY <1>7 DEF IInv, Hosted
  <1>12. IsHeld'
    <2>1. ~lost' => HeldOK(t, held')
      BY <1>1, <1>3 DEF HeldOK
    <2> QED BY <2>1, <1>4, HeldNext
  <1> QED BY <1>7, <1>9, <1>10, <1>11, <1>12 DEF IInv

\* MouseInput.
LEMMA ButtonPressedOK ==
    ASSUME IInv, ButtonPressed
    PROVE  IInv'
  <1> DEFINE a == Focus(focused, TRUE)
             b == Button(focused, "pressed")
             q == <<a, b>>
  <1>0. /\ focused # None /\ button' = focused /\ inbox' = inbox \o q /\ UNCHANGED seat
        /\ UNCHANGED <<views, focused, held, modifiers, pressed_guest_keys,
                       pressed_guest_modifier_counts, texts, lost>>
    BY DEF ButtonPressed
  <1>1. focused \in Places
    BY <1>0, FocusedIs
  <1>2. a \in Events /\ b \in Events /\ a.type = "focus" /\ b.type = "button"
    BY <1>1 DEF Focus, Button, Events, FocusEvents, ButtonEvents
  <1> HIDE DEF a, b
  <1>3. q \in Seq(Events) /\ \A i \in DOMAIN q : q[i].type \notin {"key", "text"}
    BY <1>2
  <1> HIDE DEF q
  <1> QED BY <1>0, <1>1, <1>3, SendsPlain

\* The release goes to the window of the press.
LEMMA ButtonReleasedOK ==
    ASSUME IInv, ButtonReleased
    PROVE  IInv'
  <1> DEFINE b == Button(button, "released")
             q == IF button \in views THEN <<b>> ELSE <<>>
  <1>0. /\ button' = None /\ UNCHANGED seat
        /\ inbox' = IF button \in views THEN Append(inbox, b) ELSE inbox
        /\ UNCHANGED <<views, focused, held, modifiers, pressed_guest_keys,
                       pressed_guest_modifier_counts, texts, lost>>
    BY DEF ButtonReleased
  <1>1. b \in Events /\ b.type = "button" /\ inbox \in Seq(Events) /\ None \in Places
    BY DEF IInv, Hosted, Sent, Button, Events, ButtonEvents, Places
  <1> HIDE DEF b
  <1>2. inbox' = inbox \o q
    <2>1. Append(inbox, b) = inbox \o <<b>> /\ inbox \o <<>> = inbox
      BY <1>1
    <2> QED BY <2>1, <1>0
  <1>3. q \in Seq(Events) /\ \A i \in DOMAIN q : q[i].type \notin {"key", "text"}
    BY <1>1
  <1> HIDE DEF q
  <1> QED BY <1>0, <1>1, <1>2, <1>3, SendsPlain

\* The first of a sequence and the others.
LEMMA HeadTail ==
    ASSUME NEW X, NEW q \in Seq(X), q # <<>>
    PROVE  /\ Head(q) \in X /\ Head(q) = q[1] /\ 1 \in DOMAIN q /\ Tail(q) \in Seq(X)
           /\ \A i \in DOMAIN Tail(q) : i \in Nat /\ i + 1 \in DOMAIN q /\ Tail(q)[i] = q[i + 1]
           /\ \A i \in DOMAIN q : i # 1 => i - 1 \in DOMAIN Tail(q) /\ Tail(q)[i - 1] = q[i]
  <1>1. /\ Len(q) \in Nat /\ Len(q) # 0 /\ DOMAIN q = 1 .. Len(q) /\ Tail(q) \in Seq(X)
        /\ Len(Tail(q)) = Len(q) - 1 /\ Head(q) = q[1]
        /\ DOMAIN Tail(q) = 1 .. Len(q) - 1
    OBVIOUS
  <1>2. \A i \in 1 .. Len(q) - 1 : Tail(q)[i] = q[i + 1]
    OBVIOUS
  <1>3. Head(q) \in X /\ 1 \in DOMAIN q
    BY <1>1
  <1>4. \A i \in DOMAIN Tail(q) : i \in Nat /\ i + 1 \in DOMAIN q /\ Tail(q)[i] = q[i + 1]
    BY <1>1, <1>2
  <1>5. \A i \in DOMAIN q : i # 1 => i - 1 \in DOMAIN Tail(q) /\ Tail(q)[i - 1] = q[i]
    <2> SUFFICES ASSUME NEW i \in DOMAIN q, i # 1
                 PROVE  i - 1 \in DOMAIN Tail(q) /\ Tail(q)[i - 1] = q[i]
      OBVIOUS
    <2>1. i - 1 \in 1 .. Len(q) - 1 /\ (i - 1) + 1 = i
      BY <1>1
    <2> QED BY <2>1, <1>1, <1>2
  <1> QED BY <1>1, <1>3, <1>4, <1>5

-----------------------------------------------------------------------------
(* The two channels.                                                       *)

\* The viewer takes a WindowEvent: the keys of a window that is gone are
\* released.
LEMMA ViewerHandlesOK ==
    ASSUME IInv, ViewerHandles
    PROVE  IInv'
  <1> DEFINE e == Head(outbox)
             s == KeysNow(modifiers)
             r == ReleaseWindowKeys(s, e.id)
  <1>0. /\ outbox # <<>> /\ outbox' = Tail(outbox) /\ button' = button
        /\ UNCHANGED <<windows, next_window_id, active_window_id, text_inputs,
                       pending_text_input, pressed, pointer, delivered>>
        /\ IF e.type = "created" THEN ViewCreated(e.id) ELSE ViewDestroyed(e.id)
    BY Zenon DEF ViewerHandles
  <1>1. /\ modifiers \in Mods /\ texts \in Nat /\ inbox \in Seq(Events)
        /\ outbox \in Seq(WindowEvents) /\ focused \in Places
    BY DEF IInv, Hosted, Sent, Numbered, Places
  <1>2. /\ e \in WindowEvents /\ e = outbox[1] /\ 1 \in DOMAIN outbox /\ outbox' \in Seq(WindowEvents)
        /\ \A i \in DOMAIN outbox' : i + 1 \in DOMAIN outbox /\ outbox'[i] = outbox[i + 1]
    BY <1>0, <1>1, HeadTail
  <1>3. e.id \in Ids /\ e.id < next_window_id
    BY <1>2 DEF WindowEvents, IInv, Numbered
  <1>4. KeysOK(s, focused) /\ (~lost => HeldOK(s, held)) /\ s.sends = <<>>
    BY <1>1, KeysNowOK DEF IInv, IsHeld
  <1>5. SeatKept
    BY <1>0 DEF SeatKept
  <1> HIDE DEF e
  <1>6. ASSUME NEW t, KeysBecome(t), CountOK(t), TrackOK(t, focused'), UNCHANGED <<texts, held, lost>>,
               \A i \in DOMAIN t.sends : t.sends[i].type # "text", ~lost => HeldOK(t, held)
        PROVE  Sent' /\ SeatFine' /\ Tracked' /\ Hosted' /\ IsHeld'
    <2>1. texts' \in Nat /\ texts' >= texts
      BY <1>1, <1>6
    <2>2. Sent' /\ SeatFine' /\ Tracked' /\ modifiers' \in Mods
      BY <1>5, <1>6, <2>1, HostKeys
    <2>3. IsHeld'
      BY <1>6, HeldNext
    <2> QED BY <2>1, <2>2, <2>3, <1>0, <1>6 DEF IInv, Hosted
  <1>7. ASSUME views' \subseteq views \cup {e.id}, focused' \in views' \cup {None}
        PROVE  Numbered'
    <2>1. \A i \in DOMAIN outbox' : outbox'[i].id < next_window_id
      BY <1>2 DEF IInv, Numbered
    <2> QED BY <2>1, <1>0, <1>2, <1>3, <1>7 DEF IInv, Numbered
  <1>8. CASE e.type = "created"
    <2>1. /\ views' = views \cup {e.id}
          /\ UNCHANGED <<focused, held, modifiers, pressed_guest_keys,
                         pressed_guest_modifier_counts, inbox, texts, lost>>
      BY <1>0, <1>8 DEF ViewCreated
    <2>2. inbox \o <<>> = inbox
      BY <1>1
    <2>3. KeysBecome(s)
      BY <2>1, <2>2 DEF KeysBecome, KeysNow, State
    <2> HIDE DEF s
    <2>4. Sent' /\ SeatFine' /\ Tracked' /\ Hosted' /\ IsHeld'
      BY <1>4, <1>6, <2>1, <2>3 DEF KeysOK
    <2>5. Numbered'
      BY <1>7, <2>1 DEF IInv, Numbered
    <2> QED BY <2>4, <2>5 DEF IInv
  <1>9. CASE e.type # "created"
    <2>1. /\ views' = views \ {e.id} /\ focused' = IF focused = e.id THEN None ELSE focused
          /\ KeysBecome(r) /\ UNCHANGED <<held, texts, lost>>
      BY <1>0, <1>9 DEF ViewDestroyed
    <2> HIDE DEF s
    <2>2. /\ KeysOK(r, focused) /\ DOMAIN r.pressed \subseteq DOMAIN s.pressed
          /\ \A j \in DOMAIN r.counts : j \in DOMAIN s.counts /\ r.counts[j] = s.counts[j]
          /\ e.id = focused => DOMAIN r.pressed = {}
          /\ \A i \in DOMAIN r.sends : r.sends[i].type = "text" => i \in DOMAIN s.sends
      BY <1>1, <1>3, <1>4, ReleaseWindowKeysOK
    <2> HIDE DEF r
    <2>3. TrackOK(r, focused) /\ CountOK(r)
      BY <2>2 DEF KeysOK
    <2>4. TrackOK(r, focused')
      BY <2>1, <2>2, <2>3, ReleasedAnywhere
    <2>5. \A i \in DOMAIN r.sends : r.sends[i].type # "text"
      BY <2>2, <1>4
    <2>6. ~lost => HeldOK(r, held)
      BY <2>2, <1>4, HeldLess
    <2>7. Sent' /\ SeatFine' /\ Tracked' /\ Hosted' /\ IsHeld'
      BY <2>1, <2>3, <2>4, <2>5, <2>6, <1>6
    <2>8. Numbered'
      BY <1>7, <2>1 DEF IInv, Numbered
    <2> QED BY <2>7, <2>8 DEF IInv
  <1> QED BY <1>8, <1>9

\* The events that stay when the first is taken.
LEMMA TakesFirst ==
    ASSUME IInv, inbox # <<>>, inbox' = Tail(inbox), UNCHANGED <<texts, next_window_id>>
    PROVE  /\ Head(inbox) \in Events /\ Head(inbox) \in Coming /\ Coming' \subseteq Coming
           /\ Sent' /\ Head(inbox) = inbox[1] /\ 1 \in DOMAIN inbox
           /\ \A b \in Coming' : Other(Head(inbox)) /\ Other(b) => Head(inbox).n < b.n
  <1>1. inbox \in Seq(Events)
    BY DEF IInv, Sent
  <1>2. /\ Head(inbox) \in Events /\ Head(inbox) = inbox[1] /\ 1 \in DOMAIN inbox
        /\ inbox' \in Seq(Events)
        /\ \A i \in DOMAIN inbox' : i \in Nat /\ i + 1 \in DOMAIN inbox /\ inbox'[i] = inbox[i + 1]
    BY <1>1, HeadTail
  <1>3. Coming' \subseteq Coming
    BY <1>2 DEF Coming
  <1>4. QueueInOrder(inbox')
    <2> SUFFICES ASSUME NEW i \in DOMAIN inbox', NEW j \in DOMAIN inbox', i < j,
                        Other(inbox'[i]), Other(inbox'[j])
                 PROVE  inbox'[i].n < inbox'[j].n
      BY DEF QueueInOrder
    <2>1. i + 1 \in DOMAIN inbox /\ j + 1 \in DOMAIN inbox /\ i + 1 < j + 1
      BY <1>2
    <2> QED BY <2>1, <1>2 DEF IInv, Sent, QueueInOrder
  <1>5. \A i \in DOMAIN inbox' : inbox'[i].type = "text" => TextKnown(inbox'[i], texts, next_window_id)
    BY <1>2 DEF IInv, Sent
  <1>6. Sent'
    BY <1>2, <1>4, <1>5 DEF Sent, QueueInOrder, TextKnown
  <1>7. \A b \in Coming' : Other(Head(inbox)) /\ Other(b) => Head(inbox).n < b.n
    <2> SUFFICES ASSUME NEW i \in DOMAIN inbox', Other(inbox[1]), Other(inbox'[i])
                 PROVE  inbox[1].n < inbox'[i].n
      BY <1>2 DEF Coming
    <2>1. i + 1 \in DOMAIN inbox /\ 1 \in DOMAIN inbox /\ 1 < i + 1 /\ inbox'[i] = inbox[i + 1]
      <3>1. i \in DOMAIN inbox' /\ i # 0
        BY <1>2
      <3> QED BY <3>1, <1>2
    <2> QED BY <2>1 DEF IInv, Sent, QueueInOrder
  <1> QED BY <1>2, <1>3, <1>6, <1>7 DEF Coming

\* A key the guest sees pressed after the first event was live before it.
LEMMA LiveTail ==
    ASSUME NEW down, NEW after, NEW q \in Seq(Events), q # <<>>, NEW k,
           k \in after => Press(q[1], k) \/ (k \in down /\ ~Release(q[1], k)),
           LiveIn(after, Tail(q), k)
    PROVE  LiveIn(down, q, k)
  <1> DEFINE r == Tail(q)
  <1>1. /\ 1 \in DOMAIN q /\ DOMAIN q \subseteq Nat \ {0}
        /\ \A i \in DOMAIN r : i \in Nat /\ i + 1 \in DOMAIN q /\ r[i] = q[i + 1]
        /\ \A i \in DOMAIN q : i # 1 => i - 1 \in DOMAIN r /\ r[i - 1] = q[i]
    BY HeadTail
  <1>2. LiveIn(after, r, k)
    OBVIOUS
  <1> HIDE DEF r
  <1>3. CASE k \in after /\ \A i \in DOMAIN r : ~Release(r[i], k)
    <2>1. \A j \in DOMAIN q : j # 1 => ~Release(q[j], k)
      BY <1>1, <1>3
    <2>2. CASE Press(q[1], k)
      <3>1. \A j \in DOMAIN q : j > 1 => ~Release(q[j], k)
        BY <1>1, <2>1
      <3> QED BY <3>1, <2>2, <1>1 DEF LiveIn
    <2>3. CASE k \in down /\ ~Release(q[1], k)
      BY <2>1, <2>3 DEF LiveIn
    <2> QED BY <2>2, <2>3, <1>3
  <1>4. CASE \E i \in DOMAIN r : Press(r[i], k) /\ \A j \in DOMAIN r : j > i => ~Release(r[j], k)
    <2>1. PICK i \in DOMAIN r : Press(r[i], k) /\ \A j \in DOMAIN r : j > i => ~Release(r[j], k)
      BY <1>4
    <2>2. i + 1 \in DOMAIN q /\ Press(q[i + 1], k) /\ i \in Nat /\ i + 1 > 1
      <3>1. i # 0
        <4>1. r \in Seq(Events)
          BY DEF r
        <4> QED BY <4>1
      <3> QED BY <3>1, <2>1, <1>1
    <2>3. \A j \in DOMAIN q : j > i + 1 => ~Release(q[j], k)
      <3> SUFFICES ASSUME NEW j \in DOMAIN q, j > i + 1 PROVE ~Release(q[j], k)
        OBVIOUS
      <3>1. j - 1 \in DOMAIN r /\ r[j - 1] = q[j] /\ j - 1 > i
        BY <1>1, <2>2
      <3> QED BY <3>1, <2>1
    <2> QED BY <2>2, <2>3 DEF LiveIn
  <1> QED BY <1>2, <1>3, <1>4 DEF LiveIn

\* clear_focus.
LEMMA ClearFocusKeeps ==
    ASSUME NEW s \in Seats
    PROVE  LET t == ClearFocus(s)
           IN  /\ t \in Seats /\ Focuses(t) /\ SameEnabled(s, t)
               /\ t.queue = s.queue /\ t.keys = s.keys /\ t.got = s.got
  <1> DEFINE g == ClearTextInputFocus(s.inputs)
             t == ClearFocus(s)
  <1>1. s.inputs \in Inputs /\ None \in Places
    BY DEF Seats, Places
  <1>2. /\ g \in Inputs /\ DOMAIN g = DOMAIN s.inputs
        /\ \A c \in DOMAIN s.inputs : /\ g[c].enabled = s.inputs[c].enabled
                                      /\ g[c].focused_surface = FocusOf(None, c)
    BY <1>1, ClearFocusInputs
  <1>3. t = [s EXCEPT !.active = None, !.inputs = g]
    BY DEF ClearFocus
  <1> HIDE DEF g, t
  <1>4. /\ t \in Seats /\ t.active = None /\ t.inputs = g
        /\ t.queue = s.queue /\ t.keys = s.keys /\ t.got = s.got
    BY <1>1, <1>2, <1>3 DEF Seats
  <1> QED BY <1>2, <1>4 DEF Focuses, SameEnabled, t

\* The same text inputs enabled, the same windows wait.
LEMMA SameEnabledIs ==
    ASSUME NEW s, NEW t, SameEnabled(s, t)
    PROVE  \A w : Enabled(t, w) => Enabled(s, w)
  BY DEF SameEnabled, Enabled

\* An InputEvent moves the seat to a state in which all is fine, and a key is
\* down that was down and is not released by it, or is pressed by it.
LEMMA HandleInputOK ==
    ASSUME IInv, NEW e \in Events, e \in Coming, HandleInput(e), NEW Q \in SUBSET Coming,
           \A b \in Q : Other(e) /\ Other(b) => e.n < b.n,
           e.type = "text" => TextKnown(e, texts, next_window_id)
    PROVE  \E t : /\ SeatBecome(t) /\ SeatOK(t, Q, texts, next_window_id)
                  /\ \A k \in t.keys : Press(e, k) \/ (k \in pressed /\ ~Release(e, k))
  <1> DEFINE s == SeatNow
             Fine(t) == /\ SeatOK(t, Q, texts, next_window_id)
                        /\ \A k \in t.keys : Press(e, k) \/ (k \in pressed /\ ~Release(e, k))
  <1>0. /\ windows \subseteq Ids /\ SeatOK(s, Coming, texts, next_window_id)
        /\ texts \in Nat /\ next_window_id \in Nat /\ s.keys = pressed
    BY DEF IInv, Numbered, SeatFine, Hosted, SeatNow, Seated
  <1>1. s \in Seats /\ Focuses(s)
    BY <1>0 DEF SeatOK
  <1> HIDE DEF s
  <1>2. ASSUME NEW t, t \in Seats, Focuses(t), SameEnabled(s, t), t.queue = s.queue, t.got = s.got
        PROVE  SeatOK(t, Q, texts, next_window_id)
    BY <1>0, <1>2, SameOrder, SameEnabledIs
  <1>3. CASE e.type = "key"
    <2> DEFINE t == KeyboardKey(s, e.id, e.key, e.state)
    <2>1. SeatBecome(t)
      BY <1>3 DEF HandleInput, s
    <2>2. e.id \in Places /\ e.key \in Codes /\ e.state \in {"pressed", "released"}
      BY <1>3 DEF Events, KeyEvents, FocusEvents, TextEvents, ButtonEvents, CloseEvents
    <2>3. /\ t \in Seats /\ Focuses(t) /\ SameEnabled(s, t)
          /\ t.queue = s.queue /\ t.got = s.got
          /\ e.state = "pressed" => t.keys = s.keys \cup {e.key}
          /\ e.state # "pressed" => t.keys = s.keys \ {e.key}
      BY <1>0, <1>1, <2>2, KeyboardKeyKeeps
    <2> HIDE DEF t
    <2>4. \A k \in t.keys : Press(e, k) \/ (k \in pressed /\ ~Release(e, k))
      BY <2>2, <2>3, <1>0, <1>3 DEF Press, Release
    <2> QED BY <2>1, <2>3, <2>4, <1>2
  <1>4. \A k : e.type # "key" => ~Release(e, k)
    BY DEF Release
  <1>5. CASE e.type = "text"
    <2> DEFINE t == HandleText(s, e)
    <2>1. SeatBecome(t)
      BY <1>5 DEF HandleInput, s
    <2>2. e \in TextEvents
      BY <1>5 DEF Events, KeyEvents, FocusEvents, TextEvents, ButtonEvents, CloseEvents
    <2>3. SeatOK(t, Q, texts, next_window_id) /\ t.keys \subseteq s.keys
      BY <1>0, <1>5, <2>2, TextStep
    <2> HIDE DEF t
    <2> QED BY <2>1, <2>3, <1>0, <1>4, <1>5
  <1>6. ASSUME NEW t, SeatBecome(t), e.type # "key", t \in Seats, Focuses(t), SameEnabled(s, t),
               t.queue = s.queue, t.keys = s.keys, t.got = s.got
        PROVE  Fine(t)
    BY <1>0, <1>2, <1>4, <1>6
  <1>7. ASSUME e.type # "key", e.id \in Places, SeatBecome(FocusWindow(s, e.id))
        PROVE  \E t : SeatBecome(t) /\ Fine(t)
    <2> DEFINE t == FocusWindow(s, e.id)
    <2>1. /\ t \in Seats /\ Focuses(t) /\ SameEnabled(s, t)
          /\ t.queue = s.queue /\ t.keys = s.keys /\ t.got = s.got
      BY <1>0, <1>1, <1>7, FocusWindowKeeps
    <2>2. SeatBecome(t)
      BY <1>7
    <2> HIDE DEF t, Fine
    <2> QED BY <1>6, <1>7, <2>1, <2>2
  <1>8. CASE SeatBecome(s) /\ e.type # "key"
    <2>1. SameEnabled(s, s)
      BY DEF SameEnabled
    <2> HIDE DEF Fine
    <2>2. Fine(s)
      BY <1>1, <1>6, <1>8, <2>1
    <2> QED BY <1>8, <2>2 DEF Fine
  <1>9. CASE e.type = "focus"
    <2>1. e.id \in Places /\ e.focused \in BOOLEAN
      BY <1>9 DEF Events, KeyEvents, FocusEvents, TextEvents, ButtonEvents, CloseEvents
    <2>2. CASE e.focused
      <3>1. SeatBecome(FocusWindow(s, e.id))
        BY <1>9, <2>2 DEF HandleInput, s
      <3> QED BY <3>1, <2>1, <1>7, <1>9
    <2>3. CASE ~e.focused
      <3> DEFINE t == ClearFocus(s)
      <3>1. SeatBecome(IF active_window_id = e.id THEN t ELSE s)
        BY <1>9, <2>3 DEF HandleInput, s
      <3>2. /\ t \in Seats /\ Focuses(t) /\ SameEnabled(s, t)
            /\ t.queue = s.queue /\ t.keys = s.keys /\ t.got = s.got
        BY <1>1, ClearFocusKeeps
      <3> HIDE DEF t, Fine
      <3>3. CASE SeatBecome(t)
        <4>1. Fine(t)
          BY <1>6, <1>9, <3>2, <3>3
        <4> QED BY <3>3, <4>1 DEF Fine
      <3> QED BY <3>1, <3>3, <1>8, <1>9
    <2> QED BY <2>1, <2>2, <2>3
  <1>10. CASE e.type = "button"
    <2>1. e.id \in Places
      BY <1>10 DEF Events, KeyEvents, FocusEvents, TextEvents, ButtonEvents, CloseEvents
    <2>2. SeatBecome(FocusWindow(s, e.id))
      BY <1>10 DEF HandleInput, PointerButton, s
    <2> QED BY <2>1, <2>2, <1>7, <1>10
  <1>11. CASE e.type = "close"
    <2>1. SeatBecome(s)
      BY <1>11 DEF HandleInput, s
    <2> QED BY <2>1, <1>8, <1>11
  <1>12. e.type \in {"key", "text", "focus", "button", "close"}
    BY DEF Events, KeyEvents, FocusEvents, TextEvents, ButtonEvents, CloseEvents
  <1> QED BY <1>3, <1>5, <1>9, <1>10, <1>11, <1>12

\* The compositor takes an InputEvent.
LEMMA ServerHandlesOK ==
    ASSUME IInv, ServerHandles
    PROVE  IInv'
  <1> DEFINE e == Head(inbox)
             s == KeysNow(modifiers)
  <1>0. /\ inbox # <<>> /\ HandleInput(e) /\ inbox' = Tail(inbox)
        /\ UNCHANGED <<views, focused, held, modifiers, pressed_guest_keys,
                       pressed_guest_modifier_counts, texts, lost, button>>
    BY DEF ServerHandles
  <1>1. UNCHANGED <<windows, next_window_id, outbox>>
    BY <1>0 DEF HandleInput
  <1>2. /\ e \in Events /\ e \in Coming /\ Coming' \subseteq Coming
        /\ Sent' /\ e = inbox[1] /\ 1 \in DOMAIN inbox
        /\ \A b \in Coming' : Other(e) /\ Other(b) => e.n < b.n
    BY <1>0, <1>1, TakesFirst
  <1>3. e.type = "text" => TextKnown(e, texts, next_window_id)
    BY <1>2 DEF IInv, Sent
  <1> HIDE DEF e
  <1>4. PICK t : /\ SeatBecome(t) /\ SeatOK(t, Coming', texts, next_window_id)
                 /\ \A k \in t.keys : Press(e, k) \/ (k \in pressed /\ ~Release(e, k))
    BY <1>0, <1>2, <1>3, HandleInputOK
  <1>5. SeatFine'
    BY <1>0, <1>1, <1>4, SeatBecomes
  <1>6. Numbered'
    BY <1>0, <1>1 DEF IInv, Numbered
  <1>7. Hosted'
    BY <1>0 DEF IInv, Hosted
  <1>8. KeysNow(modifiers)' = s
    BY <1>0 DEF KeysNow, State
  <1>9. Tracked'
    <2>1. TrackOK(s, focused) /\ CountOK(s) /\ s.sends = <<>> /\ inbox \in Seq(Events)
      BY DEF IInv, Tracked, Sent, KeysNow, State
    <2>2. pressed' = t.keys
      BY <1>4 DEF SeatBecome
    <2> HIDE DEF s
    <2>3. \A k \in Codes : LiveIn(pressed', inbox', k) => LiveIn(pressed, inbox, k)
      <3> SUFFICES ASSUME NEW k \in Codes, LiveIn(pressed', inbox', k) PROVE LiveIn(pressed, inbox, k)
        OBVIOUS
      <3>1. LiveIn(t.keys, Tail(inbox), k)
        BY <2>2, <1>0
      <3>2. k \in t.keys => Press(inbox[1], k) \/ (k \in pressed /\ ~Release(inbox[1], k))
        BY <1>2, <1>4
      <3> QED BY <3>1, <3>2, <2>1, <1>0, LiveTail
    <2>4. inbox \o s.sends = inbox /\ inbox' \o s.sends = inbox'
      BY <2>1, <1>2 DEF Sent
    <2>5. \A k \in Codes : LiveIn(pressed', inbox' \o s.sends, k) => k \in DOMAIN s.pressed
      BY <2>1, <2>3, <2>4 DEF TrackOK
    <2>6. s \in KeyStates /\ \A k \in DOMAIN s.pressed : s.pressed[k] = focused /\ focused # None
      BY <2>1 DEF TrackOK
    <2>7. TrackOK(KeysNow(modifiers), focused)'
      BY <2>5, <2>6, <1>0, <1>8 DEF TrackOK, LiveIn
    <2> QED BY <2>1, <2>7, <1>8 DEF Tracked, CountOK
  <1>10. IsHeld'
    BY <1>0, <1>8 DEF IInv, IsHeld, HeldOK
  <1> QED BY <1>2, <1>5, <1>6, <1>7, <1>9, <1>10 DEF IInv

-----------------------------------------------------------------------------
(* The requests of the guest's clients.                                    *)

\* A text on its way has a window for its number.
LEMMA TextIs ==
    ASSUME NEW e \in Events, e.type = "text"
    PROVE  e \in TextEvents /\ e.id \in Ids /\ e.id \in Nat
  <1>1. e \in TextEvents
    BY DEF Events, KeyEvents, FocusEvents, TextEvents, ButtonEvents, CloseEvents
  <1> QED BY <1>1, SeatAssumption DEF TextEvents

\* What the viewer has when a client acts.
LEMMA ClientRest ==
    ASSUME IInv, pressed' \subseteq pressed, next_window_id' \in Nat,
           next_window_id' >= next_window_id,
           UNCHANGED <<views, focused, held, modifiers, pressed_guest_keys,
                       pressed_guest_modifier_counts, inbox, texts, lost, button>>
    PROVE  Hosted' /\ Sent' /\ Tracked' /\ IsHeld' /\ Coming' = Coming
  <1> DEFINE s == KeysNow(modifiers)
  <1>1. Hosted' /\ Coming' = Coming
    BY DEF IInv, Hosted, Coming
  <1>2. KeysNow(modifiers)' = s
    BY DEF KeysNow, State
  <1>3. IsHeld'
    BY <1>2 DEF IInv, IsHeld, HeldOK
  <1>4. Sent'
    <2>1. /\ inbox \in Seq(Events) /\ next_window_id \in Nat
      BY DEF IInv, Sent, Numbered
    <2>2. \A i \in DOMAIN inbox : inbox[i].type = "text" =>
             TextKnown(inbox[i], texts, next_window_id')
      <3> SUFFICES ASSUME NEW i \in DOMAIN inbox, inbox[i].type = "text"
                   PROVE  TextKnown(inbox[i], texts, next_window_id')
        OBVIOUS
      <3>1. inbox[i].id \in Nat
        BY <2>1, TextIs
      <3>2. TextKnown(inbox[i], texts, next_window_id)
        BY DEF IInv, Sent
      <3> QED BY <3>1, <3>2, <2>1 DEF TextKnown
    <2> QED BY <2>1, <2>2 DEF IInv, Sent, QueueInOrder, TextKnown
  <1>5. Tracked'
    <2>1. TrackOK(s, focused) /\ CountOK(s) /\ s.sends = <<>> /\ inbox \in Seq(Events)
      BY DEF IInv, Tracked, Sent, KeysNow, State
    <2> HIDE DEF s
    <2>2. \A k \in Codes : LiveIn(pressed', inbox \o s.sends, k) => LiveIn(pressed, inbox \o s.sends, k)
      BY DEF LiveIn
    <2>3. \A k \in Codes : LiveIn(pressed', inbox' \o s.sends, k) => k \in DOMAIN s.pressed
      BY <2>1, <2>2 DEF TrackOK
    <2>4. s \in KeyStates /\ \A k \in DOMAIN s.pressed : s.pressed[k] = focused /\ focused # None
      BY <2>1 DEF TrackOK
    <2>5. TrackOK(KeysNow(modifiers), focused)'
      BY <2>3, <2>4, <1>2 DEF TrackOK, LiveIn
    <2> QED BY <2>1, <2>5, <1>2 DEF Tracked, CountOK
  <1> QED BY <1>1, <1>3, <1>4, <1>5

\* A window comes or goes, and the focus moves: no text of a new window is
\* known yet.
LEMMA SeatMoves ==
    ASSUME IInv, NEW t \in Seats, SeatBecome(t), SameEnabled(SeatNow, t),
           t.queue = pending_text_input, t.got = delivered,
           t.active # None => t.active \in windows',
           \A c \in DOMAIN t.inputs : t.inputs[c].focused_surface = FocusOf(t.active, c),
           \A w \in windows' : w < next_window_id => w \in windows,
           Coming' = Coming, texts' = texts, next_window_id' \in Nat,
           next_window_id' >= next_window_id
    PROVE  SeatFine'
  <1> DEFINE s == SeatNow
  <1>0. /\ SeatOK(s, Coming, texts, next_window_id) /\ next_window_id \in Nat
        /\ s.queue = t.queue /\ s.got = t.got
    BY DEF IInv, SeatFine, Numbered, SeatNow, Seated
  <1>1. SeatNow' = t
    BY DEF Seats, SeatBecome, SeatNow, Seated
  <1>2. \A w : Enabled(t, w) => Enabled(s, w)
    BY SameEnabledIs
  <1> HIDE DEF s
  <1>3. /\ \A i \in DOMAIN t.queue : t.queue[i].id < next_window_id /\ t.queue[i].id \in Nat
        /\ \A i \in DOMAIN t.got : t.got[i].id < next_window_id /\ t.got[i].id \in Nat
    <2>1. t.queue \in Seq(TextEvents) /\ t.got \in Seq(Gots)
      BY DEF Seats
    <2>2. (\A e \in TextEvents : e.id \in Nat) /\ (\A e \in Gots : e.id \in Nat)
      BY SeatAssumption DEF TextEvents, Gots
    <2> QED BY <2>1, <2>2, <1>0 DEF SeatOK, TextKnown
  <1>4. \A e \in Coming : Other(e) => e.id < next_window_id
    BY DEF IInv, Sent, Coming, TextKnown, Other
  <1>5. Focuses(t)'
    BY DEF Focuses
  <1>6. GotBefore(t.got, Coming)'
    BY <1>0, <1>4 DEF SeatOK, InOrder, GotBefore, Before
  <1>7. GotBeforeQueue(t.got, t.queue)'
    BY <1>0, <1>3 DEF SeatOK, InOrder, GotBeforeQueue, Before
  <1>8. WaitsDisabled(t)'
    BY <1>0, <1>2, <1>3 DEF SeatOK, InOrder, WaitsDisabled
  <1>9. GotInOrder(t.got) /\ QueueInOrder(t.queue) /\ QueueBefore(t.queue, Coming)
    BY <1>0 DEF SeatOK, InOrder
  <1>10. InOrder(t, Coming)'
    BY <1>6, <1>7, <1>8, <1>9 DEF InOrder, QueueBefore
  <1>11. \A i \in DOMAIN t.queue : TextKnown(t.queue[i], texts, next_window_id')
    BY <1>0, <1>3 DEF SeatOK, TextKnown
  <1>12. \A i \in DOMAIN t.got : TextKnown(t.got[i], texts, next_window_id')
    BY <1>0, <1>3 DEF SeatOK, TextKnown
  <1>13. Len(t.queue) <= PendingLimit
    BY <1>0 DEF SeatOK
  <1> QED BY <1>1, <1>5, <1>10, <1>11, <1>12, <1>13 DEF SeatFine, SeatOK, TextKnown

\* The seat with the focus in a window.
LEMMA SeatFocused ==
    ASSUME IInv, NEW w \in Ids, NEW g, g = SetTextInputFocus(text_inputs, w)
    PROVE  LET t == Seated(w, g, pending_text_input, pressed, delivered)
           IN  /\ t \in Seats /\ SameEnabled(SeatNow, t) /\ t.queue = pending_text_input
               /\ t.got = delivered /\ t.active = w /\ t.inputs = g /\ t.keys = pressed
               /\ \A c \in DOMAIN t.inputs : t.inputs[c].focused_surface = FocusOf(w, c)
  <1> DEFINE t == Seated(w, g, pending_text_input, pressed, delivered)
  <1>1. /\ text_inputs \in Inputs /\ pending_text_input \in Seq(TextEvents)
        /\ pressed \in SUBSET Codes /\ delivered \in Seq(Gots) /\ SeatNow.inputs = text_inputs
        /\ w \in Places
    BY DEF IInv, SeatFine, SeatOK, SeatNow, Seated, Seats, Places
  <1>2. /\ g \in Inputs /\ DOMAIN g = DOMAIN text_inputs
        /\ \A c \in DOMAIN text_inputs : /\ g[c].enabled = text_inputs[c].enabled
                                         /\ g[c].focused_surface = FocusOf(w, c)
    BY <1>1, SetFocus
  <1>3. /\ t \in Seats /\ t.queue = pending_text_input
        /\ t.got = delivered /\ t.active = w /\ t.inputs = g /\ t.keys = pressed
    BY <1>1, <1>2 DEF Seated, Seats
  <1> HIDE DEF t
  <1>4. SameEnabled(SeatNow, t)
    BY <1>1, <1>2, <1>3 DEF SameEnabled
  <1> QED BY <1>2, <1>3, <1>4 DEF t

(* What a client's request leaves alone in the viewer.                     *)
ViewerKept == UNCHANGED <<views, focused, held, modifiers, pressed_guest_keys,
                          pressed_guest_modifier_counts, inbox, texts, lost, button>>

\* new_toplevel.
LEMMA NewToplevelOK ==
    ASSUME IInv, NEW w \in Ids, NewToplevel(w), ViewerKept
    PROVE  IInv'
  <1> DEFINE g == SetTextInputFocus(text_inputs, w)
             t == Seated(w, g, pending_text_input, pressed, delivered)
  <1>0. /\ w = next_window_id /\ next_window_id' = w + 1 /\ windows' = windows \cup {w}
        /\ active_window_id' = w /\ text_inputs' = g
        /\ outbox' = Append(outbox, [type |-> "created", id |-> w])
        /\ UNCHANGED <<pending_text_input, pressed, delivered>>
    BY DEF NewToplevel
  <1>1. /\ t \in Seats /\ SameEnabled(SeatNow, t) /\ t.queue = pending_text_input
        /\ t.got = delivered /\ t.active = w /\ t.inputs = g /\ t.keys = pressed
        /\ \A c \in DOMAIN t.inputs : t.inputs[c].focused_surface = FocusOf(w, c)
    BY SeatFocused
  <1> HIDE DEF t, g
  <1>2. w \in Nat /\ next_window_id' \in Nat /\ next_window_id' >= next_window_id
    BY <1>0, SeatAssumption
  <1>3. Hosted' /\ Sent' /\ Tracked' /\ IsHeld' /\ Coming' = Coming
    BY <1>0, <1>2, ClientRest DEF ViewerKept
  <1>4. SeatBecome(t)
    BY <1>0, <1>1 DEF SeatBecome
  <1>5. \A v \in windows' : v < next_window_id => v \in windows
    BY <1>0, <1>2
  <1>6. SeatFine'
    BY <1>0, <1>1, <1>2, <1>3, <1>4, <1>5, SeatMoves DEF ViewerKept
  <1>7. Numbered'
    <2> DEFINE e == [type |-> "created", id |-> w]
    <2>1. e \in WindowEvents /\ e.id = w
      BY DEF WindowEvents
    <2> HIDE DEF e
    <2>2. outbox' = Append(outbox, e) /\ outbox \in Seq(WindowEvents)
      BY <1>0 DEF e, IInv, Numbered
    <2>3. /\ outbox' \in Seq(WindowEvents) /\ DOMAIN outbox' = DOMAIN outbox \cup {Len(outbox) + 1}
          /\ outbox'[Len(outbox) + 1] = e /\ \A i \in DOMAIN outbox : outbox'[i] = outbox[i]
      BY <2>1, <2>2, Appended
    <2>4. \A i \in DOMAIN outbox : outbox[i].id < next_window_id'
      <3>1. \A i \in DOMAIN outbox : outbox[i].id < next_window_id /\ outbox[i].id \in Nat
        <4>1. \A i \in DOMAIN outbox : outbox[i] \in WindowEvents
          BY <2>2
        <4>2. \A x \in WindowEvents : x.id \in Nat
          BY SeatAssumption DEF WindowEvents
        <4> QED BY <4>1, <4>2 DEF IInv, Numbered
      <3> QED BY <3>1, <1>0, <1>2
    <2>5. \A i \in DOMAIN outbox' : outbox'[i].id < next_window_id'
      BY <2>1, <2>3, <2>4, <1>0, <1>2
    <2>6. \A v \in windows' \cup views' : v < next_window_id'
      <3>1. \A v \in windows \cup views : v < next_window_id /\ v \in Nat
        BY SeatAssumption DEF IInv, Numbered
      <3> QED BY <3>1, <1>0, <1>2 DEF ViewerKept
    <2> QED BY <2>3, <2>5, <2>6, <1>0, <1>2 DEF IInv, Numbered, ViewerKept
  <1> QED BY <1>3, <1>6, <1>7 DEF IInv

\* toplevel_destroyed.
LEMMA ToplevelDestroyedOK ==
    ASSUME IInv, NEW w \in Ids, ToplevelDestroyed(w), ViewerKept
    PROVE  IInv'
  <1>0. /\ w \in windows /\ windows' = windows \ {w}
        /\ outbox' = Append(outbox, [type |-> "destroyed", id |-> w])
        /\ UNCHANGED <<next_window_id, pending_text_input, pressed, delivered>>
    BY DEF ToplevelDestroyed
  <1>1. /\ next_window_id' \in Nat /\ next_window_id' >= next_window_id
        /\ next_window_id \in Nat /\ windows \subseteq Ids
    BY <1>0 DEF IInv, Numbered
  <1>2. Hosted' /\ Sent' /\ Tracked' /\ IsHeld' /\ Coming' = Coming
    BY <1>0, <1>1, ClientRest DEF ViewerKept
  <1>3. \A v \in windows' : v < next_window_id => v \in windows
    BY <1>0
  <1>4. texts' = texts
    BY DEF ViewerKept
  <1>5. SeatNow \in Seats /\ Focuses(SeatNow)
    BY DEF IInv, SeatFine, SeatOK
  <1>6. SeatFine'
    <2>1. CASE active_window_id # w
      <3> DEFINE t == SeatNow
      <3>1. UNCHANGED <<active_window_id, text_inputs>>
        BY <2>1 DEF ToplevelDestroyed
      <3>2. SeatBecome(t) /\ t.active = active_window_id /\ t.queue = pending_text_input
            /\ t.got = delivered
        BY <3>1, <1>0 DEF SeatBecome, SeatNow, Seated
      <3>3. SameEnabled(t, t)
        BY DEF SameEnabled
      <3>4. /\ t.active # None => t.active \in windows'
            /\ \A c \in DOMAIN t.inputs : t.inputs[c].focused_surface = FocusOf(t.active, c)
        <4> HIDE DEF t
        <4> QED BY <2>1, <3>2, <1>0, <1>5 DEF Focuses, t
      <3> HIDE DEF t
      <3>5. t \in Seats /\ SameEnabled(SeatNow, t)
        BY <3>3, <1>5 DEF t
      <3> QED BY <3>2, <3>4, <3>5, <1>1, <1>2, <1>3, <1>4, SeatMoves
    <2>2. ASSUME NEW v \in windows \ {w}, active_window_id' = v,
                 text_inputs' = SetTextInputFocus(text_inputs, v)
          PROVE  SeatFine'
      <3> DEFINE g == SetTextInputFocus(text_inputs, v)
                 t == Seated(v, g, pending_text_input, pressed, delivered)
      <3>0. v \in Ids
        BY <1>1
      <3>1. /\ t \in Seats /\ SameEnabled(SeatNow, t) /\ t.queue = pending_text_input
            /\ t.got = delivered /\ t.active = v /\ t.inputs = g /\ t.keys = pressed
            /\ \A c \in DOMAIN t.inputs : t.inputs[c].focused_surface = FocusOf(v, c)
        BY <3>0, SeatFocused
      <3> HIDE DEF t
      <3>2. SeatBecome(t)
        BY <2>2, <3>1, <1>0 DEF SeatBecome
      <3> HIDE DEF g
      <3> QED BY <3>1, <3>2, <1>0, <1>1, <1>2, <1>3, <1>4, SeatMoves
    <2>3. CASE windows = {w} /\ active_window_id' = None
               /\ text_inputs' = ClearTextInputFocus(text_inputs)
      <3> DEFINE t == ClearFocus(SeatNow)
      <3>1. /\ t \in Seats /\ Focuses(t) /\ SameEnabled(SeatNow, t)
            /\ t.queue = SeatNow.queue /\ t.keys = SeatNow.keys /\ t.got = SeatNow.got
        BY <1>5, ClearFocusKeeps
      <3>2. t.active = None /\ t.inputs = ClearTextInputFocus(text_inputs)
        BY <1>5 DEF ClearFocus, Seats, SeatNow, Seated
      <3>3. SeatNow.queue = pending_text_input /\ SeatNow.keys = pressed /\ SeatNow.got = delivered
        BY DEF SeatNow, Seated
      <3> HIDE DEF t
      <3>4. SeatBecome(t)
        BY <2>3, <3>1, <3>2, <3>3, <1>0 DEF SeatBecome
      <3>5. \A c \in DOMAIN t.inputs : t.inputs[c].focused_surface = FocusOf(t.active, c)
        BY <3>1 DEF Focuses
      <3> QED BY <3>1, <3>2, <3>3, <3>4, <3>5, <1>1, <1>2, <1>3, <1>4, SeatMoves
    <2> QED BY <2>1, <2>2, <2>3 DEF ToplevelDestroyed
  <1>7. Numbered'
    <2> DEFINE e == [type |-> "destroyed", id |-> w]
    <2>1. e \in WindowEvents /\ e.id = w
      BY DEF WindowEvents
    <2> HIDE DEF e
    <2>2. outbox' = Append(outbox, e) /\ outbox \in Seq(WindowEvents)
      BY <1>0 DEF e, IInv, Numbered
    <2>3. /\ outbox' \in Seq(WindowEvents) /\ DOMAIN outbox' = DOMAIN outbox \cup {Len(outbox) + 1}
          /\ outbox'[Len(outbox) + 1] = e /\ \A i \in DOMAIN outbox : outbox'[i] = outbox[i]
      BY <2>1, <2>2, Appended
    <2>4. w < next_window_id
      BY <1>0 DEF IInv, Numbered
    <2>5. \A i \in DOMAIN outbox' : outbox'[i].id < next_window_id
      BY <2>1, <2>3, <2>4 DEF IInv, Numbered
    <2> QED BY <2>3, <2>5, <1>0, <1>1 DEF IInv, Numbered, ViewerKept
  <1> QED BY <1>2, <1>6, <1>7 DEF IInv

\* A change of the text inputs that enables none keeps everything.
LEMMA InputsMove ==
    ASSUME IInv, ViewerKept, NEW g \in Inputs, text_inputs' = g,
           UNCHANGED <<windows, next_window_id, active_window_id, pending_text_input, pressed,
                       delivered, outbox>>,
           \A c \in DOMAIN g :
              /\ g[c].focused_surface = FocusOf(active_window_id, c)
              /\ g[c].enabled => c \in DOMAIN text_inputs /\ text_inputs[c].enabled
    PROVE  IInv'
  <1> DEFINE s == SeatNow
             t == Seated(active_window_id, g, pending_text_input, pressed, delivered)
  <1>0. /\ SeatOK(s, Coming, texts, next_window_id) /\ s.inputs = text_inputs
        /\ s.queue = pending_text_input /\ s.got = delivered /\ s.active = active_window_id
        /\ s.keys = pressed
    BY DEF IInv, SeatFine, SeatNow, Seated
  <1>1. s \in Seats /\ Focuses(s)
    BY <1>0 DEF SeatOK
  <1> HIDE DEF s
  <1>2. /\ t \in Seats /\ t.queue = s.queue /\ t.got = s.got /\ t.inputs = g /\ t.keys = pressed
        /\ t.active = active_window_id
    BY <1>0, <1>1 DEF Seats, Seated
  <1> HIDE DEF t
  <1>3. Focuses(t)
    BY <1>0, <1>1, <1>2 DEF Focuses
  <1>4. \A w : Enabled(t, w) => Enabled(s, w)
    BY <1>0, <1>2 DEF Enabled
  <1>5. SeatOK(t, Coming, texts, next_window_id)
    BY <1>0, <1>2, <1>3, <1>4, SameOrder
  <1>6. next_window_id \in Nat
    BY DEF IInv, Numbered
  <1>7. Hosted' /\ Sent' /\ Tracked' /\ IsHeld' /\ Coming' = Coming
    BY <1>6, ClientRest DEF ViewerKept
  <1>8. SeatBecome(t)
    BY <1>0, <1>2 DEF SeatBecome
  <1>9. SeatFine'
    BY <1>5, <1>7, <1>8, SeatBecomes DEF ViewerKept
  <1>10. Numbered'
    BY DEF IInv, Numbered, ViewerKept
  <1> QED BY <1>7, <1>9, <1>10 DEF IInv

\* The text inputs as they are.
LEMMA InputsNow ==
    ASSUME IInv
    PROVE  /\ text_inputs \in Inputs /\ DOMAIN text_inputs \subseteq Clients
           /\ active_window_id \in Places
           /\ \A c \in DOMAIN text_inputs :
                 /\ text_inputs[c] \in TextInputs
                 /\ text_inputs[c].focused_surface = FocusOf(active_window_id, c)
  <1>1. SeatNow \in Seats /\ Focuses(SeatNow)
    BY DEF IInv, SeatFine, SeatOK
  <1>2. SeatNow.inputs = text_inputs /\ SeatNow.active = active_window_id
    BY DEF SeatNow, Seated
  <1>3. text_inputs \in Inputs /\ active_window_id \in Places
    BY <1>1, <1>2 DEF Seats
  <1> QED BY <1>1, <1>2, <1>3, InputsFcn DEF Focuses

\* register_text_input.
LEMMA RegisterOK ==
    ASSUME IInv, NEW c \in Clients, RegisterTextInput(c), ViewerKept
    PROVE  IInv'
  <1> DEFINE D == DOMAIN text_inputs \cup {c}
             n == [enabled |-> FALSE, pending_enabled |-> None,
                   focused_surface |-> IF active_window_id # None
                                          /\ Client(active_window_id) = c
                                       THEN active_window_id ELSE None]
             g == [d \in D |-> IF d # c THEN text_inputs[d] ELSE n]
  <1>0. /\ c \notin DOMAIN text_inputs /\ text_inputs' = g
        /\ UNCHANGED <<windows, next_window_id, active_window_id, pending_text_input, pressed,
                       delivered, outbox>>
    BY DEF RegisterTextInput
  <1>1. /\ DOMAIN text_inputs \subseteq Clients /\ active_window_id \in Places
        /\ \A d \in DOMAIN text_inputs :
              /\ text_inputs[d] \in TextInputs
              /\ text_inputs[d].focused_surface = FocusOf(active_window_id, d)
    BY InputsNow
  <1>2. n \in TextInputs /\ n.focused_surface = FocusOf(active_window_id, c) /\ n.enabled = FALSE
    BY <1>1 DEF TextInputs, FocusOf, Places
  <1> HIDE DEF n
  <1>3. D \in SUBSET Clients
    BY <1>1
  <1>4. g \in [D -> TextInputs]
    BY <1>1, <1>2
  <1>5. \A d \in D : (d # c => d \in DOMAIN text_inputs /\ g[d] = text_inputs[d]) /\ (d = c => g[d] = n)
    BY <1>0
  <1>6. DOMAIN g = D
    OBVIOUS
  <1> HIDE DEF g
  <1>7. g \in Inputs
    <2> HIDE DEF D
    <2> QED BY <1>3, <1>4, FcnInputs
  <1> HIDE DEF D
  <1>8. \A d \in DOMAIN g :
           /\ g[d].focused_surface = FocusOf(active_window_id, d)
           /\ g[d].enabled => d \in DOMAIN text_inputs /\ text_inputs[d].enabled
    BY <1>1, <1>2, <1>5, <1>6
  <1> QED BY <1>0, <1>7, <1>8, InputsMove

\* Request::Enable and Request::Disable.
LEMMA EnableOK ==
    ASSUME IInv, NEW c \in Clients, NEW on \in BOOLEAN, RequestEnable(c, on), ViewerKept
    PROVE  IInv'
  <1> DEFINE n == [text_inputs[c] EXCEPT !.pending_enabled = on]
             g == [text_inputs EXCEPT ![c] = n]
  <1>1. /\ text_inputs \in Inputs /\ DOMAIN text_inputs \subseteq Clients
        /\ active_window_id \in Places
        /\ \A d \in DOMAIN text_inputs :
              /\ text_inputs[d] \in TextInputs
              /\ text_inputs[d].focused_surface = FocusOf(active_window_id, d)
    BY InputsNow
  <1>0. /\ c \in DOMAIN text_inputs /\ text_inputs' = g
        /\ UNCHANGED <<windows, next_window_id, active_window_id, pending_text_input, pressed,
                       delivered, outbox>>
    BY DEF RequestEnable
  <1>2. /\ n \in TextInputs /\ n.focused_surface = text_inputs[c].focused_surface
        /\ n.enabled = text_inputs[c].enabled
    BY <1>0, <1>1 DEF TextInputs
  <1> HIDE DEF n
  <1>3. g \in [DOMAIN text_inputs -> TextInputs] /\ DOMAIN g = DOMAIN text_inputs
        /\ \A d \in DOMAIN text_inputs : g[d] = IF d = c THEN n ELSE text_inputs[d]
    BY <1>1, <1>2, InputsFcn
  <1> HIDE DEF g
  <1>4. g \in Inputs
    BY <1>1, <1>3, FcnInputs
  <1>5. \A d \in DOMAIN g :
           /\ g[d].focused_surface = FocusOf(active_window_id, d)
           /\ g[d].enabled => d \in DOMAIN text_inputs /\ text_inputs[d].enabled
    BY <1>1, <1>2, <1>3
  <1> QED BY <1>0, <1>4, <1>5, InputsMove

\* Dispatch::destroyed.
LEMMA DestroyOK ==
    ASSUME IInv, NEW c \in Clients, DestroyTextInput(c), ViewerKept
    PROVE  IInv'
  <1> DEFINE D == DOMAIN text_inputs \ {c}
             g == [d \in D |-> text_inputs[d]]
  <1>0. /\ text_inputs' = g
        /\ UNCHANGED <<windows, next_window_id, active_window_id, pending_text_input, pressed,
                       delivered, outbox>>
    BY DEF DestroyTextInput
  <1>1. /\ DOMAIN text_inputs \subseteq Clients
        /\ \A d \in DOMAIN text_inputs :
              /\ text_inputs[d] \in TextInputs
              /\ text_inputs[d].focused_surface = FocusOf(active_window_id, d)
    BY InputsNow
  <1>2. /\ D \in SUBSET Clients /\ g \in [D -> TextInputs] /\ DOMAIN g = D
        /\ \A d \in D : d \in DOMAIN text_inputs /\ g[d] = text_inputs[d]
    BY <1>1
  <1> HIDE DEF g, D
  <1>3. g \in Inputs
    BY <1>2, FcnInputs
  <1>4. \A d \in DOMAIN g :
           /\ g[d].focused_surface = FocusOf(active_window_id, d)
           /\ g[d].enabled => d \in DOMAIN text_inputs /\ text_inputs[d].enabled
    BY <1>1, <1>2
  <1> QED BY <1>0, <1>3, <1>4, InputsMove

\* Request::Commit: the queue is flushed once the text input is enabled.
LEMMA CommitOK ==
    ASSUME IInv, NEW c \in Clients, RequestCommit(c), ViewerKept
    PROVE  IInv'
  <1> DEFINE on == text_inputs[c].pending_enabled
             n == [[text_inputs[c] EXCEPT !.enabled = on] EXCEPT !.pending_enabled = None]
             g == [text_inputs EXCEPT ![c] = n]
             s == [SeatNow EXCEPT !.inputs = [@ EXCEPT ![c].enabled = on,
                                                       ![c].pending_enabled = None]]
             t == Seated(active_window_id, g, pending_text_input, pressed, delivered)
  <1>0. /\ c \in DOMAIN text_inputs /\ on # None
        /\ SeatBecome(IF on THEN FlushPending(s) ELSE s)
        /\ UNCHANGED <<windows, next_window_id, outbox>>
    BY Zenon DEF RequestCommit
  <1>1. /\ text_inputs \in Inputs /\ DOMAIN text_inputs \subseteq Clients
        /\ active_window_id \in Places
        /\ \A d \in DOMAIN text_inputs :
              /\ text_inputs[d] \in TextInputs
              /\ text_inputs[d].focused_surface = FocusOf(active_window_id, d)
    BY InputsNow
  <1>2. on \in BOOLEAN
    BY <1>0, <1>1 DEF TextInputs
  <1>3. /\ n \in TextInputs /\ n.focused_surface = text_inputs[c].focused_surface /\ n.enabled = on
    BY <1>0, <1>1, <1>2 DEF TextInputs
  <1>4. s = t
    <2>1. [text_inputs EXCEPT ![c].enabled = on, ![c].pending_enabled = None] = g
      BY <1>0, <1>1, InputsFcn DEF TextInputs
    <2> HIDE DEF g
    <2> QED BY <2>1 DEF SeatNow, Seated
  <1> HIDE DEF n, on, s
  <1>5. g \in [DOMAIN text_inputs -> TextInputs] /\ DOMAIN g = DOMAIN text_inputs
        /\ \A d \in DOMAIN text_inputs : g[d] = IF d = c THEN n ELSE text_inputs[d]
    BY <1>1, <1>3, InputsFcn
  <1> HIDE DEF g
  <1>6. g \in Inputs
    BY <1>1, <1>5, FcnInputs
  <1>7. /\ SeatOK(SeatNow, Coming, texts, next_window_id) /\ next_window_id \in Nat /\ texts \in Nat
        /\ windows \subseteq Ids
    BY DEF IInv, SeatFine, Numbered, Hosted
  <1>8. /\ t \in Seats /\ t.active = active_window_id /\ t.inputs = g /\ t.queue = pending_text_input
        /\ t.keys = pressed /\ t.got = delivered
    BY <1>6, <1>7 DEF Seated, Seats, SeatOK, SeatNow
  <1>9. /\ SeatNow.active = active_window_id /\ SeatNow.queue = pending_text_input
        /\ SeatNow.got = delivered
    BY DEF SeatNow, Seated
  <1> HIDE DEF t
  <1>10. CASE ~on
    <2>1. SeatBecome(t)
      BY <1>0, <1>4, <1>10
    <2>2. text_inputs' = g /\ UNCHANGED <<active_window_id, pending_text_input, pressed, delivered>>
      BY <2>1, <1>8 DEF SeatBecome
    <2>3. \A d \in DOMAIN g :
             /\ g[d].focused_surface = FocusOf(active_window_id, d)
             /\ g[d].enabled => d \in DOMAIN text_inputs /\ text_inputs[d].enabled
      BY <1>1, <1>3, <1>5, <1>10
    <2> QED BY <2>2, <2>3, <1>0, <1>6, InputsMove
  <1>11. CASE on
    <2> DEFINE items == pending_text_input
               u == [t EXCEPT !.queue = <<>>]
               All == Coming \cup {items[i] : i \in 1 .. Len(items)}
               v == HandleTexts(u, items)
    <2>1. FlushPending(t) = v
      BY <1>8 DEF FlushPending
    <2>2. SeatBecome(v)
      BY <1>0, <1>4, <1>11, <2>1
    <2>3. items \in Seq(TextEvents) /\ DOMAIN items = 1 .. Len(items)
      BY <1>8 DEF Seats
    <2>4. /\ QueueInOrder(items) /\ QueueBefore(items, Coming) /\ GotBeforeQueue(delivered, items)
          /\ GotBefore(delivered, Coming) /\ GotInOrder(delivered)
          /\ \A i \in DOMAIN items : TextKnown(items[i], texts, next_window_id)
          /\ \A i \in DOMAIN delivered : TextKnown(delivered[i], texts, next_window_id)
      BY <1>7, <1>9 DEF SeatOK, InOrder
    <2>5. /\ u \in Seats /\ u.active = active_window_id /\ u.inputs = g /\ u.queue = <<>>
          /\ u.keys = pressed /\ u.got = delivered
      <3> DEFINE z == <<>>
      <3>1. z \in Seq(TextEvents) /\ u = [t EXCEPT !.queue = z]
        OBVIOUS
      <3> HIDE DEF z, u
      <3>2. /\ u \in Seats /\ u.active = t.active /\ u.inputs = t.inputs /\ u.queue = z
            /\ u.keys = t.keys /\ u.got = t.got
        BY <3>1, <1>8 DEF Seats
      <3> QED BY <3>2, <1>8 DEF z
    <2> HIDE DEF u, items
    <2>6. Focuses(u)
      BY <2>5, <1>1, <1>3, <1>5, <1>7, <1>9 DEF Focuses, SeatOK
    <2>7. GotBefore(u.got, All)
      BY <2>3, <2>4, <2>5 DEF GotBefore, GotBeforeQueue
    <2>8. InOrder(u, All)
      BY <2>4, <2>5, <2>7 DEF InOrder, QueueInOrder, QueueBefore, GotBeforeQueue, WaitsDisabled
    <2>9. SeatOK(u, All, texts, next_window_id)
      <3>1. Len(u.queue) <= PendingLimit
        BY <2>5, SeatAssumption
      <3> HIDE DEF All
      <3> QED BY <2>4, <2>5, <2>6, <2>8, <3>1 DEF SeatOK
    <2>10. SeatOK(v, Coming, texts, next_window_id) /\ v.keys \subseteq u.keys
      BY <2>3, <2>4, <2>9, <1>7, TextsStep
    <2> HIDE DEF v
    <2>11. pressed' \subseteq pressed
      BY <2>2, <2>5, <2>10 DEF SeatBecome
    <2>12. Hosted' /\ Sent' /\ Tracked' /\ IsHeld' /\ Coming' = Coming
      BY <2>11, <1>0, <1>7, ClientRest DEF ViewerKept
    <2>13. SeatFine'
      BY <2>2, <2>10, <2>12, <1>0, SeatBecomes DEF ViewerKept
    <2>14. Numbered'
      BY <1>0 DEF IInv, Numbered, ViewerKept
    <2> QED BY <2>12, <2>13, <2>14 DEF IInv
  <1> QED BY <1>2, <1>10, <1>11

-----------------------------------------------------------------------------
(* The theorems.                                                           *)

\* The viewer and the compositor start with one window and nothing pressed.
LEMMA InitOK ==
    ASSUME Init PROVE IInv
  <1>0. /\ windows = {1} /\ next_window_id = 2 /\ active_window_id = 1
        /\ pending_text_input = <<>> /\ pressed = {} /\ delivered = <<>> /\ outbox = <<>>
        /\ views = {1} /\ focused = 1 /\ held = {} /\ modifiers = {}
        /\ pressed_guest_keys = <<>> /\ pressed_guest_modifier_counts = <<>>
        /\ inbox = <<>> /\ texts = 0 /\ lost = FALSE /\ button = None
        /\ text_inputs \in {<<>>, [c \in {Client(1)} |->
             [enabled |-> FALSE, pending_enabled |-> None, focused_surface |-> 1]]}
    BY DEF Init
  <1>1. 1 \in Ids /\ 1 # None /\ 1 \in Places /\ None \in Places /\ PendingLimit \in Nat
    BY SeatAssumption DEF Places
  <1>2. Numbered
    BY <1>0, <1>1 DEF Numbered
  <1>3. Hosted
    BY <1>0, <1>1 DEF Hosted, Mods
  <1>4. Sent /\ Coming = {}
    BY <1>0 DEF Sent, QueueInOrder, Coming
  <1>5. /\ text_inputs \in Inputs
        /\ \A c \in DOMAIN text_inputs : text_inputs[c].focused_surface = FocusOf(1, c)
    <2>1. CASE text_inputs = <<>>
      <3>1. text_inputs \in [{} -> TextInputs] /\ DOMAIN text_inputs = {} /\ {} \in SUBSET Clients
        BY <2>1
      <3> QED BY <3>1, FcnInputs
    <2>2. CASE text_inputs # <<>>
      <3> DEFINE n == [enabled |-> FALSE, pending_enabled |-> None, focused_surface |-> 1]
                 D == {Client(1)}
      <3>1. text_inputs = [c \in D |-> n] /\ D \in SUBSET Clients
        BY <1>0, <1>1, <2>2 DEF Clients
      <3>2. n \in TextInputs /\ n.focused_surface = 1
        BY <1>1 DEF TextInputs
      <3> HIDE DEF n
      <3>3. text_inputs \in [D -> TextInputs] /\ \A c \in D : text_inputs[c].focused_surface = 1
        BY <3>1, <3>2
      <3>4. \A c \in D : FocusOf(1, c) = 1
        BY <1>1 DEF FocusOf
      <3>5. DOMAIN text_inputs = D
        BY <3>1
      <3> HIDE DEF D
      <3> QED BY <3>1, <3>3, <3>4, <3>5, FcnInputs
    <2> QED BY <2>1, <2>2
  <1>6. SeatFine
    <2> DEFINE s == SeatNow
    <2>1. /\ s.active = 1 /\ s.inputs = text_inputs /\ s.queue = <<>> /\ s.keys = {} /\ s.got = <<>>
      BY <1>0 DEF SeatNow, Seated
    <2>2. s \in Seats
      <3>1. pending_text_input \in Seq(TextEvents) /\ delivered \in Seq(Gots)
        BY <1>0
      <3>2. pressed \in SUBSET Codes /\ active_window_id \in Places
        BY <1>0, <1>1
      <3> QED BY <3>1, <3>2, <1>5 DEF Seats, SeatNow, Seated
    <2> HIDE DEF s
    <2>3. Focuses(s)
      BY <2>1, <1>0, <1>5 DEF Focuses
    <2>4. InOrder(s, Coming)
      BY <2>1 DEF InOrder, GotInOrder, QueueInOrder, QueueBefore, GotBefore, GotBeforeQueue,
                  WaitsDisabled
    <2>5. Len(s.queue) <= PendingLimit
      BY <2>1, <1>1
    <2> QED BY <2>1, <2>2, <2>3, <2>4, <2>5 DEF SeatFine, SeatOK, s
  <1>7. Tracked /\ IsHeld
    <2> DEFINE s == KeysNow(modifiers)
    <2>1. /\ pressed_guest_keys \in Tracks /\ DOMAIN pressed_guest_keys = {}
          /\ pressed_guest_modifier_counts \in Counts /\ DOMAIN pressed_guest_modifier_counts = {}
      <3>1. <<>> \in [{} -> Places] /\ <<>> \in [{} -> Nat \ {0}]
        OBVIOUS
      <3>2. {} \in SUBSET Codes /\ {} \in SUBSET ModCodes
        OBVIOUS
      <3> QED BY <3>1, <3>2, <1>0 DEF Tracks, Counts
    <2>2. /\ s.pressed = pressed_guest_keys /\ s.counts = pressed_guest_modifier_counts
          /\ s.sends = <<>> /\ s.mods = {}
      BY <1>0 DEF KeysNow, State
    <2>3. s \in KeyStates
      <3>1. modifiers \in Mods /\ <<>> \in Seq(Events)
        BY <1>3 DEF Hosted
      <3> QED BY <2>1, <3>1 DEF KeysNow, State, KeyStates
    <2> HIDE DEF s
    <2>4. \A k \in Codes : ~LiveIn(pressed, inbox \o s.sends, k)
      <3>1. inbox \o s.sends = <<>>
        BY <1>0, <2>2
      <3> QED BY <3>1, <1>0 DEF LiveIn
    <2>5. TrackOK(s, focused) /\ CountOK(s)
      BY <2>1, <2>2, <2>3, <2>4 DEF TrackOK, CountOK
    <2>6. HeldOK(s, held)
      BY <2>1, <2>2, <2>3, <2>5, NothingTracked
    <2> QED BY <2>5, <2>6 DEF Tracked, IsHeld, s
  <1> QED BY <1>2, <1>3, <1>4, <1>6, <1>7 DEF IInv

\* Nothing happens.
LEMMA Stutters ==
    ASSUME IInv, UNCHANGED vars PROVE IInv'
  <1>1. ViewerKept /\ SeatKept /\ outbox' = outbox
    BY DEF vars, keyboard, seat, ViewerKept, SeatKept
  <1>2. next_window_id \in Nat /\ SeatOK(SeatNow, Coming, texts, next_window_id)
    BY DEF IInv, Numbered, SeatFine
  <1>3. Hosted' /\ Sent' /\ Tracked' /\ IsHeld' /\ Coming' = Coming
    BY <1>1, <1>2, ClientRest DEF ViewerKept, SeatKept
  <1>4. SeatBecome(SeatNow)
    BY <1>1 DEF SeatBecome, SeatNow, Seated, SeatKept
  <1>5. SeatFine'
    BY <1>1, <1>2, <1>3, <1>4, SeatBecomes DEF ViewerKept, SeatKept
  <1>6. Numbered'
    BY <1>1 DEF IInv, Numbered, ViewerKept, SeatKept
  <1> QED BY <1>3, <1>5, <1>6 DEF IInv

\* Every step keeps the invariant.
LEMMA NextOK ==
    ASSUME IInv, [Next]_vars PROVE IInv'
  <1>1. CASE HostStep
    <2>1. KeyboardNext /\ UNCHANGED <<seat, button>>
      BY <1>1 DEF HostStep
    <2> QED BY <2>1, KeyPressedOK, KeyReleasedOK, KeyUnseenOK, FocusMovesOK, CloseRequestedOK,
               ImeEnabledOK, ImeTextOK DEF KeyboardNext
  <1>2. CASE ClientStep
    <2>1. ViewerKept
      BY <1>2 DEF ClientStep, ViewerKept
    <2>2. \/ \E w \in Ids : NewToplevel(w) \/ ToplevelDestroyed(w)
          \/ \E c \in Clients : RegisterTextInput(c) \/ RequestCommit(c) \/ DestroyTextInput(c)
          \/ \E c \in Clients, on \in BOOLEAN : RequestEnable(c, on)
      BY <1>2 DEF ClientStep, ClientNext
    <2> QED BY <2>1, <2>2, NewToplevelOK, ToplevelDestroyedOK, RegisterOK, CommitOK, DestroyOK,
               EnableOK
  <1> QED BY <1>1, <1>2, ButtonPressedOK, ButtonReleasedOK, ServerHandlesOK, ViewerHandlesOK,
             Stutters DEF Next

\* The inductive invariant always holds.
LEMMA Invariant == Spec => []IInv
  <1>1. Init => IInv
    BY InitOK
  <1>2. IInv /\ [Next]_vars => IInv'
    BY NextOK
  <1> QED BY <1>1, <1>2, PTL DEF Spec

\* The variables always have their types (handle_keyboard, focus_window and
\* the queue of text, of at most PENDING_TEXT_INPUT_LIMIT events).
THEOREM TypeCorrect == Spec => []TypeOK
  <1>1. IInv => TypeOK
    <2> SUFFICES ASSUME IInv PROVE TypeOK
      OBVIOUS
    <2> DEFINE s == KeysNow(modifiers)
    <2>1. /\ s \in KeyStates /\ CountOK(s)
          /\ s.pressed = pressed_guest_keys /\ s.counts = pressed_guest_modifier_counts
      BY DEF IInv, Tracked, TrackOK, KeysNow, State
    <2> HIDE DEF s
    <2>2. s.pressed \in Tracks /\ s.counts \in Counts
      BY <2>1 DEF KeyStates
    <2>3. DOMAIN pressed_guest_keys \subseteq Codes
      BY <2>1, <2>2, TracksFcn
    <2>4. \A k \in DOMAIN pressed_guest_modifier_counts :
             k \in DOMAIN pressed_guest_keys /\ pressed_guest_modifier_counts[k] \in Nat \ {0}
      BY <2>1, <2>2, CountsFcn DEF CountOK
    <2>5. Codes \subseteq {Keycode(p) : p \in AllKeys}
      BY KeycodeFacts DEF Codes, Keycode, AllKeys
    <2>6. active_window_id \in Places /\ Len(pending_text_input) <= PendingLimit
      BY DEF IInv, SeatFine, SeatOK, Seats, SeatNow, Seated
    <2> QED BY <2>3, <2>4, <2>5, <2>6 DEF TypeOK, IInv, Numbered, Hosted, Mods, Places
  <1> QED BY <1>1, Invariant, PTL

\* The focus is always with a window that lives, and the text inputs that were
\* told "enter" are those of its client, for that window (focus_window,
\* new_toplevel, toplevel_destroyed, register_text_input).
THEOREM FocusAlwaysAgrees == Spec => []FocusAgrees
  <1>1. IInv => FocusAgrees
    BY DEF IInv, SeatFine, SeatOK, Focuses, FocusOf, SeatNow, Seated, FocusAgrees
  <1> QED BY <1>1, Invariant, PTL

\* Text always reaches the living window it was typed in, and text that is not
\* typed as keys reaches it in the order it was typed, however long it waited
\* in the queue and however often the queue was flushed
\* (queue_pending_text_input, flush_pending_text_input).
THEOREM TextAlwaysInOrder == Spec => []TextInOrder
  <1>1. IInv => TextInOrder
    <2> SUFFICES ASSUME IInv PROVE TextInOrder
      OBVIOUS
    <2>1. GotInOrder(delivered)
      BY DEF IInv, SeatFine, SeatOK, InOrder, SeatNow, Seated
    <2> QED BY <2>1 DEF GotInOrder, Reached, TextInOrder
  <1> QED BY <1>1, Invariant, PTL

\* Unless a release was lost, a key the guest sees pressed once all events are
\* handled is a key that is held, Space apart: whatever the shortcuts, the
\* changes of focus and the windows that go away
\* (send_tracked_guest_modifier_key, release_window_guest_keys).
THEOREM NoKeyStuck == Spec => []NoStuckKey
  <1>1. IInv => NoStuckKey
    <2> SUFFICES ASSUME IInv, Drained, ~lost, NEW k \in pressed, k # "space"
                 PROVE  \E p \in held : k = Keycode(p)
      BY DEF NoStuckKey
    <2> DEFINE s == KeysNow(modifiers)
    <2>1. TrackOK(s, focused) /\ CountOK(s) /\ HeldOK(s, held) /\ s.sends = <<>> /\ s.counts \in Counts
      BY DEF IInv, Tracked, IsHeld, KeysNow, State, TrackOK, KeyStates
    <2> HIDE DEF s
    <2>2. k \in Codes
      <3>1. SeatNow \in Seats /\ SeatNow.keys = pressed
        BY DEF IInv, SeatFine, SeatOK, SeatNow, Seated
      <3> QED BY <3>1 DEF Seats
    <2>3. k \in DOMAIN s.pressed
      <3>1. inbox \o s.sends = <<>>
        BY <2>1 DEF Drained
      <3>2. LiveIn(pressed, inbox \o s.sends, k)
        BY <3>1 DEF LiveIn
      <3> QED BY <3>2, <2>1, <2>2 DEF TrackOK
    <2>4. CASE k \in ModCodes
      <3>1. k \in DOMAIN s.counts /\ s.counts[k] \in Nat \ {0} /\ s.counts[k] <= HeldCount(held, k)
        BY <2>1, <2>3, <2>4, CountsFcn DEF CountOK, HeldOK
      <3>2. HeldCount(held, k) # 0 /\ HeldCount(held, k) \in Nat
        BY <3>1 DEF HeldCount, One
      <3> QED BY <3>2, <2>4, KeycodeFacts DEF HeldCount, One, ModCodes, Keycode
    <2>5. CASE k \notin ModCodes
      <3>1. k \in {"t", "enter", "equal"}
        BY <2>2, <2>5 DEF Codes, ModCodes
      <3> QED BY <3>1, <2>1, <2>3, KeycodeFacts DEF HeldOK, Keycode
    <2> QED BY <2>4, <2>5
  <1> QED BY <1>1, Invariant, PTL

-----------------------------------------------------------------------------
(* The input method, which composes the text before it is queued: for any  *)
(* set of jamo and kana in use.  PreeditShowsHeld is inductive as it       *)
(* stands, and nothing has to be known of what a composer makes of a       *)
(* character: every path through the IME events writes the preedit and the *)
(* pending glyph together.                                                 *)

\* What InputComposer::push_text leaves pending it shows.
LEMMA PushShows ==
    ASSUME NEW chunk, PushComposable(chunk)
    PROVE  preedit' = pending'
  <1>1. \E step : pending' = step.pending /\ preedit' = step.pending
    BY Zenon DEF PushComposable
  <1> QED BY <1>1

\* Text from the host, composed or sent as it is.
LEMMA TextShows ==
    ASSUME NEW chunk, SendHostText(chunk)
    PROVE  preedit' = pending'
  <1>1. CASE SendVerbatim(chunk)
    BY <1>1 DEF SendVerbatim
  <1>2. CASE PushComposable(chunk)
    BY <1>2, PushShows
  <1> QED BY <1>1, <1>2 DEF SendHostText

\* The preedit the guest shows is always what the composer holds, or the
\* host's own while it holds nothing: no flush, switch of composer, backspace
\* or change of the host's IME leaves a stale preedit behind.
THEOREM PreeditAlwaysShowsHeld == ComposerSpec => []PreeditShowsHeld
  <1>1. ComposerInit => PreeditShowsHeld
    BY DEF ComposerInit, PreeditShowsHeld
  <1>2. PreeditShowsHeld /\ [ComposerNext]_ComposerVars => PreeditShowsHeld'
    <2> SUFFICES ASSUME PreeditShowsHeld, [ComposerNext]_ComposerVars
                 PROVE  PreeditShowsHeld'
      OBVIOUS
    <2>1. ASSUME NEW chunk \in Chunks, SendHostText(chunk)
          PROVE  PreeditShowsHeld'
      BY <2>1, TextShows DEF PreeditShowsHeld
    <2>2. ASSUME NEW text, ImePreedit(text) PROVE PreeditShowsHeld'
      BY <2>2 DEF ImePreedit, PreeditShowsHeld
    <2>3. CASE FlushComposer
      BY <2>3 DEF FlushComposer, PreeditAfterFlush, PreeditShowsHeld
    <2>4. CASE ImeDisabled
      BY <2>4 DEF ImeDisabled, PreeditShowsHeld
    <2>5. CASE Backspace
      BY <2>5 DEF Backspace, PreeditShowsHeld
    <2>6. CASE UNCHANGED ComposerVars
      BY <2>6 DEF ComposerVars, PreeditShowsHeld
    <2> QED BY <2>1, <2>2, <2>3, <2>4, <2>5, <2>6 DEF ComposerNext
  <1> QED BY <1>1, <1>2, PTL DEF ComposerSpec

-----------------------------------------------------------------------------
(* That the composers implement a text buffer, for every set of jamo and   *)
(* kana.  The tables of hangul.rs are taken apart first: what combine_...  *)
(* puts together, split_final and the spelling take apart.  Then each push *)
(* is shown to keep the text: what it commits and what is then pending     *)
(* spell what was pending and what was typed (Takes).                      *)

\* The finals that are one consonant, and the vowels that are one stroke.
SimpleFinals == {1, 2, 4, 7, 8, 16, 17, 19, 20, 21, 22, 23, 24, 25, 26, 27}
SimpleVowels == {0, 1, 2, 3, 4, 5, 6, 7, 8, 12, 13, 17, 18, 20}

\* final_index is one to one where it is not 0, and onto the simple finals.
LEMMA FinalTable ==
    /\ DOMAIN FinalIndex = 1 .. 19
    /\ \A i \in 1 .. 19 : FinalIndex[i] \in SimpleFinals \cup {0}
    /\ \A i, j \in 1 .. 19 : FinalIndex[i] = FinalIndex[j] /\ FinalIndex[i] # 0 => i = j
    /\ \A t \in SimpleFinals : \E i \in 1 .. 19 : FinalIndex[i] = t
  <1>1. DOMAIN FinalIndex = 1 .. 19
    BY DEF FinalIndex
  <1>2. /\ FinalIndex[1] = 1 /\ FinalIndex[2] = 2 /\ FinalIndex[3] = 4 /\ FinalIndex[4] = 7
        /\ FinalIndex[5] = 0 /\ FinalIndex[6] = 8 /\ FinalIndex[7] = 16 /\ FinalIndex[8] = 17
        /\ FinalIndex[9] = 0 /\ FinalIndex[10] = 19 /\ FinalIndex[11] = 20
        /\ FinalIndex[12] = 21 /\ FinalIndex[13] = 22 /\ FinalIndex[14] = 0
        /\ FinalIndex[15] = 23 /\ FinalIndex[16] = 24 /\ FinalIndex[17] = 25
        /\ FinalIndex[18] = 26 /\ FinalIndex[19] = 27
    BY DEF FinalIndex
  <1>3. 1 .. 19 = {1, 2, 3, 4, 5, 6, 7, 8, 9, 10, 11, 12, 13, 14, 15, 16, 17, 18, 19}
    OBVIOUS
  <1>4. \A i \in 1 .. 19 : FinalIndex[i] \in SimpleFinals \cup {0}
    BY <1>2, <1>3 DEF SimpleFinals
  <1>5. \A t \in SimpleFinals : \E i \in 1 .. 19 : FinalIndex[i] = t
    BY <1>2, <1>3 DEF SimpleFinals
  <1>6. \A i, j \in 1 .. 19 : FinalIndex[i] = FinalIndex[j] /\ FinalIndex[i] # 0 => i = j
    BY <1>2, <1>3
  <1> QED BY <1>1, <1>4, <1>5, <1>6

\* final_to_initial undoes final_index.
LEMMA FinalInverse ==
    /\ \A t \in SimpleFinals : FinalToInitial(t) \in 0 .. 18
    /\ \A l \in 0 .. 18 : FinalIndex[l + 1] # 0 => FinalToInitial(FinalIndex[l + 1]) = l
  <1>1. ASSUME NEW t \in SimpleFinals
        PROVE  \E i \in 1 .. 19 : FinalIndex[i] = t /\ FinalToInitial(t) = i - 1
    <2>1. \E i \in DOMAIN FinalIndex : FinalIndex[i] = t
      BY FinalTable
    <2> DEFINE c == CHOOSE i \in DOMAIN FinalIndex : FinalIndex[i] = t
    <2>2. c \in DOMAIN FinalIndex /\ FinalIndex[c] = t
      BY <2>1
    <2> QED BY <2>2, FinalTable DEF FinalToInitial
  <1>2. \A t \in SimpleFinals : FinalToInitial(t) \in 0 .. 18
    BY <1>1
  <1>3. ASSUME NEW l \in 0 .. 18, FinalIndex[l + 1] # 0
        PROVE  FinalToInitial(FinalIndex[l + 1]) = l
    <2>1. l + 1 \in 1 .. 19 /\ FinalIndex[l + 1] \in SimpleFinals
      BY <1>3, FinalTable
    <2>2. PICK i \in 1 .. 19 : FinalIndex[i] = FinalIndex[l + 1] /\ FinalToInitial(FinalIndex[l + 1]) = i - 1
      BY <2>1, <1>1
    <2> QED BY <1>3, <2>1, <2>2, FinalTable
  <1> QED BY <1>2, <1>3

\* A compound final is made of two simple ones in one way, and two simple ones
\* make one final at most.
LEMMA FinalPairTable ==
    /\ \A p \in FinalPairs : p[1] \in SimpleFinals /\ p[2] \in SimpleFinals
                             /\ p[3] \in 1 .. 27 /\ p[3] \notin SimpleFinals
    /\ \A p, q \in FinalPairs : p[3] = q[3] => p = q
    /\ \A t \in 1 .. 27 : t \notin SimpleFinals => Compound(FinalPairs, t)
  <1>1. \A p \in FinalPairs : p[1] \in SimpleFinals /\ p[2] \in SimpleFinals
                             /\ p[3] \in 1 .. 27 /\ p[3] \notin SimpleFinals
    BY DEF FinalPairs, SimpleFinals
  <1>2. \A p, q \in FinalPairs : p[3] = q[3] => p = q
    BY DEF FinalPairs
  <1>3. ASSUME NEW t \in 1 .. 27, t \notin SimpleFinals
        PROVE  \E p \in FinalPairs : p[3] = t
    <2>1. t \in {3, 5, 6, 9, 10, 11, 12, 13, 14, 15, 18}
      BY <1>3 DEF SimpleFinals
    <2> QED BY <2>1 DEF FinalPairs
  <1> QED BY <1>1, <1>2, <1>3 DEF Compound

\* A compound vowel is made of two simple ones in one way.
LEMMA VowelPairTable ==
    /\ \A p \in VowelPairs : p[1] \in SimpleVowels /\ p[2] \in SimpleVowels
                             /\ p[3] \in 0 .. 20 /\ p[3] \notin SimpleVowels
    /\ \A p, q \in VowelPairs : p[3] = q[3] => p = q
    /\ SimpleVowels \subseteq 0 .. 20
  <1>1. \A p \in VowelPairs : p[1] \in SimpleVowels /\ p[2] \in SimpleVowels
                             /\ p[3] \in 0 .. 20 /\ p[3] \notin SimpleVowels
    BY DEF VowelPairs, SimpleVowels
  <1>2. \A p, q \in VowelPairs : p[3] = q[3] => p = q
    BY DEF VowelPairs
  <1> QED BY <1>1, <1>2 DEF SimpleVowels

\* What may be typed and sent: characters and texts of them.
Characters ==
    {<<"C", i>> : i \in 0 .. 18} \cup {<<"V", i>> : i \in 0 .. 20}
    \cup {<<"J", i>> : i \in Others} \cup {<<"K", b>> : b \in DOMAIN Voiced}
    \cup {<<"M", k>> : k \in Marks} \cup {<<"X", "x">>}
Texts == Seq(Characters)

\* The characters of a text.
LEMMA Letters ==
    /\ \A i \in 0 .. 18 : <<"C", i>> \in Characters
    /\ \A i \in 0 .. 20 : <<"V", i>> \in Characters
    /\ \A b \in DOMAIN Voiced : <<"K", b>> \in Characters
    /\ \A k \in Marks : <<"M", k>> \in Characters
    /\ \A i \in Others : <<"J", i>> \in Characters
    /\ <<"X", "x">> \in Characters
  BY Zenon DEF Characters

\* What is used of texts as sequences.
LEMMA TextFacts ==
    /\ <<>> \in Texts
    /\ \A c \in Characters : <<c>> \in Texts
    /\ \A c, d \in Characters : <<c, d>> = <<c>> \o <<d>>
    /\ \A s, t \in Texts : s \o t \in Texts
    /\ \A s \in Texts : s \o <<>> = s /\ <<>> \o s = s
    /\ \A s, t, u \in Texts : (s \o t) \o u = s \o (t \o u)
  <1>1. <<>> \in Texts /\ (\A c \in Characters : <<c>> \in Texts)
    BY DEF Texts
  <1>2. ASSUME NEW c \in Characters, NEW d \in Characters
        PROVE  <<c, d>> = <<c>> \o <<d>>
    <2>1. <<c, d>> \in Seq(Characters) /\ <<c>> \in Seq(Characters) /\ <<d>> \in Seq(Characters)
      OBVIOUS
    <2>2. /\ Len(<<c>> \o <<d>>) = 2 /\ <<c>> \o <<d>> \in Seq(Characters)
          /\ (<<c>> \o <<d>>)[1] = c /\ (<<c>> \o <<d>>)[2] = d
      BY <2>1, ConcatProperties
    <2>3. Len(<<c, d>>) = 2 /\ <<c, d>>[1] = c /\ <<c, d>>[2] = d
      OBVIOUS
    <2>4. \A i \in 1 .. 2 : <<c, d>>[i] = (<<c>> \o <<d>>)[i]
      BY <2>2, <2>3
    <2> QED BY <2>1, <2>2, <2>3, <2>4, SeqEqual
  <1>3. \A s, t \in Texts : s \o t \in Texts
    BY ConcatProperties DEF Texts
  <1>4. \A s \in Texts : s \o <<>> = s /\ <<>> \o s = s
    BY ConcatEmptySeq DEF Texts
  <1>5. \A s, t, u \in Texts : (s \o t) \o u = s \o (t \o u)
    BY ConcatAssociative DEF Texts
  <1> QED BY <1>1, <1>2, <1>3, <1>4, <1>5

\* A compound final is spelled as its two halves: the left one is a final of
\* its own, the right one is what split_final lets go on.
LEMMA FinalSpelled ==
    /\ FinalParts(0) = <<>>
    /\ \A t \in SimpleFinals : FinalParts(t) = <<<<"C", FinalToInitial(t)>>>>
    /\ \A p \in FinalPairs : FinalParts(p[3]) = FinalParts(p[1]) \o <<<<"C", FinalToInitial(p[2])>>>>
    /\ \A t \in 0 .. 27 : FinalParts(t) \in Texts
  <1>1. FinalParts(0) = <<>>
    BY DEF FinalParts
  <1>2. \A t \in SimpleFinals : t # 0 /\ ~Compound(FinalPairs, t)
    BY FinalPairTable DEF Compound, SimpleFinals
  <1>3. \A t \in SimpleFinals : FinalParts(t) = <<<<"C", FinalToInitial(t)>>>>
    BY <1>2 DEF FinalParts
  <1>4. ASSUME NEW p \in FinalPairs
        PROVE  /\ FinalParts(p[3]) = <<<<"C", FinalToInitial(p[1])>>, <<"C", FinalToInitial(p[2])>>>>
               /\ FinalToInitial(p[1]) \in 0 .. 18 /\ FinalToInitial(p[2]) \in 0 .. 18
    <2>1. Compound(FinalPairs, p[3]) /\ p[3] # 0
      BY FinalPairTable DEF Compound
    <2>2. PairOf(FinalPairs, p[3]) = p
      BY FinalPairTable DEF PairOf
    <2> QED BY <2>1, <2>2, FinalPairTable, FinalInverse DEF FinalParts
  <1>5. \A p \in FinalPairs : FinalParts(p[3]) = FinalParts(p[1]) \o <<<<"C", FinalToInitial(p[2])>>>>
    <2> TAKE p \in FinalPairs
    <2> DEFINE c == <<"C", FinalToInitial(p[1])>>
               d == <<"C", FinalToInitial(p[2])>>
    <2>1. c \in Characters /\ d \in Characters
      BY <1>4, Letters
    <2>2. FinalParts(p[3]) = <<c, d>> /\ FinalParts(p[1]) = <<c>>
      BY <1>3, <1>4, FinalPairTable
    <2> HIDE DEF c, d
    <2>3. FinalParts(p[3]) = FinalParts(p[1]) \o <<d>>
      BY <2>1, <2>2, TextFacts
    <2> QED BY <2>3 DEF d
  <1>6. ASSUME NEW t \in 0 .. 27 PROVE FinalParts(t) \in Texts
    <2>1. CASE t = 0
      BY <2>1, <1>1, TextFacts
    <2>2. CASE t \in SimpleFinals
      BY <2>2, <1>3, FinalInverse, Letters, TextFacts
    <2>3. CASE t # 0 /\ t \notin SimpleFinals
      <3>1. PICK p \in FinalPairs : p[3] = t
        BY <2>3, FinalPairTable DEF Compound
      <3>2. <<"C", FinalToInitial(p[1])>> \in Characters /\ <<"C", FinalToInitial(p[2])>> \in Characters
        BY <1>4, Letters
      <3>3. FinalParts(t) = FinalParts(p[1]) \o <<<<"C", FinalToInitial(p[2])>>>>
        BY <3>1, <1>5
      <3>4. FinalParts(p[1]) \in Texts /\ <<<<"C", FinalToInitial(p[2])>>>> \in Texts
        BY <3>2, <1>3, FinalPairTable, TextFacts
      <3> QED BY <3>3, <3>4, TextFacts
    <2> QED BY <2>1, <2>2, <2>3
  <1> QED BY <1>1, <1>3, <1>5, <1>6

\* A compound vowel is spelled as its two halves.
LEMMA VowelSpelled ==
    /\ \A v \in SimpleVowels : VowelParts(v) = <<<<"V", v>>>>
    /\ \A p \in VowelPairs : VowelParts(p[3]) = VowelParts(p[1]) \o VowelParts(p[2])
    /\ \A v \in 0 .. 20 : VowelParts(v) \in Texts /\ VowelParts(v) # <<>>
  <1>1. \A v \in SimpleVowels : VowelParts(v) = <<<<"V", v>>>>
    BY VowelPairTable DEF VowelParts, Compound
  <1>2. ASSUME NEW p \in VowelPairs
        PROVE  VowelParts(p[3]) = <<<<"V", p[1]>>, <<"V", p[2]>>>>
    <2>1. Compound(VowelPairs, p[3])
      BY DEF Compound
    <2>2. PairOf(VowelPairs, p[3]) = p
      BY VowelPairTable DEF PairOf
    <2> QED BY <2>1, <2>2 DEF VowelParts
  <1>3. \A p \in VowelPairs : VowelParts(p[3]) = VowelParts(p[1]) \o VowelParts(p[2])
    <2> TAKE p \in VowelPairs
    <2> DEFINE c == <<"V", p[1]>>
               d == <<"V", p[2]>>
    <2>1. c \in Characters /\ d \in Characters
      BY VowelPairTable, Letters
    <2>2. VowelParts(p[3]) = <<c, d>> /\ VowelParts(p[1]) = <<c>> /\ VowelParts(p[2]) = <<d>>
      BY <1>1, <1>2, VowelPairTable
    <2> HIDE DEF c, d
    <2> QED BY <2>1, <2>2, TextFacts
  <1>4. ASSUME NEW v \in 0 .. 20 PROVE VowelParts(v) \in Texts /\ VowelParts(v) # <<>>
    <2>1. CASE ~Compound(VowelPairs, v)
      BY <2>1, Letters, TextFacts DEF VowelParts
    <2>2. CASE Compound(VowelPairs, v)
      <3>1. PICK p \in VowelPairs : p[3] = v
        BY <2>2 DEF Compound
      <3>2. VowelParts(p[1]) \in Texts /\ VowelParts(p[2]) \in Texts
        <4>1. <<"V", p[1]>> \in Characters /\ <<"V", p[2]>> \in Characters
          BY VowelPairTable, Letters
        <4> QED BY <4>1, <1>1, VowelPairTable, TextFacts
      <3>3. VowelParts(v) # <<>>
        BY <3>1, <1>2
      <3> QED BY <3>1, <3>2, <3>3, <1>3, TextFacts
    <2> QED BY <2>1, <2>2
  <1> QED BY <1>1, <1>3, <1>4

\* What the two composers may have pending.
HangulPending(p) ==
    \/ p = None
    \/ /\ p \in Syllables
       /\ p.l >= 0 \/ p.v >= 0
       /\ p.t # 0 => p.l >= 0 /\ p.v >= 0
KanaPending(p) == p = None \/ (p \in KanaGlyphs /\ p.mark = None)

\* What is spelled of a syllable, part by part.
LEMMA PartsSpelled ==
    ASSUME NEW l \in -1 .. 18, NEW v \in -1 .. 20, NEW t \in 0 .. 27
    PROVE  /\ l >= 0 /\ v >= 0 => Spell(Syllable(l, v, t)) = <<<<"C", l>>>> \o VowelParts(v) \o FinalParts(t)
           /\ l >= 0 /\ v < 0 => Spell(Syllable(l, v, t)) = <<<<"C", l>>>> \o <<>> \o FinalParts(t)
           /\ l < 0 /\ v >= 0 => Spell(Syllable(l, v, t)) = <<>> \o VowelParts(v) \o FinalParts(t)
  <1> DEFINE g == Syllable(l, v, t)
             a == IF g.l < 0 THEN <<>> ELSE <<<<"C", g.l>>>>
             b == IF g.v < 0 THEN <<>> ELSE VowelParts(g.v)
  <1>1. g # None
    <2>1. g \in Syllables
      BY DEF Syllable, Syllables
    <2> QED BY <2>1, ComposerAssumption
  <1>2. "base" \notin DOMAIN g
    BY DEF Syllable
  <1>3. g.l = l /\ g.v = v /\ g.t = t
    BY DEF Syllable
  <1> HIDE DEF g
  <1>4. Spell(g) = SpellSyllable(g)
    BY <1>1, <1>2 DEF Spell
  <1>5. SpellSyllable(g) = a \o b \o FinalParts(g.t)
    BY Zenon DEF SpellSyllable
  <1>6. (l >= 0 => a = <<<<"C", l>>>>) /\ (l < 0 => a = <<>>)
    BY <1>3
  <1>7. (v >= 0 => b = VowelParts(v)) /\ (v < 0 => b = <<>>)
    BY <1>3
  <1> HIDE DEF a, b
  <1>8. Spell(g) = a \o b \o FinalParts(t)
    BY <1>3, <1>4, <1>5
  <1> QED BY Zenon, <1>6, <1>7, <1>8 DEF g

\* The glyphs the composer makes, spelled.
LEMMA SyllableSpelled ==
    /\ Spell(None) = <<>>
    /\ \A l \in 0 .. 18 : Spell(Initial(l)) = <<<<"C", l>>>>
    /\ \A v \in 0 .. 20 : Spell(Vowel(v)) = VowelParts(v)
    /\ \A l \in 0 .. 18, v \in 0 .. 20, t \in 0 .. 27 :
          Spell(Syllable(l, v, t)) = <<<<"C", l>>>> \o VowelParts(v) \o FinalParts(t)
  <1>1. ASSUME NEW l \in 0 .. 18, NEW v \in 0 .. 20, NEW t \in 0 .. 27
        PROVE  Spell(Syllable(l, v, t)) = <<<<"C", l>>>> \o VowelParts(v) \o FinalParts(t)
    <2>1. l \in -1 .. 18 /\ v \in -1 .. 20 /\ l >= 0 /\ v >= 0
      OBVIOUS
    <2> QED BY <2>1, PartsSpelled, Zenon
  <1>2. ASSUME NEW l \in 0 .. 18 PROVE Spell(Initial(l)) = <<<<"C", l>>>>
    <2>1. Spell(Initial(l)) = <<<<"C", l>>>> \o <<>> \o FinalParts(0)
      <3>1. l \in -1 .. 18 /\ -1 \in -1 .. 20 /\ 0 \in 0 .. 27 /\ l >= 0 /\ -1 < 0
        OBVIOUS
      <3> QED BY <3>1, PartsSpelled, Zenon DEF Initial
    <2>2. <<<<"C", l>>>> \in Texts
      BY Letters, TextFacts
    <2> QED BY <2>1, <2>2, TextFacts, FinalSpelled
  <1>3. ASSUME NEW v \in 0 .. 20 PROVE Spell(Vowel(v)) = VowelParts(v)
    <2>1. Spell(Vowel(v)) = <<>> \o VowelParts(v) \o FinalParts(0)
      <3>1. v \in -1 .. 20 /\ -1 \in -1 .. 18 /\ 0 \in 0 .. 27 /\ v >= 0 /\ -1 < 0
        OBVIOUS
      <3> QED BY <3>1, PartsSpelled, Zenon DEF Vowel
    <2> QED BY <2>1, VowelSpelled, FinalSpelled, TextFacts
  <1> QED BY <1>1, <1>2, <1>3 DEF Spell

\* The same facts one by one, as the proofs below cite them.
LEMMA TextEmpty == <<>> \in Texts
  BY TextFacts

LEMMA TextCat ==
    ASSUME NEW s \in Texts, NEW t \in Texts PROVE s \o t \in Texts
  BY TextFacts

LEMMA TextCat3 ==
    ASSUME NEW s \in Texts, NEW t \in Texts, NEW u \in Texts PROVE s \o t \o u \in Texts
  BY TextCat, Zenon

LEMMA TextNil ==
    ASSUME NEW s \in Texts PROVE s \o <<>> = s /\ <<>> \o s = s
  BY TextFacts

LEMMA TextAssoc ==
    ASSUME NEW s \in Texts, NEW t \in Texts, NEW u \in Texts
    PROVE  (s \o t) \o u = s \o (t \o u)
  BY TextFacts

LEMMA TextTwo ==
    ASSUME NEW c \in Characters, NEW d \in Characters PROVE <<c, d>> = <<c>> \o <<d>>
  BY TextFacts

LEMMA TextOne ==
    ASSUME NEW c \in Characters PROVE <<c>> \in Texts
  BY TextFacts

\* What a composer commits and what it then holds spell what it held before
\* and what was typed.
Takes(p, step, text) ==
    /\ step.commit \in Texts
    /\ step.commit \o Spell(step.pending) = Spell(p) \o text

\* The parts of a step.
LEMMA StepParts ==
    ASSUME NEW c, NEW p PROVE Step(c, p).commit = c /\ Step(c, p).pending = p
  BY DEF Step

\* A pending syllable is made of an initial, a vowel and a final.
LEMMA SyllableForm ==
    ASSUME NEW p, HangulPending(p), p # None
    PROVE  \E l \in -1 .. 18, v \in -1 .. 20, t \in 0 .. 27 :
              /\ p = Syllable(l, v, t) /\ p.l = l /\ p.v = v /\ p.t = t
              /\ l >= 0 \/ v >= 0
              /\ t # 0 => l >= 0 /\ v >= 0
  <1>1. p \in Syllables
    BY DEF HangulPending
  <1>2. p = Syllable(p.l, p.v, p.t) /\ p.l \in -1 .. 18 /\ p.v \in -1 .. 20 /\ p.t \in 0 .. 27
    BY <1>1 DEF Syllables, Syllable
  <1> QED BY <1>2 DEF HangulPending

\* A syllable with an initial or a vowel can be pending.
LEMMA SyllablePending ==
    ASSUME NEW l \in -1 .. 18, NEW v \in -1 .. 20, NEW t \in 0 .. 27,
           l >= 0 \/ v >= 0, t # 0 => l >= 0 /\ v >= 0
    PROVE  HangulPending(Syllable(l, v, t))
  BY DEF HangulPending, Syllables, Syllable

\* What is pending in the Hangul composer spells a text.
LEMMA HangulTexts ==
    ASSUME NEW p, HangulPending(p) PROVE Spell(p) \in Texts
  <1>1. CASE p = None
    BY <1>1, SyllableSpelled, TextFacts
  <1>2. CASE p # None
    <2>1. PICK l \in -1 .. 18, v \in -1 .. 20, t \in 0 .. 27 :
              p = Syllable(l, v, t) /\ (l >= 0 \/ v >= 0)
      BY <1>2, SyllableForm
    <2>2. (l >= 0 => l \in 0 .. 18) /\ (v >= 0 => v \in 0 .. 20) /\ (l < 0 \/ l >= 0) /\ (v < 0 \/ v >= 0)
      OBVIOUS
    <2>3. l >= 0 => <<<<"C", l>>>> \in Texts
      BY <2>2, Letters, TextOne, Zenon
    <2>4. (v >= 0 => VowelParts(v) \in Texts) /\ FinalParts(t) \in Texts
      BY <2>2, VowelSpelled, FinalSpelled, Zenon
    <2>5. CASE l >= 0 /\ v >= 0
      <3>1. Spell(p) = <<<<"C", l>>>> \o VowelParts(v) \o FinalParts(t)
        BY <2>1, <2>5, PartsSpelled, Zenon
      <3> QED BY <3>1, <2>3, <2>4, <2>5, TextCat3, Zenon
    <2>6. CASE l >= 0 /\ v < 0
      <3>1. Spell(p) = <<<<"C", l>>>> \o <<>> \o FinalParts(t)
        BY <2>1, <2>6, PartsSpelled, Zenon
      <3> QED BY <3>1, <2>3, <2>4, <2>6, TextEmpty, TextCat3, Zenon
    <2>7. CASE l < 0 /\ v >= 0
      <3>1. Spell(p) = <<>> \o VowelParts(v) \o FinalParts(t)
        BY <2>1, <2>7, PartsSpelled, Zenon
      <3> QED BY <3>1, <2>4, <2>7, TextEmpty, TextCat3, Zenon
    <2> QED BY <2>1, <2>2, <2>5, <2>6, <2>7, Zenon
  <1> QED BY <1>1, <1>2

\* A kana, with its mark or without, spelled.
LEMMA KanaSpelled ==
    /\ \A b \in DOMAIN Voiced : KanaPending(Kana(b, None)) /\ Spell(Kana(b, None)) = <<<<"K", b>>>>
    /\ \A b \in DOMAIN Voiced, k \in Marks : Spell(Kana(b, k)) = <<<<"K", b>>, <<"M", k>>>>
  <1>1. \A b \in DOMAIN Voiced, k \in Marks \cup {None} :
          /\ Kana(b, k) \in KanaGlyphs /\ Kana(b, k).mark = k /\ Kana(b, k).base = b
          /\ "base" \in DOMAIN Kana(b, k)
    BY DEF Kana, KanaGlyphs
  <1>2. \A b \in DOMAIN Voiced, k \in Marks \cup {None} : Spell(Kana(b, k)) = SpellKana(Kana(b, k))
    BY <1>1, ComposerAssumption DEF Spell
  <1>3. \A b \in DOMAIN Voiced, k \in Marks : Spell(Kana(b, k)) = <<<<"K", b>>, <<"M", k>>>>
    BY <1>1, <1>2, ComposerAssumption DEF SpellKana
  <1>4. \A b \in DOMAIN Voiced : KanaPending(Kana(b, None)) /\ Spell(Kana(b, None)) = <<<<"K", b>>>>
    BY <1>1, <1>2 DEF SpellKana, KanaPending
  <1> QED BY <1>3, <1>4

\* push_consonant: the consonant becomes the final of the pending syllable,
\* doubles its final, or begins a syllable after it.
LEMMA ConsonantText ==
    ASSUME NEW p, HangulPending(p), NEW l \in 0 .. 18
    PROVE  /\ HangulPending(PushConsonant(p, l).pending)
           /\ Takes(p, PushConsonant(p, l), <<<<"C", l>>>>)
  <1> DEFINE t == FinalIndex[l + 1]
             both == IF p = None \/ t = 0 THEN None
                     ELSE IF p.t = 0 THEN t ELSE Combine(FinalPairs, p.t, t)
             joins == p # None /\ p.l >= 0 /\ p.v >= 0 /\ both # None
  <1>1. /\ joins => PushConsonant(p, l) = Step(<<>>, Syllable(p.l, p.v, both))
        /\ ~joins => PushConsonant(p, l) = Step(Spell(p), Initial(l))
    BY Zenon DEF PushConsonant
  <1>2. <<<<"C", l>>>> \in Texts
    <2>1. <<"C", l>> \in Characters
      BY Letters
    <2> QED BY <2>1, TextOne
  <1>3. Spell(p) \in Texts
    BY HangulTexts
  <1>4. CASE ~joins
    <2>1. PushConsonant(p, l) = Step(Spell(p), Initial(l))
      BY <1>1, <1>4
    <2>4. PushConsonant(p, l).commit = Spell(p) /\ PushConsonant(p, l).pending = Initial(l)
      BY <2>1, StepParts, Zenon
    <2>2. Spell(Initial(l)) = <<<<"C", l>>>>
      BY SyllableSpelled
    <2>3. HangulPending(Initial(l))
      <3>1. l \in -1 .. 18 /\ -1 \in -1 .. 20 /\ 0 \in 0 .. 27 /\ l >= 0 /\ ~(0 # 0)
        OBVIOUS
      <3> QED BY <3>1, SyllablePending, Zenon DEF Initial
    <2> QED BY <2>4, <2>2, <2>3, <1>3, Zenon DEF Takes
  <1>5. CASE joins
    <2>1. PICK i \in 0 .. 18, v \in 0 .. 20, f \in 0 .. 27 :
              p = Syllable(i, v, f) /\ p.l = i /\ p.v = v /\ p.t = f
      <3>1. p # None /\ p.l >= 0 /\ p.v >= 0
        BY <1>5
      <3>2. PICK i \in -1 .. 18, v \in -1 .. 20, f \in 0 .. 27 :
                /\ p = Syllable(i, v, f) /\ p.l = i /\ p.v = v /\ p.t = f
                /\ i >= 0 \/ v >= 0
                /\ f # 0 => i >= 0 /\ v >= 0
        BY <3>1, SyllableForm, Zenon
      <3>3. i \in 0 .. 18 /\ v \in 0 .. 20
        BY <3>1, <3>2
      <3> QED BY <3>2, <3>3, Zenon
    <2>2. t # 0 /\ t \in SimpleFinals /\ FinalToInitial(t) = l
      BY <1>5, FinalTable, FinalInverse
    <2>3. both \in 1 .. 27 /\ FinalParts(both) = FinalParts(f) \o <<<<"C", l>>>>
      <3>1. CASE f = 0
        <4>1. both = t
          BY <1>5, <2>1, <2>2, <3>1
        <4> HIDE DEF t, both
        <4>2. FinalParts(both) = <<<<"C", l>>>> /\ FinalParts(f) = <<>>
          BY <4>1, <2>2, <3>1, FinalSpelled
        <4>3. both \in 1 .. 27
          BY <4>1, <2>2 DEF SimpleFinals
        <4> QED BY <4>2, <4>3, <1>2, TextNil
      <3>2. CASE f # 0
        <4>1. both = Combine(FinalPairs, f, t) /\ both # None
          BY <1>5, <2>1, <2>2, <3>2
        <4> HIDE DEF t, both
        <4>2. PICK q \in FinalPairs : q[1] = f /\ q[2] = t /\ both = q[3]
          BY <4>1, Zenon DEF Combine
        <4>3. both \in 1 .. 27
          BY <4>2, FinalPairTable
        <4> QED BY <4>2, <4>3, <2>2, FinalSpelled, Zenon
      <3> QED BY <3>1, <3>2
    <2> HIDE DEF t, both
    <2> DEFINE cv == <<<<"C", i>>>> \o VowelParts(v)
    <2>4. cv \in Texts
      <3>1. <<"C", i>> \in Characters
        BY Letters
      <3> QED BY <3>1, TextOne, VowelSpelled, TextCat, Zenon
    <2>5. FinalParts(f) \in Texts
      BY FinalSpelled
    <2>6. Spell(Syllable(i, v, both)) = cv \o FinalParts(both) /\ Spell(p) = cv \o FinalParts(f)
      <3>1. both \in 0 .. 27
        BY <2>3
      <3> QED BY <3>1, <2>1, SyllableSpelled, Zenon
    <2> HIDE DEF cv
    <2>7. Spell(Syllable(i, v, both)) = Spell(p) \o <<<<"C", l>>>>
      <3>1. (cv \o FinalParts(f)) \o <<<<"C", l>>>> = cv \o (FinalParts(f) \o <<<<"C", l>>>>)
        BY <2>4, <2>5, <1>2, TextAssoc, Zenon
      <3> QED BY <3>1, <2>3, <2>6, Zenon
    <2>8. Spell(Syllable(i, v, both)) \in Texts /\ <<>> \in Texts
      BY <2>7, <1>2, <1>3, TextCat, TextFacts, Zenon
    <2>9. PushConsonant(p, l).commit = <<>> /\ PushConsonant(p, l).pending = Syllable(i, v, both)
      <3>1. PushConsonant(p, l) = Step(<<>>, Syllable(i, v, both))
        BY <1>1, <1>5, <2>1
      <3> QED BY <3>1, StepParts, Zenon
    <2>10. HangulPending(Syllable(i, v, both))
      <3>1. both \in 0 .. 27 /\ i \in -1 .. 18 /\ v \in -1 .. 20 /\ i >= 0 /\ v >= 0
        BY <2>3
      <3> QED BY <3>1, SyllablePending, Zenon
    <2>11. <<>> \o Spell(Syllable(i, v, both)) = Spell(p) \o <<<<"C", l>>>>
      BY <2>7, <2>8, TextNil, Zenon
    <2> QED BY <2>8, <2>9, <2>10, <2>11, Zenon DEF Takes
  <1> QED BY <1>4, <1>5

\* split_final: what stays and what goes on spell the final.
LEMMA SplitSpelled ==
    ASSUME NEW t \in 0 .. 27, t # 0
    PROVE  \E f \in 0 .. 27, i \in 0 .. 18 :
              /\ SplitFinal(t)[1] = f /\ SplitFinal(t)[2] = i
              /\ FinalParts(t) = FinalParts(f) \o <<<<"C", i>>>>
  <1>1. CASE Compound(FinalPairs, t)
    <2>1. PICK p \in FinalPairs : p[3] = t
      BY <1>1 DEF Compound
    <2>2. PairOf(FinalPairs, t) = p
      BY <2>1, FinalPairTable DEF PairOf
    <2>3. SplitFinal(t)[1] = p[1] /\ SplitFinal(t)[2] = FinalToInitial(p[2])
      BY <1>1, <2>2 DEF SplitFinal
    <2>4. p[1] \in 0 .. 27 /\ FinalToInitial(p[2]) \in 0 .. 18
      BY FinalPairTable, FinalInverse DEF SimpleFinals
    <2> QED BY <2>1, <2>3, <2>4, FinalSpelled, Zenon
  <1>2. CASE ~Compound(FinalPairs, t)
    <2>1. t \in SimpleFinals /\ 0 \in 0 .. 27
      BY <1>2, FinalPairTable
    <2>2. SplitFinal(t)[1] = 0 /\ SplitFinal(t)[2] = FinalToInitial(t)
      BY <1>2 DEF SplitFinal
    <2>3. <<<<"C", FinalToInitial(t)>>>> \in Texts
      BY <2>1, FinalSpelled
    <2>4. FinalParts(t) = FinalParts(0) \o <<<<"C", FinalToInitial(t)>>>>
      BY <2>1, <2>3, FinalSpelled, TextNil, Zenon
    <2> QED BY <2>1, <2>2, <2>4, FinalInverse, Zenon
  <1> QED BY <1>1, <1>2

\* push_vowel: the vowel completes the pending syllable, combines with its
\* vowel, takes its final along, or begins a syllable after it.
LEMMA VowelText ==
    ASSUME NEW p, HangulPending(p), NEW v \in 0 .. 20
    PROVE  /\ HangulPending(PushVowel(p, v).pending)
           /\ Takes(p, PushVowel(p, v), VowelParts(v))
  <1> DEFINE both == IF p = None THEN None ELSE Combine(VowelPairs, p.v, v)
             split == SplitFinal(p.t)
  <1>1. Spell(p) \in Texts /\ VowelParts(v) \in Texts /\ <<>> \in Texts
    BY HangulTexts, VowelSpelled, TextEmpty, Zenon
  <1>2. HangulPending(Vowel(v)) /\ Spell(Vowel(v)) = VowelParts(v)
    <2>1. -1 \in -1 .. 18 /\ v \in -1 .. 20 /\ 0 \in 0 .. 27 /\ v >= 0 /\ ~(0 # 0)
      OBVIOUS
    <2> QED BY <2>1, SyllablePending, SyllableSpelled, Zenon DEF Vowel
  <1>3. ASSUME PushVowel(p, v) = Step(Spell(p), Vowel(v))
        PROVE  HangulPending(PushVowel(p, v).pending) /\ Takes(p, PushVowel(p, v), VowelParts(v))
    <2>1. PushVowel(p, v).commit = Spell(p) /\ PushVowel(p, v).pending = Vowel(v)
      BY <1>3, StepParts, Zenon
    <2> QED BY <2>1, <1>1, <1>2, Zenon DEF Takes
  <1>4. CASE p = None
    <2>1. PushVowel(p, v) = Step(<<>>, Vowel(v))
      BY <1>4, Zenon DEF PushVowel
    <2>2. Spell(p) = <<>>
      BY <1>4, SyllableSpelled
    <2> QED BY <2>1, <2>2, <1>3, Zenon
  <1>5. CASE p # None
    <2>1. PICK l \in -1 .. 18, w \in -1 .. 20, t \in 0 .. 27 :
              /\ p = Syllable(l, w, t) /\ p.l = l /\ p.v = w /\ p.t = t
              /\ l >= 0 \/ w >= 0
              /\ t # 0 => l >= 0 /\ w >= 0
      BY <1>5, SyllableForm, Zenon
    <2>2. CASE w < 0
      <3>1. l \in 0 .. 18 /\ t = 0 /\ w = -1 /\ p.v < 0 /\ ~(p.v >= 0)
        BY <2>1, <2>2
      <3>2. PushVowel(p, v) = Step(<<>>, Syllable(l, v, 0))
        BY <1>5, <2>1, <3>1, Zenon DEF PushVowel
      <3>3. p = Initial(l)
        BY <2>1, <3>1 DEF Initial
      <3>4. Spell(p) = <<<<"C", l>>>>
        BY <3>1, <3>3, SyllableSpelled, Zenon
      <3>5. 0 \in 0 .. 27 /\ l \in -1 .. 18 /\ v \in -1 .. 20 /\ v >= 0 /\ ~(0 # 0)
        OBVIOUS
      <3>6. HangulPending(Syllable(l, v, 0))
        BY <3>5, SyllablePending, Zenon
      <3>7. Spell(Syllable(l, v, 0)) = <<<<"C", l>>>> \o VowelParts(v) \o <<>>
        BY <3>1, <3>5, SyllableSpelled, FinalSpelled, Zenon
      <3>8. Spell(p) \o VowelParts(v) \in Texts
        BY <1>1, TextCat, Zenon
      <3>9. <<>> \o Spell(Syllable(l, v, 0)) = Spell(p) \o VowelParts(v)
        BY <3>4, <3>7, <3>8, TextNil, Zenon
      <3>10. PushVowel(p, v).commit = <<>> /\ PushVowel(p, v).pending = Syllable(l, v, 0)
        BY <3>2, StepParts, Zenon
      <3> QED BY <3>6, <3>9, <3>10, <1>1, Zenon DEF Takes
    <2>3. CASE w >= 0 /\ t = 0 /\ both = None
      <3>1. p.v >= 0 /\ p.t = 0 /\ ~(p.v < 0)
        BY <2>1, <2>3
      <3>2. PushVowel(p, v) = Step(Spell(p), Vowel(v))
        BY <1>5, <2>3, <3>1, Zenon DEF PushVowel
      <3> QED BY <3>2, <1>3
    <2>4. CASE w >= 0 /\ t = 0 /\ both # None
      <3>1. p.v >= 0 /\ p.t = 0 /\ ~(p.v < 0) /\ w \in 0 .. 20 /\ (l >= 0 => l \in 0 .. 18)
        BY <2>1, <2>4
      <3>2. PushVowel(p, v) = Step(<<>>, Syllable(l, both, 0))
        BY <1>5, <2>1, <2>4, <3>1, Zenon DEF PushVowel
      <3>3. both = Combine(VowelPairs, w, v)
        BY <1>5, <2>1
      <3>4. PICK q \in VowelPairs : q[1] = w /\ q[2] = v /\ both = q[3]
        BY <2>4, <3>3, Zenon DEF Combine
      <3> HIDE DEF both
      <3>5. both \in 0 .. 20 /\ VowelParts(both) = VowelParts(w) \o VowelParts(v)
        BY <3>4, VowelPairTable, VowelSpelled, Zenon
      <3>6. HangulPending(Syllable(l, both, 0))
        <4>1. 0 \in 0 .. 27 /\ both \in -1 .. 20 /\ both >= 0 /\ ~(0 # 0)
          BY <3>5
        <4> QED BY <4>1, SyllablePending, Zenon
      <3>7. VowelParts(w) \in Texts
        BY <3>1, VowelSpelled, Zenon
      <3>8. Spell(Syllable(l, both, 0)) = Spell(p) \o VowelParts(v)
        <4>1. CASE l >= 0
          <5>1. /\ Spell(Syllable(l, both, 0)) = <<<<"C", l>>>> \o VowelParts(both) \o <<>>
                /\ Spell(p) = <<<<"C", l>>>> \o VowelParts(w) \o <<>>
            <6>1. 0 \in 0 .. 27
              OBVIOUS
            <6> QED BY <6>1, <2>1, <2>4, <3>1, <3>5, <4>1, SyllableSpelled, FinalSpelled, Zenon
          <5>2. <<<<"C", l>>>> \in Texts
            BY <3>1, <4>1, Letters, TextOne, Zenon
          <5>3. <<<<"C", l>>>> \o VowelParts(w) \in Texts /\ <<<<"C", l>>>> \o VowelParts(both) \in Texts
            BY <5>2, <3>5, <3>7, <1>1, TextCat, Zenon
          <5>4. /\ Spell(Syllable(l, both, 0)) = <<<<"C", l>>>> \o VowelParts(both)
                /\ Spell(p) = <<<<"C", l>>>> \o VowelParts(w)
            BY <5>1, <5>3, TextNil, Zenon
          <5>5. (<<<<"C", l>>>> \o VowelParts(w)) \o VowelParts(v) = <<<<"C", l>>>> \o (VowelParts(w) \o VowelParts(v))
            BY <5>2, <3>7, <1>1, TextAssoc, Zenon
          <5> QED BY <5>4, <5>5, <3>5, Zenon
        <4>2. CASE l < 0
          <5>1. l = -1
            BY <4>2
          <5>2. Syllable(l, both, 0) = Vowel(both) /\ p = Vowel(w)
            BY <5>1, <2>1, <2>4, Zenon DEF Vowel
          <5>3. Spell(Syllable(l, both, 0)) = VowelParts(both) /\ Spell(p) = VowelParts(w)
            BY <5>2, <3>1, <3>5, SyllableSpelled, Zenon
          <5> QED BY <5>3, <3>5, Zenon
        <4>3. l >= 0 \/ l < 0
          OBVIOUS
        <4> QED BY <4>1, <4>2, <4>3, Zenon
      <3>9. <<>> \o Spell(Syllable(l, both, 0)) = Spell(p) \o VowelParts(v)
        BY <3>8, <1>1, TextCat, TextNil, Zenon
      <3>10. PushVowel(p, v).commit = <<>> /\ PushVowel(p, v).pending = Syllable(l, both, 0)
        BY <3>2, StepParts, Zenon
      <3> QED BY <3>6, <3>9, <3>10, <1>1, Zenon DEF Takes
    <2>5. CASE w >= 0 /\ t # 0
      <3>1. /\ p.v >= 0 /\ p.t # 0 /\ ~(p.v < 0) /\ w \in 0 .. 20 /\ l \in 0 .. 18
            /\ split = SplitFinal(t)
        BY <2>1, <2>5
      <3>2. PushVowel(p, v) = Step(Spell(Syllable(l, w, split[1])), Syllable(split[2], v, 0))
        BY <1>5, <2>1, <2>5, <3>1, Zenon DEF PushVowel
      <3> HIDE DEF split
      <3>3. PICK f \in 0 .. 27, i \in 0 .. 18 :
                /\ split[1] = f /\ split[2] = i
                /\ FinalParts(t) = FinalParts(f) \o <<<<"C", i>>>>
        BY <3>1, <2>5, SplitSpelled, Zenon
      <3>4. 0 \in 0 .. 27 /\ i \in -1 .. 18 /\ v \in -1 .. 20 /\ v >= 0 /\ ~(0 # 0)
        OBVIOUS
      <3>5. HangulPending(Syllable(i, v, 0))
        BY <3>4, SyllablePending, Zenon
      <3> DEFINE cw == <<<<"C", l>>>> \o VowelParts(w)
                 ff == FinalParts(f)
                 ci == <<<<"C", i>>>>
                 vv == VowelParts(v)
      <3>6. cw \in Texts /\ ff \in Texts /\ ci \in Texts /\ vv \in Texts
        BY <1>1, <3>1, <3>3, Letters, TextOne, VowelSpelled, FinalSpelled, TextCat, Zenon
      <3>7. /\ Spell(Syllable(l, w, f)) = cw \o ff
            /\ Spell(p) = cw \o (ff \o ci)
            /\ Spell(Syllable(i, v, 0)) = ci \o vv \o <<>>
        <4>1. Spell(Syllable(l, w, f)) = cw \o ff
          BY <3>1, SyllableSpelled, Zenon
        <4>2. Spell(p) = cw \o FinalParts(t)
          BY <2>1, <3>1, SyllableSpelled, Zenon
        <4>3. Spell(Syllable(i, v, 0)) = ci \o vv \o <<>>
          BY <3>4, SyllableSpelled, FinalSpelled, Zenon
        <4> QED BY <4>1, <4>2, <4>3, <3>3, Zenon
      <3>8. /\ PushVowel(p, v).commit = Spell(Syllable(l, w, f))
            /\ PushVowel(p, v).pending = Syllable(i, v, 0)
        <4>1. PushVowel(p, v) = Step(Spell(Syllable(l, w, f)), Syllable(i, v, 0))
          BY <3>2, <3>3
        <4> QED BY <4>1, StepParts, Zenon
      <3> HIDE DEF cw, ff, ci, vv
      <3>9. cw \o ff \in Texts /\ ff \o ci \in Texts /\ ci \o vv \in Texts
        BY <3>6, TextCat, Zenon
      <3>10. (cw \o ff) \o (ci \o vv) = (cw \o (ff \o ci)) \o vv
        <4>1. ((cw \o ff) \o ci) \o vv = (cw \o ff) \o (ci \o vv)
          <5>1. \A s \in Texts : (s \o ci) \o vv = s \o (ci \o vv)
            BY <3>6, TextAssoc, Zenon
          <5> QED BY <5>1, <3>9, Zenon
        <4>2. (cw \o ff) \o ci = cw \o (ff \o ci)
          BY <3>6, TextAssoc, Zenon
        <4> QED BY <4>1, <4>2, Zenon
      <3>11. ci \o vv \o <<>> = ci \o vv
        BY <3>9, TextNil, Zenon
      <3>12. Takes(p, PushVowel(p, v), vv)
        BY <3>7, <3>8, <3>9, <3>10, <3>11, Zenon DEF Takes
      <3> QED BY <3>5, <3>8, <3>12, Zenon DEF vv
    <2>6. w < 0 \/ (w >= 0 /\ t = 0) \/ (w >= 0 /\ t # 0)
      OBVIOUS
    <2> QED BY <2>2, <2>3, <2>4, <2>5, <2>6, Zenon
  <1> QED BY <1>4, <1>5

\* A character that composes with nothing follows what is pending.
LEMMA RawText ==
    ASSUME NEW p, NEW step, NEW c \in Characters, Spell(p) \in Texts,
           step = Step(Append(Spell(p), c), None)
    PROVE  Takes(p, step, <<c>>) /\ step.pending = None
  <1>1. Append(Spell(p), c) = Spell(p) \o <<c>>
    BY DEF Texts
  <1>2. step.commit = Spell(p) \o <<c>> /\ step.pending = None
    BY <1>1, StepParts, Zenon
  <1>3. Spell(p) \o <<c>> \in Texts
    BY TextOne, TextCat, Zenon
  <1> QED BY <1>2, <1>3, SyllableSpelled, TextNil, Zenon DEF Takes

\* HangulComposer::push_char.
LEMMA JamoText ==
    ASSUME NEW p, HangulPending(p), NEW c \in Jamo
    PROVE  /\ HangulPending(PushJamo(p, c).pending)
           /\ Takes(p, PushJamo(p, c), Primitive(c)) /\ Primitive(c) \in Texts
  <1>1. ASSUME NEW i \in Consonants, c = <<"C", i>>
        PROVE  /\ HangulPending(PushJamo(p, c).pending)
               /\ Takes(p, PushJamo(p, c), Primitive(c)) /\ Primitive(c) \in Texts
    <2>1. i \in 0 .. 18
      BY ComposerAssumption
    <2>2. c[1] = "C" /\ c[2] = i
      BY <1>1
    <2>3. PushJamo(p, c) = PushConsonant(p, i) /\ Primitive(c) = <<c>>
      BY <2>2 DEF PushJamo, Primitive
    <2>4. <<c>> \in Texts
      BY <1>1, <2>1, Letters, TextOne, Zenon
    <2> QED BY <1>1, <2>1, <2>3, <2>4, ConsonantText, Zenon
  <1>2. ASSUME NEW i \in Vowels, c = <<"V", i>>
        PROVE  /\ HangulPending(PushJamo(p, c).pending)
               /\ Takes(p, PushJamo(p, c), Primitive(c)) /\ Primitive(c) \in Texts
    <2>1. i \in 0 .. 20
      BY ComposerAssumption
    <2>2. c[1] = "V" /\ c[2] = i
      BY <1>2
    <2>3. PushJamo(p, c) = PushVowel(p, i) /\ Primitive(c) = VowelParts(i)
      BY <2>2 DEF PushJamo, Primitive
    <2> QED BY <2>1, <2>3, VowelText, VowelSpelled, Zenon
  <1>3. ASSUME NEW i \in Others, c = <<"J", i>>
        PROVE  /\ HangulPending(PushJamo(p, c).pending)
               /\ Takes(p, PushJamo(p, c), Primitive(c)) /\ Primitive(c) \in Texts
    <2>1. c \in Characters
      BY <1>3, Letters, Zenon
    <2>2. c[1] = "J"
      BY <1>3
    <2>3. PushJamo(p, c) = Step(Append(Spell(p), c), None) /\ Primitive(c) = <<c>>
      BY <2>2 DEF PushJamo, Primitive
    <2>4. Takes(p, PushJamo(p, c), <<c>>) /\ PushJamo(p, c).pending = None
      BY <2>1, <2>3, HangulTexts, RawText, Zenon
    <2> QED BY <2>1, <2>3, <2>4, TextOne, Zenon DEF HangulPending
  <1> QED BY <1>1, <1>2, <1>3, Zenon DEF Jamo

\* What the kana composer is given.
KanaChars == {<<"K", b>> : b \in Bases} \cup {<<"M", k>> : k \in Marks}

\* What is pending in the kana composer spells a text.
LEMMA KanaTexts ==
    ASSUME NEW p, KanaPending(p) PROVE Spell(p) \in Texts
  <1>1. CASE p = None
    BY <1>1, SyllableSpelled, TextEmpty
  <1>2. CASE p # None
    <2>1. p.base \in DOMAIN Voiced /\ p = Kana(p.base, None)
      BY <1>2 DEF KanaPending, KanaGlyphs, Kana
    <2>2. PICK b \in DOMAIN Voiced : p = Kana(b, None)
      BY <2>1, Zenon
    <2> QED BY <2>2, KanaSpelled, Letters, TextOne, Zenon
  <1> QED BY <1>1, <1>2

\* KanaComposer::push_char.
LEMMA KanaText ==
    ASSUME NEW p, KanaPending(p), NEW c \in KanaChars
    PROVE  /\ KanaPending(PushKana(p, c).pending)
           /\ Takes(p, PushKana(p, c), <<c>>) /\ <<c>> \in Texts
  <1> DEFINE out == ApplyMark(p, c[2])
  <1>1. Spell(p) \in Texts
    BY KanaTexts
  <1>2. ASSUME NEW b \in Bases, c = <<"K", b>>
        PROVE  /\ KanaPending(PushKana(p, c).pending)
               /\ Takes(p, PushKana(p, c), <<c>>) /\ <<c>> \in Texts
    <2>1. b \in DOMAIN Voiced
      BY ComposerAssumption
    <2>2. c[1] = "K" /\ c[2] = b
      BY <1>2
    <2>3. PushKana(p, c) = Step(Spell(p), Kana(b, None))
      BY <2>2, Zenon DEF PushKana
    <2>4. PushKana(p, c).commit = Spell(p) /\ PushKana(p, c).pending = Kana(b, None)
      BY <2>3, StepParts, Zenon
    <2>5. <<c>> \in Texts
      BY <1>2, <2>1, Letters, TextOne, Zenon
    <2> QED BY <1>1, <1>2, <2>1, <2>4, <2>5, KanaSpelled, Zenon DEF Takes
  <1>3. ASSUME NEW k \in Marks, c = <<"M", k>>
        PROVE  /\ KanaPending(PushKana(p, c).pending)
               /\ Takes(p, PushKana(p, c), <<c>>) /\ <<c>> \in Texts
    <2>1. c[1] # "K" /\ c[2] = k
      BY <1>3
    <2>2. c \in Characters
      BY <1>3, Letters, Zenon
    <2>3. <<c>> \in Texts
      BY <2>2, TextOne
    <2>4. CASE out = None
      <3>1. PushKana(p, c) = Step(Append(Spell(p), c), None)
        BY <2>1, <2>4, Zenon DEF PushKana
      <3>2. Takes(p, PushKana(p, c), <<c>>) /\ PushKana(p, c).pending = None
        BY <3>1, <2>2, <1>1, RawText, Zenon
      <3> QED BY <3>2, <2>3 DEF KanaPending
    <2>5. CASE out # None
      <3>1. p # None /\ out = Kana(p.base, k)
        BY <2>1, <2>5 DEF ApplyMark
      <3>2. p.base \in DOMAIN Voiced /\ p = Kana(p.base, None)
        BY <3>1 DEF KanaPending, KanaGlyphs, Kana
      <3>3. PICK b \in DOMAIN Voiced : p.base = b /\ p = Kana(b, None)
        BY <3>2, Zenon
      <3>4. PushKana(p, c) = Step(Spell(Kana(b, k)), None)
        BY <2>1, <2>5, <3>1, <3>3, Zenon DEF PushKana
      <3>5. PushKana(p, c).commit = Spell(Kana(b, k)) /\ PushKana(p, c).pending = None
        BY <3>4, StepParts, Zenon
      <3> DEFINE d == <<"K", b>>
      <3>6. d \in Characters
        BY Letters
      <3>7. Spell(Kana(b, k)) = <<d, c>> /\ Spell(p) = <<d>>
        BY <1>3, <3>3, KanaSpelled, Zenon
      <3> HIDE DEF d
      <3>8. Spell(Kana(b, k)) = Spell(p) \o <<c>>
        BY <3>6, <3>7, <2>2, TextTwo, Zenon
      <3>9. Spell(p) \o <<c>> \in Texts
        BY <1>1, <2>3, TextCat
      <3>10. (Spell(p) \o <<c>>) \o <<>> = Spell(p) \o <<c>>
        BY <3>9, TextNil, Zenon
      <3>11. Takes(p, PushKana(p, c), <<c>>)
        BY <3>5, <3>8, <3>9, <3>10, SyllableSpelled, Zenon DEF Takes
      <3> QED BY <3>5, <3>11, <2>3, Zenon DEF KanaPending
    <2> QED BY <2>4, <2>5
  <1> QED BY <1>2, <1>3, Zenon DEF KanaChars

\* A step that takes one text, and a step from there that takes another.
Follows(q, s, text, n, w) ==
    /\ text \in Texts /\ w \in Texts
    /\ Spell(q) \in Texts /\ Spell(s.pending) \in Texts /\ Spell(n.pending) \in Texts
    /\ Takes(q, s, text) /\ Takes(s.pending, n, w)

\* Two steps after each other take both texts.
LEMMA TakesOn ==
    ASSUME NEW q, NEW s, NEW n, NEW text, NEW w, Follows(q, s, text, n, w)
    PROVE  Takes(q, Step(s.commit \o n.commit, n.pending), text \o w)
  <1> DEFINE a == s.commit
             b == n.commit
             x == Spell(s.pending)
             y == Spell(n.pending)
             z == Spell(q)
  <1>1. a \in Texts /\ b \in Texts /\ y \in Texts
    BY DEF Follows, Takes
  <1>2. x \in Texts /\ w \in Texts
    BY DEF Follows
  <1>3. z \in Texts /\ text \in Texts
    BY DEF Follows
  <1>4. a \o x = z \o text /\ b \o y = x \o w
    BY DEF Follows, Takes
  <1>5. LET m == Step(a \o b, n.pending) IN m.commit = a \o b /\ m.pending = n.pending
    BY StepParts, Zenon
  <1> HIDE DEF a, b, x, y, z
  <1>6. (a \o b) \o y = a \o (b \o y) /\ a \o b \in Texts
    BY <1>1, TextAssoc, TextCat, Zenon
  <1>7. (a \o x) \o w = a \o (x \o w)
    BY <1>1, <1>2, TextAssoc, Zenon
  <1>8. (z \o text) \o w = z \o (text \o w)
    BY <1>2, <1>3, TextAssoc, Zenon
  <1>9. (a \o b) \o y = z \o (text \o w)
    BY <1>4, <1>6, <1>7, <1>8, Zenon
  <1> QED BY <1>5, <1>6, <1>9, Zenon DEF Takes, a, b, y, z

\* The composer of a target has pending what it can.
Holds(target, p) ==
    \/ target = "hangul" /\ HangulPending(p)
    \/ target = "kana" /\ KanaPending(p)

\* A character with its text, as the composer of a target takes it.
Fits(target, c, w) ==
    \/ target = "hangul" /\ c \in Jamo /\ w = Primitive(c)
    \/ target = "kana" /\ c \in KanaChars /\ w = <<c>>

\* One more character of a chunk.
LEMMA CharTakes ==
    ASSUME NEW target, NEW q, NEW s, NEW c, NEW w, NEW text \in Texts,
           Spell(q) \in Texts, Holds(target, s.pending), Takes(q, s, text), Fits(target, c, w)
    PROVE  /\ Holds(target, PushChar(target, s, c).pending)
           /\ Takes(q, PushChar(target, s, c), text \o w) /\ text \o w \in Texts
  <1> DEFINE n == IF target = "hangul" THEN PushJamo(s.pending, c) ELSE PushKana(s.pending, c)
  <1>1. PushChar(target, s, c) = Step(s.commit \o n.commit, n.pending)
    BY Zenon DEF PushChar
  <1>2. Holds(target, n.pending) /\ Takes(s.pending, n, w) /\ w \in Texts
    <2>1. CASE target = "hangul" /\ HangulPending(s.pending) /\ c \in Jamo /\ w = Primitive(c)
      <3>1. n = PushJamo(s.pending, c)
        BY <2>1
      <3> HIDE DEF n
      <3> QED BY <2>1, <3>1, JamoText, Zenon DEF Holds
    <2>2. CASE target = "kana" /\ KanaPending(s.pending) /\ c \in KanaChars /\ w = <<c>>
      <3>1. n = PushKana(s.pending, c)
        BY <2>2
      <3> HIDE DEF n
      <3> QED BY <2>2, <3>1, KanaText, Zenon DEF Holds
    <2> QED BY <2>1, <2>2 DEF Holds, Fits
  <1> HIDE DEF n
  <1>3. Spell(s.pending) \in Texts /\ Spell(n.pending) \in Texts
    BY <1>2, HangulTexts, KanaTexts, Zenon DEF Holds
  <1>7. Follows(q, s, text, n, w)
    BY <1>2, <1>3, Zenon DEF Follows
  <1>4. Takes(q, PushChar(target, s, c), text \o w)
    BY <1>1, <1>7, TakesOn, Zenon
  <1>5. PushChar(target, s, c).pending = n.pending
    BY <1>1 DEF Step
  <1>6. text \o w \in Texts
    BY <1>2, TextCat, Zenon
  <1> QED BY <1>2, <1>4, <1>5, <1>6, Zenon

\* push_text for chunks of one and two characters, from its recursion.
LEMMA PushTextSteps ==
    ASSUME NEW target, NEW p, NEW X, NEW chunk \in Seq(X), Len(chunk) \in {1, 2}
    PROVE  LET one == PushChar(target, Step(<<>>, p), chunk[1])
           IN  /\ Len(chunk) = 1 => PushText(target, p, chunk) = one
               /\ Len(chunk) = 2 => PushText(target, p, chunk) = PushChar(target, one, chunk[2])
  <1> DEFINE N == Len(chunk)
             zero == Step(<<>>, p)
             one == PushChar(target, zero, chunk[1])
             two == PushChar(target, one, chunk[2])
             Runs(a) == a = [n \in 0 .. N |-> IF n = 0 THEN zero ELSE PushChar(target, a[n - 1], chunk[n])]
             b == [n \in 0 .. N |-> IF n = 0 THEN zero ELSE IF n = 1 THEN one ELSE two]
  <1>1. PushText(target, p, chunk) = (CHOOSE a : Runs(a))[N]
    BY Zenon DEF PushText
  <1>2. Runs(b)
    <2> DEFINE c == [n \in 0 .. N |-> IF n = 0 THEN zero ELSE PushChar(target, b[n - 1], chunk[n])]
    <2>1. \A n \in 0 .. N : n = 0 \/ n = 1 \/ (n = 2 /\ N = 2)
      <3>1. N \in {1, 2}
        OBVIOUS
      <3> HIDE DEF N
      <3> QED BY <3>1
    <2>2. b[0] = zero /\ b[1] = one /\ (N = 2 => b[2] = two)
      OBVIOUS
    <2>3. c[0] = zero /\ c[1] = PushChar(target, b[0], chunk[1])
          /\ (N = 2 => c[2] = PushChar(target, b[1], chunk[2]))
      OBVIOUS
    <2>4. DOMAIN b = 0 .. N /\ DOMAIN c = 0 .. N
      OBVIOUS
    <2>5. c[0] = b[0] /\ c[1] = b[1] /\ (N = 2 => c[2] = b[2])
      BY <2>2, <2>3
    <2>6. \A n \in 0 .. N : b[n] = c[n]
      <3> HIDE DEF b, c, N
      <3> QED BY <2>1, <2>5
    <2>7. b = c
      BY <2>6, Zenon
    <2> QED BY <2>7, Zenon
  <1> DEFINE f == CHOOSE a : Runs(a)
  <1>3. Runs(f)
    BY <1>2, Zenon
  <1> HIDE DEF f
  <1>4. f[0] = zero /\ f[1] = PushChar(target, f[0], chunk[1])
        /\ (N = 2 => f[2] = PushChar(target, f[1], chunk[2]))
    BY <1>3
  <1>5. PushText(target, p, chunk) = f[N]
    BY <1>1 DEF f
  <1> HIDE DEF zero
  <1> QED BY <1>4, <1>5 DEF zero

\* A chunk some composer wants is taken whole.
LEMMA ChunkText ==
    ASSUME NEW chunk \in Chunks, Detect(chunk) # "idle", NEW p, Holds(Detect(chunk), p)
    PROVE  /\ Holds(Detect(chunk), PushText(Detect(chunk), p, chunk).pending)
           /\ \E text \in TypedText :
                 text \in Texts /\ Takes(p, PushText(Detect(chunk), p, chunk), text)
  <1> DEFINE target == Detect(chunk)
             zero == Step(<<>>, p)
             one == PushChar(target, zero, chunk[1])
  <1>1. Spell(p) \in Texts /\ <<>> \in Texts
    BY HangulTexts, KanaTexts, TextEmpty, Zenon DEF Holds
  <1>2. zero.commit = <<>> /\ zero.pending = p
    BY StepParts, Zenon
  <1>3. Holds(target, zero.pending) /\ Takes(p, zero, <<>>)
    BY <1>1, <1>2, TextNil, Zenon DEF Takes
  <1> HIDE DEF zero
  <1>4. ASSUME NEW w \in Texts, Len(chunk) = 1, chunk \in Seq({chunk[1]}), Fits(target, chunk[1], w)
        PROVE  Holds(target, PushText(target, p, chunk).pending) /\ Takes(p, PushText(target, p, chunk), w)
    <2>1. PushText(target, p, chunk) = one
      BY <1>4, PushTextSteps DEF zero
    <2>2. Holds(target, one.pending) /\ Takes(p, one, <<>> \o w)
      BY <1>1, <1>3, <1>4, CharTakes, Zenon
    <2>3. <<>> \o w = w
      BY TextNil
    <2> QED BY <2>1, <2>2, <2>3, Zenon
  <1>5. ASSUME NEW c \in KanaChars, NEW d \in KanaChars, chunk = <<c, d>>, target = "kana"
        PROVE  /\ Holds(target, PushText(target, p, chunk).pending)
               /\ Takes(p, PushText(target, p, chunk), chunk) /\ chunk \in Texts
    <2>1. c \in Characters /\ d \in Characters
      BY Letters, ComposerAssumption, Zenon DEF KanaChars
    <2>2. chunk \in Seq(Characters) /\ Len(chunk) = 2 /\ chunk[1] = c /\ chunk[2] = d
      BY <1>5, <2>1
    <2>3. PushText(target, p, chunk) = PushChar(target, one, d)
      BY <2>2, PushTextSteps DEF zero
    <2>4. Fits(target, c, <<c>>) /\ Fits(target, d, <<d>>)
      BY <1>5 DEF Fits
    <2>5. /\ Holds(target, one.pending) /\ Takes(p, one, <<>> \o <<c>>) /\ <<>> \o <<c>> \in Texts
      BY <1>1, <1>3, <2>2, <2>4, CharTakes, Zenon
    <2> HIDE DEF one
    <2>6. /\ Holds(target, PushText(target, p, chunk).pending)
          /\ Takes(p, PushText(target, p, chunk), (<<>> \o <<c>>) \o <<d>>)
      BY <1>1, <2>3, <2>4, <2>5, CharTakes, Zenon
    <2>7. (<<>> \o <<c>>) \o <<d>> = chunk /\ chunk \in Texts
      <3>1. <<>> \o <<c>> = <<c>>
        BY <2>1, TextOne, TextNil, Zenon
      <3> QED BY <3>1, <1>5, <2>1, <2>2, TextTwo, Zenon DEF Texts
    <2> QED BY <2>6, <2>7, Zenon
  <1>6. ASSUME NEW c \in Jamo, chunk = <<c>>
        PROVE  \E text \in TypedText : /\ text \in Texts
                                       /\ Holds(target, PushText(target, p, chunk).pending)
                                       /\ Takes(p, PushText(target, p, chunk), text)
    <2>1. c[1] \in {"C", "V", "J"}
      BY DEF Jamo
    <2>2. chunk # <<>> /\ Len(chunk) = 1 /\ chunk[1] = c /\ chunk \in Seq({chunk[1]}) /\ DOMAIN chunk = {1}
      BY <1>6
    <2>3. target = "hangul"
      BY <2>1, <2>2 DEF Detect, IsJamo
    <2>4. Primitive(c) \in Texts
      <3>1. HangulPending(None)
        BY DEF HangulPending
      <3> QED BY <3>1, JamoText, Zenon
    <2>5. Fits(target, chunk[1], Primitive(c)) /\ Primitive(c) \in TypedText
      BY <2>2, <2>3, Zenon DEF Fits, TypedText
    <2> QED BY <1>4, <2>2, <2>4, <2>5, Zenon
  <1>7. ASSUME NEW k \in Marks, chunk = <<<<"M", k>>>>
        PROVE  /\ Holds(target, PushText(target, p, chunk).pending)
               /\ Takes(p, PushText(target, p, chunk), chunk) /\ chunk \in Texts
    <2> DEFINE c == <<"M", k>>
    <2>1. c[1] = "M" /\ c \in KanaChars /\ c \in Characters
      BY Letters DEF KanaChars
    <2>2. chunk = <<c>>
      BY <1>7
    <2> HIDE DEF c
    <2>3. chunk # <<>> /\ Len(chunk) = 1 /\ chunk[1] = c /\ chunk \in Seq({chunk[1]}) /\ DOMAIN chunk = {1}
      BY <2>2
    <2>4. target = "kana"
      BY <2>1, <2>3 DEF Detect, IsJamo, IsMarkedKana
    <2>5. chunk \in Texts /\ Fits(target, chunk[1], chunk)
      BY <2>1, <2>2, <2>3, <2>4, TextOne, Zenon DEF Fits
    <2> QED BY <1>4, <2>3, <2>5, Zenon
  <1>8. ASSUME NEW b \in Bases, NEW k \in Marks, NEW c, NEW d, chunk = <<c, d>>,
               {c, d} = {<<"K", b>>, <<"M", k>>}
        PROVE  /\ Holds(target, PushText(target, p, chunk).pending)
               /\ Takes(p, PushText(target, p, chunk), chunk) /\ chunk \in Texts
    <2> DEFINE kb == <<"K", b>>
               mk == <<"M", k>>
    <2>1. kb[1] = "K" /\ mk[1] = "M" /\ kb \in KanaChars /\ mk \in KanaChars
      BY DEF KanaChars
    <2>2. {c, d} = {kb, mk}
      BY <1>8
    <2> HIDE DEF kb, mk
    <2>3. (c = kb /\ d = mk) \/ (c = mk /\ d = kb)
      <3>1. kb # mk
        BY <2>1
      <3> QED BY <2>2, <3>1
    <2>4. c \in KanaChars /\ d \in KanaChars
      BY <2>1, <2>3
    <2>5. target = "kana"
      <3>1. chunk[1] = c /\ chunk[2] = d /\ DOMAIN chunk = {1, 2}
        BY <1>8
      <3> QED BY <3>1, <2>1, <2>3 DEF Detect, IsJamo, IsMarkedKana
    <2> QED BY <2>4, <2>5, <1>5, <1>8, Zenon
  <1>9. ASSUME chunk = <<<<"X", "x">>>> PROVE FALSE
    <2>1. DOMAIN chunk = {1} /\ chunk[1][1] = "X"
      BY <1>9
    <2> QED BY <2>1 DEF Detect, IsJamo, IsMarkedKana
  <1>10. CASE chunk \in {<<c>> : c \in Jamo}
    <2>1. PICK c \in Jamo : chunk = <<c>>
      BY <1>10
    <2> QED BY <2>1, <1>6, Zenon
  <1>11. CASE chunk \in OtherChunks
    <2>1. chunk \in TypedText
      BY <1>11 DEF TypedText
    <2>2. /\ Holds(target, PushText(target, p, chunk).pending)
          /\ Takes(p, PushText(target, p, chunk), chunk) /\ chunk \in Texts
      <3>1. CASE chunk \in {<<<<"X", "x">>>>}
        BY <3>1, <1>9, Zenon
      <3>2. CASE chunk \in {<<<<"M", k>>>> : k \in Marks}
        BY <3>2, <1>7, Zenon
      <3>3. CASE chunk \in {<<<<"K", b>>, <<"M", k>>>> : b \in Bases, k \in Marks}
        <4>1. PICK b \in Bases, k \in Marks : chunk = <<<<"K", b>>, <<"M", k>>>>
          BY <3>3
        <4> QED BY <4>1, <1>8, Zenon
      <3>4. CASE chunk \in {<<<<"M", k>>, <<"K", b>>>> : b \in Bases, k \in Marks}
        <4>1. PICK b \in Bases, k \in Marks : chunk = <<<<"M", k>>, <<"K", b>>>>
          BY <3>4
        <4>2. {<<"M", k>>, <<"K", b>>} = {<<"K", b>>, <<"M", k>>}
          OBVIOUS
        <4> QED BY <4>1, <4>2, <1>8, Zenon
      <3> QED BY <3>1, <3>2, <3>3, <3>4, <1>11 DEF OtherChunks
    <2> QED BY <2>1, <2>2, Zenon
  <1> QED BY <1>10, <1>11, Zenon DEF Chunks

\* The inductive invariant: what is pending is of the composer that is in use,
\* and what is sent is a text.
Holding ==
    /\ backend \in {"idle", "hangul", "kana"}
    /\ backend = "idle" => pending = None
    /\ backend # "idle" => Holds(backend, pending)

BufferInv == Holding /\ sent \in Texts

\* What is pending spells a text.
LEMMA HeldTexts == ASSUME Holding PROVE Spell(pending) \in Texts
  <1>1. CASE pending = None
    BY <1>1, SyllableSpelled, TextEmpty
  <1>2. CASE pending # None
    BY <1>2, HangulTexts, KanaTexts, Zenon DEF Holding, Holds
  <1> QED BY <1>1, <1>2

\* The text of a chunk no composer wants, and of one that is composed.
LEMMA Verbatim ==
    ASSUME NEW chunk \in Chunks, Detect(chunk) = "idle"
    PROVE  chunk \in Texts /\ chunk \in TypedText
  <1>1. ASSUME NEW c \in Jamo, chunk = <<c>> PROVE FALSE
    <2>1. c[1] \in {"C", "V", "J"} /\ chunk # <<>> /\ chunk[1] = c /\ DOMAIN chunk = {1}
      BY <1>1 DEF Jamo
    <2> QED BY <2>1 DEF Detect, IsJamo
  <1>2. chunk \in OtherChunks
    BY <1>1, Zenon DEF Chunks
  <1>3. \A k \in Marks : <<"M", k>> \in Characters
    BY Letters
  <1>4. \A b \in Bases : <<"K", b>> \in Characters
    BY Letters, ComposerAssumption
  <1>5. chunk \in Texts
    <2>1. CASE chunk \in {<<<<"X", "x">>>>}
      BY <2>1, Letters, TextOne, Zenon
    <2>2. CASE chunk \in {<<<<"M", k>>>> : k \in Marks}
      BY <2>2, <1>3, TextOne, Zenon
    <2>3. CASE chunk \in {<<<<"K", b>>, <<"M", k>>>> : b \in Bases, k \in Marks}
      <3>1. PICK b \in Bases, k \in Marks : chunk = <<<<"K", b>>, <<"M", k>>>>
        BY <2>3
      <3> QED BY <3>1, <1>3, <1>4, TextTwo, TextOne, TextCat, Zenon
    <2>4. CASE chunk \in {<<<<"M", k>>, <<"K", b>>>> : b \in Bases, k \in Marks}
      <3>1. PICK b \in Bases, k \in Marks : chunk = <<<<"M", k>>, <<"K", b>>>>
        BY <2>4
      <3> QED BY <3>1, <1>3, <1>4, TextTwo, TextOne, TextCat, Zenon
    <2> QED BY <2>1, <2>2, <2>3, <2>4, <1>2 DEF OtherChunks
  <1> QED BY <1>2, <1>5 DEF TypedText

\* A text is a first part of itself and what follows.
LEMMA LenGrows ==
    ASSUME NEW s \in Texts, NEW t \in Texts
    PROVE  /\ Len(s \o t) >= Len(s)
           /\ t # <<>> => Len(s) < Len(s \o t) /\ s = SubSeq(s \o t, 1, Len(s))
  <1>1. Len(s \o t) = Len(s) + Len(t) /\ Len(s) \in Nat /\ Len(t) \in Nat /\ s \o t \in Texts
    BY ConcatProperties DEF Texts
  <1>2. t # <<>> => Len(t) > 0
    BY EmptySeq DEF Texts
  <1>3. s = SubSeq(s \o t, 1, Len(s))
    <2>1. SubSeq(s \o t, 1, Len(s)) \in Seq(Characters) /\ Len(SubSeq(s \o t, 1, Len(s))) = Len(s)
      BY <1>1, SubSeqProperties DEF Texts
    <2>2. \A i \in 1 .. Len(s) : SubSeq(s \o t, 1, Len(s))[i] = s[i]
      BY <1>1, SubSeqProperties, ConcatProperties DEF Texts
    <2> QED BY <2>1, <2>2, SeqEqual DEF Texts
  <1> QED BY <1>1, <1>2, <1>3

\* Ime::Commit and the text of the keyboard type a text.
LEMMA TypeTextStep ==
    ASSUME BufferInv, NEW chunk \in Chunks, SendHostText(chunk)
    PROVE  BufferInv' /\ (\E text \in TypedText : Buffer!Type(text))
  <1>1. Spell(pending) \in Texts /\ sent \in Texts
    BY HeldTexts DEF BufferInv
  <1>2. CASE Detect(chunk) = "idle"
    <2>1. SendVerbatim(chunk)
      BY <1>2 DEF SendHostText
    <2>2. backend' = "idle" /\ pending' = None /\ sent' = (sent \o Spell(pending)) \o chunk
      BY <2>1 DEF SendVerbatim, Flushed
    <2>3. chunk \in Texts /\ chunk \in TypedText
      BY <1>2, Verbatim
    <2>4. sent \o Spell(pending) \in Texts
      BY <1>1, TextCat, Zenon
    <2>5. sent' \in Texts /\ Spell(pending') = <<>>
      BY <2>2, <2>3, <2>4, TextCat, SyllableSpelled, Zenon
    <2>6. sent' \o Spell(pending') = sent \o Spell(pending) \o chunk
      BY <2>2, <2>5, TextNil, Zenon
    <2>7. Len(sent') >= Len(sent)
      <3>1. sent' = sent \o (Spell(pending) \o chunk) /\ Spell(pending) \o chunk \in Texts
        BY <1>1, <2>2, <2>3, TextAssoc, TextCat, Zenon
      <3> QED BY <1>1, <3>1, LenGrows, Zenon
    <2>8. Buffer!Type(chunk)
      BY <2>6, <2>7 DEF Buffer!Type
    <2>9. BufferInv'
      BY <2>2, <2>5 DEF BufferInv, Holding
    <2> QED BY <2>3, <2>8, <2>9
  <1>3. CASE Detect(chunk) # "idle"
    <2> DEFINE target == Detect(chunk)
               start == SwitchFor(target)
               step == PushText(target, start.pending, chunk)
    <2>1. PushComposable(chunk)
      BY <1>3 DEF SendHostText
    <2>2. backend' = target /\ sent' = start.sent \o step.commit /\ pending' = step.pending
      BY <2>1, Zenon DEF PushComposable
    <2>3. target \in {"hangul", "kana"}
      BY <1>3 DEF Detect
    <2>4. /\ Holds(target, start.pending) /\ start.sent \in Texts /\ Spell(start.pending) \in Texts
          /\ start.sent \o Spell(start.pending) = sent \o Spell(pending)
          /\ Len(start.sent) >= Len(sent)
      <3>1. CASE target = backend
        <4>1. start.sent = sent /\ start.pending = pending
          BY <3>1 DEF SwitchFor
        <4>2. Holds(target, pending)
          BY <3>1, <1>3 DEF BufferInv, Holding
        <4>3. Len(sent) >= Len(sent)
          BY <1>1 DEF Texts
        <4> HIDE DEF start, target
        <4> QED BY <4>1, <4>2, <4>3, <1>1, Zenon
      <3>2. CASE target # backend
        <4>1. start.sent = sent \o Spell(pending) /\ start.pending = None
          BY <3>2 DEF SwitchFor, Flushed
        <4>2. Holds(target, None) /\ Spell(None) = <<>>
          BY <2>3, SyllableSpelled DEF Holds, HangulPending, KanaPending
        <4> HIDE DEF start, target
        <4>3. start.sent \in Texts
          BY <4>1, <1>1, TextCat, Zenon
        <4>4. start.sent \o <<>> = start.sent
          BY <4>3, TextNil, Zenon
        <4>5. Len(start.sent) >= Len(sent)
          BY <4>1, <1>1, LenGrows, Zenon
        <4> QED BY <4>1, <4>2, <4>3, <4>4, <4>5, TextEmpty, Zenon
      <3> QED BY <3>1, <3>2
    <2>5. /\ Holds(target, step.pending)
          /\ \E text \in TypedText : text \in Texts /\ Takes(start.pending, step, text)
      BY <1>3, <2>4, ChunkText, Zenon
    <2>6. PICK text \in TypedText : text \in Texts /\ Takes(start.pending, step, text)
      BY <2>5
    <2> HIDE DEF start, target, step
    <2>7. step.commit \in Texts /\ step.commit \o Spell(step.pending) = Spell(start.pending) \o text
      BY <2>6 DEF Takes
    <2>8. Spell(step.pending) \in Texts
      BY <2>5, HangulTexts, KanaTexts, Zenon DEF Holds
    <2>9. sent' \in Texts /\ Len(sent') >= Len(start.sent)
      BY <2>2, <2>4, <2>7, TextCat, LenGrows, Zenon
    <2>10. sent' \o Spell(pending') = sent \o Spell(pending) \o text
      <3>1. (start.sent \o step.commit) \o Spell(step.pending) = start.sent \o (step.commit \o Spell(step.pending))
        BY <2>4, <2>7, <2>8, TextAssoc, Zenon
      <3>2. (start.sent \o Spell(start.pending)) \o text = start.sent \o (Spell(start.pending) \o text)
        BY <2>4, <2>6, TextAssoc, Zenon
      <3> QED BY <2>2, <2>4, <2>7, <3>1, <3>2, Zenon
    <2>11. Len(sent') >= Len(sent)
      <3>1. Len(sent') \in Nat /\ Len(sent) \in Nat /\ Len(start.sent) \in Nat
        BY <2>4, <2>9, <1>1 DEF Texts
      <3> QED BY <3>1, <2>4, <2>9
    <2>12. Buffer!Type(text)
      BY <2>10, <2>11 DEF Buffer!Type
    <2>13. BufferInv'
      BY <2>2, <2>3, <2>5, <2>9 DEF BufferInv, Holding
    <2> QED BY <2>6, <2>12, <2>13
  <1> QED BY <1>2, <1>3

\* flush releases what is held.
LEMMA ReleaseStep ==
    ASSUME BufferInv, backend' = "idle", pending' = None, sent' = Flushed
    PROVE  BufferInv' /\ Buffer!Release
  <1>1. Spell(pending) \in Texts /\ sent \in Texts
    BY HeldTexts DEF BufferInv
  <1>2. sent' \in Texts
    BY <1>1, TextCat, Zenon DEF Flushed
  <1>3. BufferInv'
    BY <1>2 DEF BufferInv, Holding
  <1>4. Spell(pending') = <<>>
    BY SyllableSpelled, Zenon
  <1> QED BY <1>3, <1>4 DEF Buffer!Release, Flushed

\* Backspace takes the last part off a syllable, or all there is.
LEMMA HangulErased ==
    ASSUME NEW p, HangulPending(p), p # None
    PROVE  /\ HangulPending(HangulBackspace(p))
           /\ \E t \in Texts : t # <<>> /\ Spell(p) = Spell(HangulBackspace(p)) \o t
  <1>1. PICK l \in -1 .. 18, v \in -1 .. 20, t \in 0 .. 27 :
            /\ p = Syllable(l, v, t) /\ p.l = l /\ p.v = v /\ p.t = t
            /\ l >= 0 \/ v >= 0
            /\ t # 0 => l >= 0 /\ v >= 0
    BY SyllableForm, Zenon
  <1>2. /\ (l >= 0 => l \in 0 .. 18) /\ (v >= 0 => v \in 0 .. 20)
        /\ (l < 0 => l = -1 /\ t = 0) /\ (v < 0 => v = -1 /\ t = 0) /\ 0 \in 0 .. 27
    BY <1>1
  <1>3. l >= 0 => <<<<"C", l>>>> \in Texts /\ <<<<"C", l>>>> # <<>>
    <2>1. l >= 0 => <<"C", l>> \in Characters
      BY <1>2, Letters, Zenon
    <2> QED BY <2>1, TextOne
  <1>4. v >= 0 => VowelParts(v) \in Texts /\ VowelParts(v) # <<>>
    BY <1>2, VowelSpelled, Zenon
  <1>5. CASE l < 0 \/ v < 0
    <2>1. HangulBackspace(p) = None
      BY <1>1, <1>5 DEF HangulBackspace
    <2>2. Spell(p) \in Texts /\ Spell(p) # <<>>
      <3>1. CASE l < 0
        <4>1. p = Vowel(v) /\ v >= 0
          BY <1>1, <1>2, <3>1 DEF Vowel
        <4> QED BY <4>1, <1>2, <1>4, SyllableSpelled, Zenon
      <3>2. CASE v < 0
        <4>1. p = Initial(l) /\ l >= 0
          BY <1>1, <1>2, <3>2 DEF Initial
        <4> QED BY <4>1, <1>2, <1>3, SyllableSpelled, Zenon
      <3> QED BY <3>1, <3>2, <1>5
    <2>3. Spell(p) = Spell(None) \o Spell(p)
      BY <2>2, SyllableSpelled, TextNil, Zenon
    <2> QED BY <2>1, <2>2, <2>3 DEF HangulPending
  <1>6. CASE l >= 0 /\ v >= 0
    <2> DEFINE cl == <<<<"C", l>>>>
               vv == VowelParts(v)
    <2>1. Spell(p) = cl \o vv \o FinalParts(t) /\ Spell(Syllable(l, v, 0)) = cl \o vv \o <<>>
      BY <1>1, <1>2, <1>6, SyllableSpelled, FinalSpelled, Zenon
    <2>2. cl \in Texts /\ vv \in Texts /\ vv # <<>> /\ FinalParts(t) \in Texts
      BY <1>3, <1>4, <1>6, FinalSpelled, Zenon
    <2>3. Spell(Initial(l)) = cl
      BY <1>2, <1>6, SyllableSpelled, Zenon
    <2> HIDE DEF cl, vv
    <2>4. cl \o vv \in Texts
      BY <2>2, TextCat, Zenon
    <2>5. CASE t = 0
      <3>1. HangulBackspace(p) = Initial(l)
        BY <1>1, <1>6, <2>5 DEF HangulBackspace
      <3>2. HangulPending(Initial(l))
        <4>1. -1 \in -1 .. 20 /\ ~(0 # 0)
          OBVIOUS
        <4> QED BY <4>1, <1>2, <1>6, SyllablePending, Zenon DEF Initial
      <3>3. Spell(p) = cl \o vv
        BY <2>1, <2>4, <2>5, FinalSpelled, TextNil, Zenon
      <3> QED BY <3>1, <3>2, <3>3, <2>2, <2>3, Zenon
    <2>6. CASE t # 0
      <3>1. HangulBackspace(p) = Syllable(l, v, 0)
        BY <1>1, <1>6, <2>6 DEF HangulBackspace
      <3>2. HangulPending(Syllable(l, v, 0))
        <4>1. ~(0 # 0)
          OBVIOUS
        <4> QED BY <4>1, <1>2, <1>6, SyllablePending, Zenon
      <3>3. Spell(Syllable(l, v, 0)) = cl \o vv
        BY <2>1, <2>4, TextNil, Zenon
      <3>4. FinalParts(t) # <<>>
        BY <2>6 DEF FinalParts
      <3> QED BY <3>1, <3>2, <3>3, <3>4, <2>1, <2>2, Zenon
    <2> QED BY <2>5, <2>6
  <1>7. l < 0 \/ v < 0 \/ (l >= 0 /\ v >= 0)
    OBVIOUS
  <1> QED BY <1>5, <1>6, <1>7, Zenon

\* Backspace erases the end of what is held.
LEMMA EraseStep ==
    ASSUME BufferInv, Backspace
    PROVE  BufferInv' /\ Buffer!Erase
  <1>1. /\ backend' = backend /\ sent' = sent /\ pending # None
        /\ pending' = IF backend = "kana" THEN None ELSE HangulBackspace(pending)
    BY DEF Backspace
  <1>2. Holds(backend, pending)
    BY <1>1 DEF BufferInv, Holding
  <1>3. Holds(backend, pending') /\ \E t \in Texts : t # <<>> /\ Spell(pending) = Spell(pending') \o t
    <2>1. CASE backend = "kana" /\ KanaPending(pending)
      <3>1. pending' = None
        BY <1>1, <2>1
      <3>2. pending.base \in DOMAIN Voiced /\ pending = Kana(pending.base, None)
        BY <1>1, <2>1 DEF KanaPending, KanaGlyphs, Kana
      <3>3. PICK b \in DOMAIN Voiced : pending = Kana(b, None)
        BY <3>2, Zenon
      <3>4. Spell(pending) = <<<<"K", b>>>>
        BY <3>3, KanaSpelled, Zenon
      <3>5. Spell(pending) \in Texts /\ Spell(pending) # <<>>
        <4>1. Spell(pending) \in Texts
          BY <2>1, KanaTexts, Zenon
        <4> QED BY <3>4, <4>1
      <3>6. Spell(pending) = Spell(None) \o Spell(pending)
        BY <3>5, SyllableSpelled, TextNil, Zenon
      <3>7. Holds(backend, None)
        BY <2>1 DEF Holds, KanaPending
      <3> QED BY <3>1, <3>5, <3>6, <3>7, Zenon
    <2>2. CASE backend = "hangul" /\ HangulPending(pending)
      <3>1. pending' = HangulBackspace(pending)
        BY <1>1, <2>2
      <3> QED BY <3>1, <2>2, <1>1, HangulErased, Zenon DEF Holds
    <2> QED BY <1>2, <2>1, <2>2 DEF Holds
  <1>4. BufferInv'
    BY <1>1, <1>3 DEF BufferInv, Holding
  <1>5. PICK t \in Texts : t # <<>> /\ Spell(pending) = Spell(pending') \o t
    BY <1>3
  <1>6. Spell(pending') \in Texts
    BY <1>3, HangulTexts, KanaTexts, Zenon DEF Holds
  <1>7. /\ Len(Spell(pending')) < Len(Spell(pending))
        /\ Spell(pending') = SubSeq(Spell(pending), 1, Len(Spell(pending')))
    BY <1>5, <1>6, LenGrows, Zenon
  <1> QED BY <1>1, <1>4, <1>7 DEF Buffer!Erase

\* The composers implement a text buffer, for every set of jamo and kana in
\* use and texts of any length: whatever is typed, composed, switched, flushed
\* or erased, the glyphs sent spell the text typed, in order and once.
THEOREM TextAlwaysBuffered == ComposerSpec => Buffers
  <1>1. ComposerInit => BufferInv /\ Buffer!Init
    BY SyllableSpelled, TextEmpty DEF ComposerInit, BufferInv, Holding, Buffer!Init
  <1>2. BufferInv /\ [ComposerNext]_ComposerVars =>
            BufferInv' /\ [Buffer!Next]_<<sent, Spell(pending)>>
    <2> SUFFICES ASSUME BufferInv, [ComposerNext]_ComposerVars
                 PROVE  BufferInv' /\ [Buffer!Next]_<<sent, Spell(pending)>>
      OBVIOUS
    <2>1. ASSUME NEW chunk \in Chunks, SendHostText(chunk)
          PROVE  BufferInv' /\ Buffer!Next
      BY <2>1, TypeTextStep, Zenon DEF Buffer!Next
    <2>2. ASSUME backend' = "idle", pending' = None, sent' = Flushed
          PROVE  BufferInv' /\ Buffer!Next
      BY <2>2, ReleaseStep, Zenon DEF Buffer!Next
    <2>3. ASSUME NEW text, ImePreedit(text) PROVE BufferInv' /\ Buffer!Next
      BY <2>2, <2>3 DEF ImePreedit
    <2>4. CASE FlushComposer
      BY <2>2, <2>4 DEF FlushComposer
    <2>5. CASE ImeDisabled
      BY <2>2, <2>5 DEF ImeDisabled
    <2>6. CASE Backspace
      BY <2>6, EraseStep, Zenon DEF Buffer!Next
    <2>7. CASE UNCHANGED ComposerVars
      <3>1. backend' = backend /\ pending' = pending /\ sent' = sent
        BY <2>7 DEF ComposerVars
      <3>2. BufferInv'
        BY <3>1 DEF BufferInv, Holding
      <3>3. Spell(pending') = Spell(pending)
        BY <3>1
      <3> QED BY <3>1, <3>2, <3>3
    <2> QED BY <2>1, <2>3, <2>4, <2>5, <2>6, <2>7, Zenon DEF ComposerNext
  <1> QED BY <1>1, <1>2, PTL DEF ComposerSpec, Buffers, Buffer!Spec

-----------------------------------------------------------------------------
(* The left button on one window, on every screen and for every border,    *)
(* snapping distance and number of events.                                 *)
(*                                                                         *)
(* None of its invariants is inductive: a gesture begins at a press and    *)
(* ends at a release many events later, and what the release does depends  *)
(* on which gesture the press began.  GestureInv says that on macOS a      *)
(* press begins exactly one, ResizeInv that no step makes the window too   *)
(* small to resize.                                                        *)

\* A monitor that takes two of the smallest windows side by side, and one
\* below the menu bar (480 by 320 pixels: MIN_VIEWER_WIDTH, MIN_VIEWER_HEIGHT).
RoomyMonitor ==
    /\ 2 * MinViewer <= Width /\ 2 * MinViewer <= Height
    /\ Inset + MinViewer <= Height

Spanned == [lo: Int, hi: Int]
Window == [x: Spanned, y: Spanned]
Drag == [type: {"pressed", "released", "dragging"}, start: Spot, outer: Spot]

PointerTypes ==
    /\ rect \in Window
    /\ cursor \in Screen
    /\ last_window_cursor # None => last_window_cursor \in Spot
    /\ hover_resize_direction \subseteq Edges
    /\ active_resize # None =>
          active_resize \in [direction: SUBSET Edges, start: Window]
    /\ move_state \in Drag \cup {Idle}
    /\ move_state # Idle => last_window_cursor \in Spot
    /\ {left, guest, suppress_next_left_release} \subseteq BOOLEAN

\* Between gestures nothing of one is left, but the grace of a release.
AtRest == ~left => move_state.type \in {"idle", "released"} /\ ~suppress_next_left_release

\* A press taken for the titlebar begins nothing.
TitlebarAlone == suppress_next_left_release => move_state.type \in {"idle", "released"}

\* On macOS a press begins one gesture: a move, a resize, a click of the guest
\* or one on the titlebar.
OneGesture ==
    build.macos =>
        /\ move_state.type # "released"
        /\ Resizing => left /\ ~Dragging /\ ~suppress_next_left_release
        /\ guest => left /\ ~Dragging /\ ~Resizing /\ ~suppress_next_left_release

BigEnough(r) == Length(r.x) >= MinViewer /\ Length(r.y) >= MinViewer

\* The window never gets smaller than a manual resize may make it.
MinSize == BigEnough(rect) /\ (Resizing => BigEnough(active_resize.start))

GestureInv == PointerTypes /\ AtRest /\ TitlebarAlone /\ OneGesture

ResizeInv == RoomyMonitor /\ GestureInv /\ MinSize /\ OppositeEdgesFixed

-----------------------------------------------------------------------------
(* The geometry.                                                           *)

\* Points, sums and differences of points are points; a window moved is a
\* window of the same size.
LEMMA PointTypes ==
    /\ \A r \in Window : Origin(r) \in Spot
    /\ \A p, q \in Spot : Plus(p, q) \in Spot /\ Minus(p, q) \in Spot
    /\ \A p, q, r \in Spot : ManualMoveOuter(p, q, r) \in Spot
    /\ \A p \in Spot, r \in Window :
          At(p, r) \in Window /\ (BigEnough(r) => BigEnough(At(p, r)))
  <1>1. \A r \in Window : Origin(r) \in Spot
    BY DEF Origin, Point, Spot, Window, Spanned
  <1>2. \A p, q \in Spot : Plus(p, q) \in Spot /\ Minus(p, q) \in Spot
    BY DEF Plus, Minus, Point, Spot
  <1>3. \A p, q, r \in Spot : ManualMoveOuter(p, q, r) \in Spot
    BY <1>2 DEF ManualMoveOuter
  <1>4. \A p \in Spot, r \in Window :
           At(p, r) \in Window /\ (BigEnough(r) => BigEnough(At(p, r)))
    BY GesturesAssumption DEF At, Rect, Span, Length, Spot, Window, Spanned, BigEnough
  <1> QED
    BY <1>1, <1>2, <1>3, <1>4

\* A screen position is a point.
LEMMA ScreenSpot == Screen \subseteq Spot
  BY GesturesAssumption DEF Screen, Spot

\* The halves of a span are spans, and big enough when it takes two of the
\* smallest windows.
LEMMA HalfFacts ==
    ASSUME NEW s \in Spanned
    PROVE  /\ LowHalf(s, MinViewer) \in Spanned
           /\ HighHalf(s, MinViewer) \in Spanned
           /\ 2 * MinViewer <= Length(s) =>
                 /\ Length(LowHalf(s, MinViewer)) >= MinViewer
                 /\ Length(HighHalf(s, MinViewer)) >= MinViewer
  <1>1. /\ Half(s, MinViewer) \in Int
        /\ 2 * MinViewer <= Length(s) =>
              /\ MinViewer <= Half(s, MinViewer)
              /\ Half(s, MinViewer) <= Length(s) - MinViewer
    BY GesturesAssumption DEF Half, High, Low, Length, Spanned
  <1> DEFINE h == Half(s, MinViewer)
  <1>2. /\ LowHalf(s, MinViewer) = Span(s.lo, s.lo + h)
        /\ HighHalf(s, MinViewer) = Span(s.lo + h, s.lo + h + High(Length(s) - h, 1))
    BY DEF LowHalf, HighHalf
  <1> HIDE DEF h
  <1>3. h \in Int /\ (2 * MinViewer <= Length(s) => MinViewer <= h /\ h <= Length(s) - MinViewer)
    BY <1>1 DEF h
  <1> QED
    BY <1>2, <1>3, GesturesAssumption DEF Span, High, Length, Spanned

\* Every tile is a window, and big enough on a roomy monitor.
LEMMA TileFacts ==
    /\ \A edges : /\ TileRectForEdges(Monitor, edges, MinViewer) \in Window
                  /\ RoomyMonitor => BigEnough(TileRectForEdges(Monitor, edges, MinViewer))
    /\ \A side : /\ LeftRightTileRect(Monitor, side, Inset, MinViewer) \in Window
                 /\ RoomyMonitor => BigEnough(LeftRightTileRect(Monitor, side, Inset, MinViewer))
  <1> DEFINE Good(s) == s \in Spanned /\ (RoomyMonitor => Length(s) >= MinViewer)
  <1>1. /\ Monitor.x \in Spanned /\ Monitor.y \in Spanned
        /\ RoomyMonitor => 2 * MinViewer <= Length(Monitor.x)
        /\ RoomyMonitor => 2 * MinViewer <= Length(Monitor.y)
        /\ Monitor.y.lo = 0 /\ Monitor.y.hi = Height
        /\ MinViewer <= Length(Monitor.x) /\ MinViewer <= Length(Monitor.y)
    BY GesturesAssumption DEF RoomyMonitor, Monitor, Rect, Span, Spanned, Length
  <1>2. ASSUME NEW a, NEW b, Good(a), Good(b)
        PROVE  Rect(a, b) \in Window /\ (RoomyMonitor => BigEnough(Rect(a, b)))
    BY <1>2 DEF Rect, Window, BigEnough
  <1>3. /\ Good(Monitor.x) /\ Good(Monitor.y)
        /\ Good(LowHalf(Monitor.x, MinViewer)) /\ Good(HighHalf(Monitor.x, MinViewer))
        /\ Good(LowHalf(Monitor.y, MinViewer)) /\ Good(HighHalf(Monitor.y, MinViewer))
    BY <1>1, HalfFacts
  <1>4. Good(Span(Monitor.y.lo + Inset, High(Monitor.y.hi, Monitor.y.lo + Inset + 1)))
    BY <1>1, GesturesAssumption DEF RoomyMonitor, Span, High, Length, Spanned
  <1> HIDE DEF Good
  <1>5. ASSUME NEW edges
        PROVE  /\ TileRectForEdges(Monitor, edges, MinViewer) \in Window
               /\ RoomyMonitor => BigEnough(TileRectForEdges(Monitor, edges, MinViewer))
    <2>1. PICK a, b : /\ TileRectForEdges(Monitor, edges, MinViewer) = Rect(a, b)
                      /\ a \in {LowHalf(Monitor.x, MinViewer), HighHalf(Monitor.x, MinViewer), Monitor.x}
                      /\ b \in {LowHalf(Monitor.y, MinViewer), HighHalf(Monitor.y, MinViewer), Monitor.y}
      BY Zenon DEF TileRectForEdges
    <2>2. Good(a) /\ Good(b)
      BY <1>3, <2>1
    <2> QED
      BY <1>2, <2>1, <2>2
  <1>6. ASSUME NEW side
        PROVE  /\ LeftRightTileRect(Monitor, side, Inset, MinViewer) \in Window
               /\ RoomyMonitor => BigEnough(LeftRightTileRect(Monitor, side, Inset, MinViewer))
    BY <1>2, <1>3, <1>4 DEF LeftRightTileRect
  <1> QED
    BY <1>5, <1>6

\* What a move snaps to is a tile.
LEMMA SnapFacts ==
    ASSUME NEW c, NEW r, SnapTile(c, r) # None
    PROVE  /\ SnapTile(c, r) \in Window
           /\ RoomyMonitor => BigEnough(SnapTile(c, r))
  <1>1. \/ SnapTile(c, r) = None
        \/ \E side : SnapTile(c, r) = LeftRightTileRect(Monitor, side, Inset, MinViewer)
        \/ \E edges : SnapTile(c, r) = TileRectForEdges(Monitor, edges, MinViewer)
    BY Zenon DEF SnapTile
  <1> QED
    BY <1>1, TileFacts

-----------------------------------------------------------------------------
(* The gestures.                                                           *)

\* A hovered border is a set of edges.
LEMMA HoverFacts == \A pos, r : HoverAt(pos, r) \subseteq Edges
  BY DEF HoverAt, ResizeDirectionAt, EdgeAt, Edges

\* Every event keeps the types.
LEMMA PointerTypeStep ==
    ASSUME PointerTypes, GestureNext
    PROVE  PointerTypes'
  <1>1. ASSUME CursorMoved
        PROVE  PointerTypes'
    <2>1. PICK c \in Screen :
             LET pos == Minus(c, IF Dragging THEN move_state.outer ELSE Origin(rect))
             IN  /\ cursor' = c
                 /\ last_window_cursor' = pos
                 /\ \/ Dragging /\ UpdateManualMove(pos)
                    \/ Resizing /\ UpdateManualResize(pos)
                    \/ rect' = rect
      BY <1>1 DEF CursorMoved
    <2> DEFINE pos == Minus(c, IF Dragging THEN move_state.outer ELSE Origin(rect))
    <2>2. pos \in Spot
      BY PointTypes, ScreenSpot DEF PointerTypes, Dragging, Drag, Idle
    <2>3. UNCHANGED <<active_resize, move_state, left, guest, suppress_next_left_release>>
      BY <1>1 DEF CursorMoved
    <2> HIDE DEF pos
    <2>4. rect' \in Window
      <3>1. CASE Dragging /\ UpdateManualMove(pos)
        BY <2>2, <3>1, PointTypes DEF UpdateManualMove, PointerTypes, Dragging, Drag, Idle
      <3>2. CASE Resizing /\ UpdateManualResize(pos)
        <4> DEFINE at == Plus(Origin(rect), pos)
                   d == active_resize.direction
                   s == active_resize.start
        <4>1. at \in Spot /\ s \in Window
          BY <2>2, <3>2, PointTypes DEF PointerTypes, Resizing
        <4>2. rect' = ClampManualResize(ApplyResizeDirection(s, d, at), d, MinViewer)
          BY <3>2 DEF UpdateManualResize
        <4> HIDE DEF at, d, s
        <4>3. ApplyResizeDirection(s, d, at) \in Window
          BY <4>1 DEF ApplyResizeDirection, Rect, Span, Window, Spanned, Spot
        <4>4. \A r \in Window : ClampManualResize(r, d, MinViewer) \in Window
          BY GesturesAssumption
             DEF ClampManualResize, ClampSpan, Rect, Span, Length, Window, Spanned
        <4> QED
          BY <4>2, <4>3, <4>4
      <3>3. CASE rect' = rect
        BY <3>3 DEF PointerTypes
      <3> QED
        BY <2>1, <3>1, <3>2, <3>3 DEF pos
    <2>5. hover_resize_direction' \subseteq Edges
      BY <1>1, HoverFacts DEF CursorMoved, PointerTypes
    <2> QED
      BY <2>1, <2>2, <2>3, <2>4, <2>5 DEF PointerTypes, pos
  <1>2. ASSUME CursorLeft
        PROVE  PointerTypes'
    BY <1>2 DEF CursorLeft, PointerTypes
  <1>3. ASSUME MouseWheel
        PROVE  PointerTypes'
    <2>1. last_window_cursor' \in Spot
      BY <1>3 DEF MouseWheel, PointerTypes, Point, Spot, Length, Window, Spanned
    <2> QED
      BY <1>3, <2>1 DEF MouseWheel, PointerTypes
  <1>4. ASSUME TitlebarPress
        PROVE  PointerTypes'
    BY <1>4 DEF TitlebarPress, PointerTypes
  <1>5. ASSUME LeftRelease
        PROVE  PointerTypes'
    <2>1. rect' \in Window
      BY <1>5, SnapFacts
         DEF LeftRelease, FinishManualMove, FinishManualResize, ApplySnap, PointerTypes
    <2>2. move_state' \in Drag \cup {Idle}
      <3>1. ReleasedMove \in Drag \cup {Idle}
        <4>1. \/ ReleasedMove = Idle \/ ReleasedMove = move_state
              \/ /\ move_state.type = "pressed"
                 /\ ReleasedMove = [move_state EXCEPT !.type = "released"]
          BY Zenon DEF ReleasedMove
        <4> QED
          BY <4>1 DEF PointerTypes, Drag, Idle
      <3> QED
        BY <1>5, <3>1 DEF LeftRelease, FinishManualMove, FinishManualResize, PointerTypes
    <2>3. active_resize' \in {active_resize, None}
      BY <1>5 DEF LeftRelease, FinishManualResize
    <2>4. /\ UNCHANGED <<cursor, last_window_cursor>>
          /\ left' = FALSE /\ suppress_next_left_release' = FALSE /\ guest' \in {guest, FALSE}
      BY <1>5 DEF LeftRelease
    <2>5. hover_resize_direction' \subseteq Edges
      BY <1>5, HoverFacts DEF LeftRelease, FinishManualMove, FinishManualResize, PointerTypes
    <2>6. move_state' # Idle => move_state # Idle
      <3>1. ReleasedMove # Idle => move_state # Idle
        <4>1. ReleasedMove = Idle \/ move_state.type \in {"pressed", "released"}
          BY Zenon DEF ReleasedMove
        <4> QED
          BY <4>1 DEF Idle
      <3> QED
        BY <1>5, <3>1 DEF LeftRelease, FinishManualMove, FinishManualResize
    <2> QED
      BY <2>1, <2>2, <2>3, <2>4, <2>5, <2>6 DEF PointerTypes
  <1>6. ASSUME NEW alt \in BOOLEAN, NEW bar \in BOOLEAN, LeftPress(alt, bar)
        PROVE  PointerTypes'
    <2>1. move_state' \in Drag \cup {Idle}
      BY <1>6, PointTypes DEF LeftPress, DragFrom, Drag, PointerTypes
    <2>2. active_resize' # None =>
             active_resize' \in [direction: SUBSET Edges, start: Window]
      BY <1>6 DEF LeftPress, BeginManualResize, PointerTypes
    <2>3. /\ UNCHANGED <<rect, cursor, last_window_cursor, suppress_next_left_release,
                         hover_resize_direction>>
          /\ left' = TRUE /\ guest' \in {guest, TRUE}
      BY <1>6 DEF LeftPress
    <2>4. move_state' # Idle => move_state # Idle \/ last_window_cursor # None
      BY <1>6 DEF LeftPress
    <2> QED
      BY <2>1, <2>2, <2>3, <2>4 DEF PointerTypes
  <1>7. ASSUME MoveRequested
        PROVE  PointerTypes'
    <2> DEFINE outer == ManualMoveOuter(move_state.outer, move_state.start, last_window_cursor)
    <2>1. outer \in Spot
      BY <1>7, PointTypes DEF MoveRequested, PointerTypes, Drag, Idle
    <2>2. rect' \in Window /\ move_state' \in Drag \cup {Idle}
      <3>1. At(outer, rect) \in Window
        BY <2>1, PointTypes DEF PointerTypes
      <3> HIDE DEF outer
      <3> QED
        BY <1>7, <3>1, SnapFacts DEF MoveRequested, ApplySnap, PointerTypes, Drag, Idle, outer
    <2>3. UNCHANGED <<cursor, last_window_cursor, active_resize, left, guest,
                      suppress_next_left_release>>
      BY <1>7 DEF MoveRequested
    <2>4. hover_resize_direction' \subseteq Edges /\ last_window_cursor \in Spot
      BY <1>7 DEF MoveRequested, PointerTypes, Idle
    <2> QED
      BY <2>2, <2>3, <2>4 DEF PointerTypes
  <1>8. ASSUME ReleaseGraceOver
        PROVE  PointerTypes'
    BY <1>8 DEF ReleaseGraceOver, PointerTypes
  <1> QED
    BY <1>1, <1>2, <1>3, <1>4, <1>5, <1>6, <1>7, <1>8 DEF GestureNext

\* A press begins one gesture and its release ends it, whatever happens between.
LEMMA GestureStep ==
    ASSUME PointerTypes, AtRest, TitlebarAlone, OneGesture, GestureNext
    PROVE  AtRest' /\ TitlebarAlone' /\ OneGesture'
  <1>1. ASSUME CursorMoved
        PROVE  AtRest' /\ TitlebarAlone' /\ OneGesture'
    BY <1>1 DEF CursorMoved, AtRest, TitlebarAlone, OneGesture, Dragging, Resizing, PointerTypes, Idle
  <1>2. ASSUME CursorLeft
        PROVE  AtRest' /\ TitlebarAlone' /\ OneGesture'
    BY <1>2 DEF CursorLeft, AtRest, TitlebarAlone, OneGesture, Dragging, Resizing, PointerTypes, Idle
  <1>3. ASSUME MouseWheel
        PROVE  AtRest' /\ TitlebarAlone' /\ OneGesture'
    BY <1>3 DEF MouseWheel, AtRest, TitlebarAlone, OneGesture, Dragging, Resizing, PointerTypes, Idle
  <1>4. ASSUME TitlebarPress
        PROVE  AtRest' /\ TitlebarAlone' /\ OneGesture'
    BY <1>4 DEF TitlebarPress, AtRest, TitlebarAlone, OneGesture, Dragging, Resizing, PointerTypes, Idle
  <1>5. ASSUME LeftRelease
        PROVE  AtRest' /\ TitlebarAlone' /\ OneGesture'
    <2>1. /\ ReleasedMove.type \in {"idle", "released"}
          /\ build.macos => ReleasedMove.type # "released"
      <3>1. \/ ReleasedMove = Idle
            \/ move_state.type = "released" /\ ReleasedMove = move_state
            \/ /\ move_state.type = "pressed" /\ ~build.macos
               /\ ReleasedMove = [move_state EXCEPT !.type = "released"]
        BY Zenon DEF ReleasedMove
      <3> QED
        BY <3>1 DEF PointerTypes, Drag, Idle, OneGesture
    <2>2. /\ move_state'.type \in {"idle", "released"}
          /\ build.macos => move_state'.type # "released"
      BY <1>5, <2>1
         DEF LeftRelease, FinishManualMove, FinishManualResize, TitlebarAlone, OneGesture, Idle
    <2>3. left' = FALSE /\ suppress_next_left_release' = FALSE /\ build' = build
      BY <1>5 DEF LeftRelease
    <2>4. build.macos => ~Resizing' /\ ~guest'
      BY <1>5 DEF LeftRelease, FinishManualMove, FinishManualResize, OneGesture, Resizing, PointerTypes
    <2> QED
      BY <2>2, <2>3, <2>4 DEF AtRest, TitlebarAlone, OneGesture
  <1>6. ASSUME NEW alt \in BOOLEAN, NEW bar \in BOOLEAN, LeftPress(alt, bar)
        PROVE  AtRest' /\ TitlebarAlone' /\ OneGesture'
    <2>1. /\ move_state'.type \in {"idle", "released"} \/ last_window_cursor # None
          /\ build.macos => move_state'.type # "released"
          /\ move_state'.type = "dragging" => alt /\ last_window_cursor # None
      BY <1>6 DEF LeftPress, DragFrom, Dragging, AtRest, OneGesture
    <2>2. build.macos => ~Resizing /\ ~guest
      BY <1>6 DEF LeftPress, OneGesture
    <2>3. \/ alt /\ last_window_cursor # None /\ UNCHANGED <<active_resize, guest>>
          \/ ~(alt /\ last_window_cursor # None) /\ guest' = guest
          \/ ~(alt /\ last_window_cursor # None) /\ active_resize' = active_resize
      BY <1>6 DEF LeftPress
    <2>4. /\ left' = TRUE /\ build' = build
          /\ suppress_next_left_release' = FALSE
      BY <1>6 DEF LeftPress, AtRest, PointerTypes
    <2> QED
      BY <2>1, <2>2, <2>3, <2>4 DEF AtRest, TitlebarAlone, OneGesture, Dragging, Resizing
  <1>7. ASSUME MoveRequested
        PROVE  AtRest' /\ TitlebarAlone' /\ OneGesture'
    <2>1. /\ move_state'.type \in {"idle", "dragging"}
          /\ move_state'.type = "dragging" => move_state.type = "pressed"
      BY <1>7 DEF MoveRequested, PointerTypes, Drag, Idle
    <2>2. ~build.macos /\ UNCHANGED <<build, left, suppress_next_left_release>>
      BY <1>7 DEF MoveRequested
    <2> QED
      BY <2>1, <2>2 DEF AtRest, TitlebarAlone, OneGesture
  <1>8. ASSUME ReleaseGraceOver
        PROVE  AtRest' /\ TitlebarAlone' /\ OneGesture'
    BY <1>8 DEF ReleaseGraceOver, AtRest, TitlebarAlone, OneGesture, Dragging, Resizing, PointerTypes, Idle
  <1> QED
    BY <1>1, <1>2, <1>3, <1>4, <1>5, <1>6, <1>7, <1>8 DEF GestureNext

\* On a roomy monitor no event makes the window too small, and a resize moves
\* only the edges it took.
LEMMA ResizeStep ==
    ASSUME RoomyMonitor, PointerTypes, OneGesture, MinSize, OppositeEdgesFixed, GestureNext
    PROVE  MinSize' /\ OppositeEdgesFixed'
  <1>1. ASSUME CursorMoved
        PROVE  MinSize' /\ OppositeEdgesFixed'
    <2>1. CASE Dragging
      <3>1. PICK c \in Screen : UpdateManualMove(Minus(c, move_state.outer))
        BY <1>1, <2>1 DEF CursorMoved
      <3>2. BigEnough(rect')
        BY <2>1, <3>1, PointTypes, ScreenSpot
           DEF UpdateManualMove, PointerTypes, Dragging, Drag, Idle, MinSize
      <3>3. UNCHANGED <<active_resize, build>>
        BY <1>1 DEF CursorMoved
      <3>4. build.macos => ~Resizing
        BY <2>1 DEF OneGesture
      <3> QED
        BY <3>2, <3>3, <3>4 DEF MinSize, OppositeEdgesFixed, Resizing
    <2>2. CASE ~Dragging /\ Resizing
      <3>1. PICK c \in Screen : UpdateManualResize(Minus(c, Origin(rect)))
        BY <1>1, <2>2 DEF CursorMoved
      <3> DEFINE at == Plus(Origin(rect), Minus(c, Origin(rect)))
                 d == active_resize.direction
                 s == active_resize.start
      <3>2. at \in Spot /\ s \in Window
        BY <2>2, PointTypes, ScreenSpot DEF PointerTypes, Resizing
      <3>3. rect' = ClampManualResize(ApplyResizeDirection(s, d, at), d, MinViewer)
        BY <3>1 DEF UpdateManualResize
      <3>4. BigEnough(s)
        BY <2>2 DEF MinSize
      <3>5. UNCHANGED <<active_resize, build>>
        BY <1>1 DEF CursorMoved
      <3> HIDE DEF at, d, s
      <3>6. /\ rect'.x = ClampSpan(Span(IF "west" \in d THEN at.x ELSE s.x.lo,
                                        IF "east" \in d THEN at.x ELSE s.x.hi),
                                   "west" \in d, MinViewer)
            /\ rect'.y = ClampSpan(Span(IF "north" \in d THEN at.y ELSE s.y.lo,
                                        IF "south" \in d THEN at.y ELSE s.y.hi),
                                   "north" \in d, MinViewer)
        BY <3>3 DEF ClampManualResize, ApplyResizeDirection, Rect
      <3>7. at.x \in Int /\ at.y \in Int /\ s.x \in Spanned /\ s.y \in Spanned
        BY <3>2 DEF Spot, Window
      <3>8. /\ Length(rect'.x) >= MinViewer
            /\ "west" \in d \/ rect'.x.lo = s.x.lo
            /\ "east" \in d \/ rect'.x.hi = s.x.hi
        BY <3>4, <3>6, <3>7, GesturesAssumption DEF ClampSpan, Span, Length, Spanned, BigEnough
      <3>9. /\ Length(rect'.y) >= MinViewer
            /\ "north" \in d \/ rect'.y.lo = s.y.lo
            /\ "south" \in d \/ rect'.y.hi = s.y.hi
        BY <3>4, <3>6, <3>7, GesturesAssumption DEF ClampSpan, Span, Length, Spanned, BigEnough
      <3> QED
        BY <3>4, <3>5, <3>8, <3>9 DEF MinSize, BigEnough, OppositeEdgesFixed, Resizing, d, s
    <2>3. CASE ~Dragging /\ ~Resizing
      BY <1>1, <2>3 DEF CursorMoved, MinSize, OppositeEdgesFixed, Resizing
    <2> QED
      BY <2>1, <2>2, <2>3
  <1>2. ASSUME CursorLeft
        PROVE  MinSize' /\ OppositeEdgesFixed'
    BY <1>2 DEF CursorLeft, MinSize, OppositeEdgesFixed, Resizing
  <1>3. ASSUME MouseWheel
        PROVE  MinSize' /\ OppositeEdgesFixed'
    BY <1>3 DEF MouseWheel, MinSize, OppositeEdgesFixed, Resizing
  <1>4. ASSUME TitlebarPress
        PROVE  MinSize' /\ OppositeEdgesFixed'
    BY <1>4 DEF TitlebarPress, MinSize, OppositeEdgesFixed, Resizing
  <1>5. ASSUME LeftRelease
        PROVE  MinSize' /\ OppositeEdgesFixed'
    <2>1. BigEnough(rect')
      BY <1>5, SnapFacts
         DEF LeftRelease, FinishManualMove, FinishManualResize, ApplySnap, MinSize
    <2>2. active_resize' \in {active_resize, None} /\ build' = build
      BY <1>5 DEF LeftRelease, FinishManualResize
    <2>3. build.macos => ~Resizing'
      BY <1>5 DEF LeftRelease, FinishManualResize, OneGesture, Resizing
    <2> QED
      BY <2>1, <2>2, <2>3 DEF MinSize, OppositeEdgesFixed, Resizing
  <1>6. ASSUME NEW alt \in BOOLEAN, NEW bar \in BOOLEAN, LeftPress(alt, bar)
        PROVE  MinSize' /\ OppositeEdgesFixed'
    <2>1. CASE active_resize' = active_resize
      BY <1>6, <2>1 DEF LeftPress, MinSize, OppositeEdgesFixed, Resizing
    <2>2. CASE BeginManualResize
      <3>1. active_resize'.start = rect /\ rect' = rect
        BY <1>6, <2>2 DEF LeftPress, BeginManualResize
      <3> QED
        BY <3>1 DEF MinSize, BigEnough, OppositeEdgesFixed
    <2> QED
      BY <1>6, <2>1, <2>2 DEF LeftPress
  <1>7. ASSUME MoveRequested
        PROVE  MinSize' /\ OppositeEdgesFixed'
    <2> DEFINE outer == ManualMoveOuter(move_state.outer, move_state.start, last_window_cursor)
    <2>1. outer \in Spot
      BY <1>7, PointTypes DEF MoveRequested, PointerTypes, Drag, Idle
    <2>2. At(outer, rect) \in Window /\ BigEnough(At(outer, rect))
      BY <2>1, PointTypes DEF PointerTypes, MinSize
    <2> HIDE DEF outer
    <2>3. BigEnough(rect')
      BY <1>7, <2>2, SnapFacts DEF MoveRequested, ApplySnap, outer
    <2>4. ~build.macos /\ UNCHANGED <<build, active_resize>>
      BY <1>7 DEF MoveRequested
    <2> QED
      BY <2>3, <2>4 DEF MinSize, OppositeEdgesFixed, Resizing
  <1>8. ASSUME ReleaseGraceOver
        PROVE  MinSize' /\ OppositeEdgesFixed'
    BY <1>8 DEF ReleaseGraceOver, MinSize, OppositeEdgesFixed, Resizing
  <1> QED
    BY <1>1, <1>2, <1>3, <1>4, <1>5, <1>6, <1>7, <1>8 DEF GestureNext

-----------------------------------------------------------------------------
(* The theorems.                                                           *)

\* A window before its first event.
LEMMA GestureInitInv == GestureInit => GestureInv /\ (RoomyMonitor => ResizeInv)
  <1> SUFFICES ASSUME GestureInit PROVE GestureInv /\ (RoomyMonitor => ResizeInv)
    OBVIOUS
  <1>1. PointerTypes
    <2>1. rect \in Window /\ cursor \in Screen
      BY GesturesAssumption DEF GestureInit, Window, Spanned, Rect, Span, Screen, Point
    <2> QED
      BY <2>1 DEF GestureInit, PointerTypes
  <1>2. AtRest /\ TitlebarAlone /\ OneGesture
    BY DEF GestureInit, AtRest, TitlebarAlone, OneGesture, Idle, Resizing
  <1>3. MinSize /\ OppositeEdgesFixed
    BY GesturesAssumption
       DEF GestureInit, MinSize, BigEnough, OppositeEdgesFixed, Resizing, Rect, Span, Length
  <1> QED
    BY <1>1, <1>2, <1>3 DEF GestureInv, ResizeInv

\* Every event keeps the invariants.
LEMMA GestureNextInv ==
    /\ GestureInv /\ [GestureNext]_GestureVars => GestureInv'
    /\ ResizeInv /\ [GestureNext]_GestureVars => ResizeInv'
  <1>1. ASSUME GestureInv, [GestureNext]_GestureVars PROVE GestureInv'
    <2>1. CASE GestureNext
      BY <1>1, <2>1, PointerTypeStep, GestureStep DEF GestureInv
    <2>2. CASE UNCHANGED GestureVars
      BY <1>1, <2>2
         DEF GestureInv, PointerTypes, AtRest, TitlebarAlone, OneGesture, Dragging, Resizing, GestureVars
    <2> QED
      BY <1>1, <2>1, <2>2
  <1>2. ASSUME ResizeInv, [GestureNext]_GestureVars PROVE MinSize' /\ OppositeEdgesFixed'
    <2>1. CASE GestureNext
      BY <1>2, <2>1, ResizeStep DEF ResizeInv, GestureInv
    <2>2. CASE UNCHANGED GestureVars
      BY <1>2, <2>2 DEF ResizeInv, MinSize, OppositeEdgesFixed, Resizing, GestureVars
    <2> QED
      BY <1>2, <2>1, <2>2
  <1> QED
    BY <1>1, <1>2 DEF ResizeInv, RoomyMonitor

\* On macOS every button press that was sent to the guest is followed by its
\* release (the MouseInput arm of window_event, finish_manual_move,
\* finish_manual_resize).
THEOREM ButtonsAlwaysBalanced == GestureSpec => []ButtonsBalanced
  <1>1. GestureInv => ButtonsBalanced
    BY DEF GestureInv, OneGesture, ButtonsBalanced
  <1> QED
    BY GestureInitInv, GestureNextInv, <1>1, PTL DEF GestureSpec

\* No move, resize or suppressed release outlives the button that began it.
THEOREM GesturesAlwaysEnd == GestureSpec => []GestureEnds
  <1>1. ASSUME GestureInv PROVE GestureEnds
    <2>1. move_state.type = "idle" => move_state = Idle
      BY <1>1 DEF GestureInv, PointerTypes, Drag
    <2> QED
      BY <1>1, <2>1 DEF GestureInv, AtRest, OneGesture, GestureEnds, Dragging
  <1> QED
    BY GestureInitInv, GestureNextInv, <1>1, PTL DEF GestureSpec

\* A resize on macOS moves only the edges it took (apply_resize_direction,
\* clamp_manual_resize), on every monitor that takes two windows side by side.
THEOREM EdgesAlwaysFixed == RoomyMonitor /\ GestureSpec => []OppositeEdgesFixed
  <1>1. ResizeInv => OppositeEdgesFixed
    BY DEF ResizeInv
  <1> QED
    BY GestureInitInv, GestureNextInv, <1>1, PTL DEF GestureSpec

=============================================================================
