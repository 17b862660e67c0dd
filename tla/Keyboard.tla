------------------------------ MODULE Keyboard ------------------------------
(***************************************************************************)
(* The keyboard of the viewer (client/src/viewer/app.rs: handle_keyboard,  *)
(* handle_ime, the Focused and CloseRequested events) and what it sends to *)
(* the compositor.                                                         *)
(*                                                                         *)
(* Windows are numbered as on the server; what a composer holds back is    *)
(* left to Composer.  winit tells of ModifiersChanged before the key that  *)
(* changes them; a release may be lost where macOS takes a chord itself.   *)
(***************************************************************************)
EXTENDS Integers, Sequences, FiniteSets, Option

CONSTANTS
    Keys,         \* physical keys in use
    Terminals,    \* windows with the title of a terminal
    Fuel          \* bound: host events of a behaviour

AllKeys == {"ControlLeft", "ControlRight", "SuperLeft", "ShiftLeft",
            "KeyT", "Space", "Enter", "Equal"}

ASSUME KeyboardAssumption == Keys \subseteq AllKeys /\ Fuel \in Nat

VARIABLES
    views,     \* self.windows
    focused,   \* the window that has the focus of the host, or None
    held,      \* the keys that are down
    modifiers, \* self.modifiers
    pressed_guest_keys,               \* keycode -> window
    pressed_guest_modifier_counts,    \* keycode -> count
    inbox,     \* InputEvents on their way to the compositor
    texts,     \* number of texts typed
    lost,      \* a release was lost
    fuel

keyboard == <<views, focused, held, modifiers, pressed_guest_keys,
              pressed_guest_modifier_counts, inbox, texts, lost, fuel>>

\* guest_modifier_keycode: Command is the guest's Ctrl.
GuestModifier == [ControlLeft |-> "lctrl", SuperLeft |-> "lctrl",
                  ControlRight |-> "rctrl", ShiftLeft |-> "shift"]
ModifierKeys == DOMAIN GuestModifier

\* shortcut_keycode and named_keycode of the other keys.
ShortcutKeycode == [KeyT |-> "t", Space |-> "space", Enter |-> "enter", Equal |-> "equal"]
Named == {"Enter"}

Keycode(p) == IF p \in ModifierKeys THEN GuestModifier[p] ELSE ShortcutKeycode[p]

\* ModifiersState of the keys that are down.
ModifiersOf(keys) ==
    {m \in {"control"} : keys \cap {"ControlLeft", "ControlRight"} # {}}
    \cup {m \in {"super"} : "SuperLeft" \in keys}
    \cup {m \in {"shift"} : "ShiftLeft" \in keys}

\* shortcut_modifiers_active.
Shortcut(mods) == mods \cap {"control", "super"} # {}

Key(w, k, state) == [type |-> "key", id |-> w, key |-> k, state |-> state]
Focus(w, on) == [type |-> "focus", id |-> w, focused |-> on]
Text(w, n, kind) == [type |-> "text", id |-> w, n |-> n, kind |-> kind]

Without(f, ks) == [k \in DOMAIN f \ ks |-> f[k]]
With(f, k, v) == [j \in DOMAIN f \cup {k} |-> IF j = k THEN v ELSE f[j]]

-----------------------------------------------------------------------------
(* The state of the guest's keys as the viewer tracks it, and the events   *)
(* that a change of it sends.                                              *)

State(pressed, counts, sends, mods) ==
    [pressed |-> pressed, counts |-> counts, sends |-> sends, mods |-> mods]
KeysNow(mods) == State(pressed_guest_keys, pressed_guest_modifier_counts, <<>>, mods)

KeysBecome(s) ==
    /\ pressed_guest_keys' = s.pressed
    /\ pressed_guest_modifier_counts' = s.counts
    /\ inbox' = inbox \o s.sends
    /\ modifiers' = s.mods

\* send_tracked_guest_key: a release goes to the window of the press.
SendTrackedKey(s, w, k, state) ==
    IF state = "pressed"
    THEN [s EXCEPT !.pressed = With(@, k, w), !.sends = Append(@, Key(w, k, state))]
    ELSE IF k \in DOMAIN s.pressed
    THEN [s EXCEPT !.pressed = Without(@, {k}),
                   !.sends = Append(@, Key(s.pressed[k], k, state))]
    ELSE s

\* guest_modifier_refcount_should_forward: the first press, the last release.
ModifierForward(s, k, state) ==
    IF state = "pressed" THEN k \notin DOMAIN s.counts
    ELSE k \in DOMAIN s.counts /\ s.counts[k] = 1

ModifierCounts(s, k, state) ==
    LET n == IF k \in DOMAIN s.counts THEN s.counts[k] ELSE 0
    IN  CASE state = "pressed" -> With(s.counts, k, n + 1)
          [] state = "released" /\ n > 1 -> With(s.counts, k, n - 1)
          [] state = "released" /\ n <= 1 -> Without(s.counts, {k})

\* send_tracked_guest_modifier_key.
SendTrackedModifier(s, w, k, state) ==
    LET counted == [s EXCEPT !.counts = ModifierCounts(s, k, state)]
    IN  IF ModifierForward(s, k, state) THEN SendTrackedKey(counted, w, k, state)
        ELSE counted

\* The releases of a set of keys, in some order.
Releases(w, ks) ==
    CHOOSE q \in [1 .. Cardinality(ks) -> {Key(w, k, "released") : k \in ks}] :
       \A k \in ks : \E i \in DOMAIN q : q[i].key = k

\* release_window_guest_keys.
ReleaseWindowKeys(s, w) ==
    LET ks == {k \in DOMAIN s.pressed : s.pressed[k] = w}
    IN  [s EXCEPT !.pressed = Without(@, ks), !.counts = Without(@, ks),
                  !.sends = @ \o Releases(w, ks)]

\* release_guest_key_if_pressed.
ReleaseKey(s, k) ==
    SendTrackedKey([s EXCEPT !.counts = Without(@, {k})], None, k, "released")

\* clear_stale_shortcut_modifiers_for_text: Ctrl without the guest's left
\* Ctrl pressed is taken for stale.
ClearStale(s) ==
    IF Shortcut(s.mods) /\ "lctrl" \notin DOMAIN s.pressed THEN [s EXCEPT !.mods = {}]
    ELSE s

-----------------------------------------------------------------------------
(* handle_keyboard, by what the event is.                                  *)

\* is_macos_emoji_picker_shortcut.
PickerPress(s, p, state) ==
    /\ p = "Space" /\ state = "pressed"
    /\ {"super", "control"} \subseteq s.mods /\ "shift" \notin s.mods

\* Mutant: the release of any key of a shortcut is swallowed.
PickerReleaseAny(s, p, state) == state = "released" /\ Shortcut(s.mods)

\* is_emoji_picker_release_to_swallow.
PickerRelease(s, p, state) ==
    p = "Space" /\ state = "released" /\ {"super", "control"} \subseteq s.mods

\* is_terminal_new_tab_shortcut and the keys it is mapped to.
NewTab(s, w, p, state, repeat) ==
    /\ p = "KeyT" /\ state = "pressed" /\ ~repeat
    /\ s.mods = {"super"} /\ w \in Terminals

NewTabKeys(s, w) ==
    LET ctrl(state) == IF "lctrl" \in DOMAIN s.pressed THEN <<>>
                       ELSE <<Key(w, "lctrl", state)>>
    IN  [s EXCEPT !.sends = @ \o ctrl("pressed")
            \o <<Key(w, "shift", "pressed"), Key(w, "t", "pressed"),
                 Key(w, "t", "released"), Key(w, "shift", "released")>>
            \o ctrl("released")]

\* handle_view_shortcut, and the other shortcuts that stay in the viewer.
ViewShortcut(s, p, state) == p = "Equal" /\ state = "pressed" /\ Shortcut(s.mods)

\* What the key types: nothing printable with Ctrl or a named key.
Printable(p, keys) == p \notin Named /\ "control" \notin ModifiersOf(keys)

\* The letter of a key: with Shift it is a shifted one.
KeyText(s, w, keys) ==
    [s EXCEPT !.sends = Append(@, Text(w, texts + 1,
        IF "shift" \in ModifiersOf(keys) THEN "shifted" ELSE "ascii"))]

\* A key that is no modifier.
PlainKey(s0, w, p, state, repeat, keys) ==
    LET s == IF state = "pressed" /\ Printable(p, keys) THEN ClearStale(s0) ELSE s0
        k == ShortcutKeycode[p]
    IN  IF Shortcut(s.mods)
        THEN IF ViewShortcut(s, p, state) THEN s ELSE SendTrackedKey(s, w, k, state)
        ELSE IF p \in Named \/ state = "released" THEN SendTrackedKey(s, w, k, state)
        ELSE IF Printable(p, keys) THEN KeyText(s, w, keys)
        ELSE s

HandleKeyboard(s, w, p, state, repeat, keys) ==
    IF p \in ModifierKeys THEN SendTrackedModifier(s, w, GuestModifier[p], state)
    ELSE IF PickerPress(s, p, state) \/ PickerRelease(s, p, state) THEN s
    ELSE IF NewTab(s, w, p, state, repeat) THEN NewTabKeys(s, w)
    ELSE PlainKey(s, w, p, state, repeat, keys)

-----------------------------------------------------------------------------
(* Events of the host.                                                     *)

Event == fuel > 0 /\ fuel' = fuel - 1

Typed(s) == texts' = texts + Cardinality({i \in DOMAIN s.sends : s.sends[i].type = "text"})

\* A key goes down, or repeats.
KeyPressed(p) ==
    LET repeat == p \in held
        keys   == held \cup {p}
        mods   == IF p \in ModifierKeys THEN ModifiersOf(keys) ELSE modifiers
        s      == HandleKeyboard(KeysNow(mods), focused, p, "pressed", repeat, keys)
    IN  /\ Event /\ focused # None
        /\ repeat => p \notin ModifierKeys
        /\ held' = keys
        /\ KeysBecome(s) /\ Typed(s)
        /\ UNCHANGED <<views, focused, lost>>

\* A key goes up.
KeyReleased(p) ==
    LET keys == held \ {p}
        mods == IF p \in ModifierKeys THEN ModifiersOf(keys) ELSE modifiers
        s    == HandleKeyboard(KeysNow(mods), focused, p, "released", FALSE, keys)
    IN  /\ Event /\ focused # None
        /\ p \in held /\ held' = keys
        /\ KeysBecome(s)
        /\ UNCHANGED <<views, focused, texts, lost>>

\* A key goes up and no window of the viewer is told: another application
\* has the focus, or macOS took the chord.
KeyUnseen(p) ==
    /\ Event /\ p \in held
    /\ focused = None \/ p \in ModifierKeys
    /\ held' = held \ {p}
    /\ lost' = (lost \/ focused # None)
    /\ UNCHANGED <<views, focused, modifiers, pressed_guest_keys,
                   pressed_guest_modifier_counts, inbox, texts>>

\* Focused(false) for the one window, Focused(true) for the other.
FocusMoves(w) ==
    LET off == IF focused = None THEN KeysNow(modifiers)
               ELSE LET s == ReleaseWindowKeys(KeysNow(modifiers), focused)
                    IN  [s EXCEPT !.sends = Append(@, Focus(focused, FALSE))]
        s   == IF w = None THEN off
               ELSE [off EXCEPT !.sends = Append(@, Focus(w, TRUE))]
    IN  /\ Event /\ w # focused
        /\ focused' = w
        /\ KeysBecome(s)
        /\ UNCHANGED <<views, held, texts, lost>>

\* CloseRequested.
CloseRequested ==
    LET s == ReleaseWindowKeys(KeysNow(modifiers), focused)
    IN  /\ Event /\ focused # None
        /\ KeysBecome([s EXCEPT !.sends = Append(@, [type |-> "close", id |-> focused])])
        /\ UNCHANGED <<views, focused, held, texts, lost>>

\* Ime::Enabled: clear_shortcut_modifier_cache with the guest's Ctrl.
ImeEnabled ==
    /\ Event /\ focused # None /\ Shortcut(modifiers)
    /\ KeysBecome([ReleaseKey(KeysNow(modifiers), "lctrl") EXCEPT !.mods = {}])
    /\ UNCHANGED <<views, focused, held, texts, lost>>

\* Ime::Commit of text that is not ASCII, or a preedit.
ImeText(kind) ==
    LET s == ClearStale(KeysNow(modifiers))
    IN  /\ Event /\ focused # None
        /\ KeysBecome(IF Shortcut(s.mods) THEN s
                  ELSE [s EXCEPT !.sends = Append(@, Text(focused, texts + 1, kind))])
        /\ texts' = IF Shortcut(s.mods) THEN texts ELSE texts + 1
        /\ UNCHANGED <<views, focused, held, lost>>

\* RemoteWindowEvent::Created and Destroyed: remove_window releases its keys.
ViewCreated(w) ==
    /\ views' = views \cup {w}
    /\ UNCHANGED <<focused, held, modifiers, pressed_guest_keys,
                   pressed_guest_modifier_counts, inbox, texts, lost, fuel>>

ViewDestroyed(w) ==
    /\ views' = views \ {w}
    /\ focused' = IF focused = w THEN None ELSE focused
    /\ KeysBecome(ReleaseWindowKeys(KeysNow(modifiers), w))
    /\ UNCHANGED <<held, texts, lost, fuel>>

KeyboardNext ==
    \/ \E p \in Keys : KeyPressed(p) \/ KeyReleased(p) \/ KeyUnseen(p)
    \/ \E w \in views \cup {None} : FocusMoves(w)
    \/ CloseRequested \/ ImeEnabled
    \/ \E kind \in {"other", "preedit"} : ImeText(kind)

=============================================================================
