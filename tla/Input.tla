------------------------------- MODULE Input --------------------------------
(***************************************************************************)
(* The viewer's keyboard and the compositor's seat with the two channels   *)
(* between them: InputEvents one way, the windows' lives the other, both   *)
(* in order and with any delay.                                            *)
(***************************************************************************)
EXTENDS Seat

VARIABLES
    button     \* the viewer window the left button was pressed in, or None

vars == <<keyboard, seat, button>>

Init ==
    /\ windows = {1} /\ next_window_id = 2
    /\ active_window_id = 1
    /\ text_inputs \in {<<>>, [c \in {Client(1)} |->
          [enabled |-> FALSE, pending_enabled |-> None, focused_surface |-> 1]]}
    /\ pending_text_input = <<>>
    /\ pressed = {} /\ pointer = [focus |-> None, grab |-> None]
    /\ delivered = <<>> /\ outbox = <<>>
    /\ views = {1} /\ focused = 1
    /\ held = {} /\ modifiers = {}
    /\ pressed_guest_keys = <<>> /\ pressed_guest_modifier_counts = <<>>
    /\ inbox = <<>> /\ texts = 0 /\ lost = FALSE /\ fuel = Fuel
    /\ button = None

HostStep == KeyboardNext /\ UNCHANGED <<seat, button>>

\* MouseInput: a press focuses the window and goes to the guest, its release
\* comes to the same window.
Button(w, state) == [type |-> "button", id |-> w, state |-> state]

ButtonPressed ==
    /\ Event /\ focused # None /\ button = None
    /\ button' = focused
    /\ inbox' = inbox \o <<Focus(focused, TRUE), Button(focused, "pressed")>>
    /\ UNCHANGED <<views, focused, held, modifiers, pressed_guest_keys,
                   pressed_guest_modifier_counts, texts, lost, seat>>

ButtonReleased ==
    /\ Event /\ button # None
    /\ button' = None
    /\ inbox' = IF button \in views THEN Append(inbox, Button(button, "released")) ELSE inbox
    /\ UNCHANGED <<views, focused, held, modifiers, pressed_guest_keys,
                   pressed_guest_modifier_counts, texts, lost, seat>>

ClientStep ==
    /\ \/ Event /\ ClientNext
       \/ /\ \E c \in Clients, on \in BOOLEAN : RequestEnable(c, on)
          /\ UNCHANGED fuel
    /\ UNCHANGED <<views, focused, held, modifiers, pressed_guest_keys,
                   pressed_guest_modifier_counts, inbox, texts, lost, button>>

\* The compositor takes an InputEvent from its channel.
ServerHandles ==
    /\ inbox # <<>>
    /\ HandleInput(Head(inbox))
    /\ inbox' = Tail(inbox)
    /\ UNCHANGED <<views, focused, held, modifiers, pressed_guest_keys,
                   pressed_guest_modifier_counts, texts, lost, fuel, button>>

\* The viewer takes a WindowEvent from its channel.
ViewerHandles ==
    /\ outbox # <<>>
    /\ LET e == Head(outbox)
       IN  IF e.type = "created"
           THEN ViewCreated(e.id)
           ELSE ViewDestroyed(e.id)
    /\ outbox' = Tail(outbox)
    /\ UNCHANGED <<windows, next_window_id, active_window_id, text_inputs,
                   pending_text_input, pressed, pointer, delivered, button>>

Next == HostStep \/ ButtonPressed \/ ButtonReleased \/ ClientStep \/ ServerHandles \/ ViewerHandles

Spec == Init /\ [][Next]_vars

-----------------------------------------------------------------------------
TypeOK ==
    /\ windows \subseteq Ids /\ views \subseteq Ids
    /\ focused \in views \cup {None}
    /\ active_window_id \in Ids \cup {None}
    /\ held \subseteq Keys /\ modifiers \subseteq {"control", "super", "shift"}
    /\ DOMAIN pressed_guest_keys \subseteq {Keycode(p) : p \in AllKeys}
    /\ \A k \in DOMAIN pressed_guest_modifier_counts :
          /\ k \in DOMAIN pressed_guest_keys
          /\ pressed_guest_modifier_counts[k] \in Nat \ {0}
    /\ Len(pending_text_input) <= PendingLimit
    /\ button \in Ids \cup {None}

Drained == inbox = <<>> /\ outbox = <<>>

\* No key but Space stays down in the guest: unless the host lost a release,
\* a key the guest sees pressed is held, through every change of focus, every
\* shortcut and every window that goes away.
NoStuckKey ==
    Drained /\ ~lost => pressed \ {"space"} \subseteq {Keycode(p) : p \in held}

\* A swallowed release belongs to a swallowed press: Space does not stay down.
NoStuckSpace == Drained /\ ~lost /\ "Space" \notin held => "space" \notin pressed

\* The focus is with a window that lives, and the text inputs that were told
\* "enter" are those of its client, for that window.
FocusAgrees ==
    /\ active_window_id # None => active_window_id \in windows
    /\ \A c \in DOMAIN text_inputs :
          text_inputs[c].focused_surface =
              IF active_window_id # None /\ Client(active_window_id) = c
              THEN active_window_id ELSE None

\* Text reaches the window it was typed in unless that is gone, and text that
\* is not typed as keys reaches it in the order it was typed and once, however
\* long it waited.  (What was typed in a window that is gone by then goes to
\* whatever has the focus, and there the order may be lost: the queue is only
\* flushed by a commit.)
TextInOrder ==
    /\ \A i \in DOMAIN delivered : delivered[i].to = delivered[i].id \/ delivered[i].gone
    /\ \A i, j \in DOMAIN delivered :
          /\ i < j /\ delivered[i].id = delivered[j].id
          /\ delivered[i].kind = "other" /\ delivered[j].kind = "other"
          /\ ~delivered[i].gone /\ ~delivered[j].gone
          => delivered[i].n < delivered[j].n

=============================================================================
