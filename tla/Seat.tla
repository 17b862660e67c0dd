-------------------------------- MODULE Seat --------------------------------
(***************************************************************************)
(* The seat of the compositor (server/src/wayland_session/mod.rs): which   *)
(* window has the focus, the keys and the button its clients see pressed,  *)
(* and text-input-v3 with its queue of text that waits for a client to     *)
(* enable its text input.                                                  *)
(*                                                                         *)
(* A client has at most one text input.  smithay (external) keeps the set  *)
(* of pressed keys, and holds the pointer on the surface of a press until  *)
(* the button is released.  It extends Keyboard for the InputEvents it is  *)
(* sent.                                                                   *)
(***************************************************************************)
EXTENDS Keyboard, SequencesExt

CONSTANTS
    Ids,             \* windows, numbered in the order of their creation
    PendingLimit     \* PENDING_TEXT_INPUT_LIMIT

Client(w) == w % 2
Clients == {Client(w) : w \in Ids}

ASSUME SeatAssumption ==
    /\ Ids \subseteq Nat \ {0} /\ 1 \in Ids /\ PendingLimit \in Nat
    /\ None \notin Ids /\ None \notin BOOLEAN

VARIABLES
    windows, next_window_id,
    active_window_id,
    text_inputs,        \* client -> [enabled, pending_enabled, focused_surface]
    pending_text_input,
    pressed,            \* the keyboard's pressed keys
    pointer,            \* [focus, grab]: windows or None
    delivered,          \* texts a client got: [n, kind, id, to, gone]
    outbox              \* WindowEvents on their way to the viewer

seat == <<windows, next_window_id, active_window_id, text_inputs, pending_text_input, pressed,
          pointer, delivered, outbox>>

\* What the handlers of text and focus change.
Seated(active, inputs, queue, keys, got) ==
    [active |-> active, inputs |-> inputs, queue |-> queue, keys |-> keys, got |-> got]
SeatNow == Seated(active_window_id, text_inputs, pending_text_input, pressed, delivered)
SeatBecome(s) ==
    /\ active_window_id' = s.active
    /\ text_inputs' = s.inputs
    /\ pending_text_input' = s.queue
    /\ pressed' = s.keys
    /\ delivered' = s.got

\* set_text_input_focus: enter for the client of the window, leave for others.
SetTextInputFocus(inputs, w) ==
    [c \in DOMAIN inputs |->
        [inputs[c] EXCEPT !.focused_surface = IF c = Client(w) THEN w ELSE None]]

\* clear_text_input_focus.
ClearTextInputFocus(inputs) ==
    [c \in DOMAIN inputs |-> [inputs[c] EXCEPT !.focused_surface = None]]

\* focus_window: nothing for a window that is gone.
FocusWindow(s, w) ==
    IF w \notin windows THEN s
    ELSE [s EXCEPT !.active = w, !.inputs = SetTextInputFocus(@, w)]

\* clear_focus.
ClearFocus(s) == [s EXCEPT !.active = None, !.inputs = ClearTextInputFocus(@)]

\* keyboard_key: the key goes to the window that has the focus.
KeyboardKey(s, w, k, state) ==
    [FocusWindow(s, w) EXCEPT !.keys = IF state = "pressed" THEN @ \cup {k} ELSE @ \ {k}]

Got(s, item) ==
    [s EXCEPT !.got = Append(@, [n |-> item.n, kind |-> item.kind, id |-> item.id,
                                 to |-> s.active, gone |-> item.id \notin windows])]

\* synthesize_ascii_text: keys in place of text; Shift is released after a
\* shifted letter.
SynthesizeAsciiText(s, item) ==
    IF s.active = None THEN s
    ELSE LET got == Got(s, item)
         IN  IF item.kind = "shifted"
             THEN KeyboardKey(KeyboardKey(got, item.id, "shift", "pressed"),
                              item.id, "shift", "released")
             ELSE got

\* commit_text_input: TextInputDelivery.
Delivery(s) ==
    IF s.active = None \/ Client(s.active) \notin DOMAIN s.inputs THEN "unavailable"
    ELSE IF s.inputs[Client(s.active)].enabled THEN "sent" ELSE "waiting"

\* queue_pending_text_input: dropped when the queue is full.
QueuePending(s, item) ==
    IF Len(s.queue) >= PendingLimit THEN s ELSE [s EXCEPT !.queue = Append(@, item)]

\* inject_text: committed, typed as keys, queued, or lost.
InjectText(s0, item) ==
    LET s     == FocusWindow(s0, item.id)
        ascii == item.kind \in {"ascii", "shifted"}
    IN  CASE Delivery(s) = "sent" -> Got(s, item)
          [] Delivery(s) # "sent" /\ ascii -> SynthesizeAsciiText(s, item)
          [] Delivery(s) = "waiting" /\ ~ascii -> QueuePending(s, item)
          [] Delivery(s) = "unavailable" /\ ~ascii -> s

\* preedit_text_input.
PreeditTextInput(s0, item) ==
    LET s == FocusWindow(s0, item.id)
    IN  IF Delivery(s) = "waiting" THEN QueuePending(s, item) ELSE s

HandleText(s, item) ==
    IF item.kind = "preedit" THEN PreeditTextInput(s, item) ELSE InjectText(s, item)

\* Mutant: the queue is replayed from its end.
FlushPendingBackwards(s) == FoldRight(LAMBDA item, t : HandleText(t, item), s.queue,
                                      [s EXCEPT !.queue = <<>>])

\* Events handled one after the other.
HandleTexts(s, items) ==
    LET after[n \in 0 .. Len(items)] ==
            IF n = 0 THEN s ELSE HandleText(after[n - 1], items[n])
    IN  after[Len(items)]

\* flush_pending_text_input: every event handled again, in order.
FlushPending(s) == HandleTexts([s EXCEPT !.queue = <<>>], s.queue)

-----------------------------------------------------------------------------
(* InputEvents from the viewer.                                            *)

\* pointer_motion: the target is the window, unless it is gone.
PointerFocus(w) == IF w \in windows THEN w ELSE pointer.focus

\* pointer_button: focus_window, then smithay's click grab.
PointerButton(e) ==
    LET s == FocusWindow(SeatNow, e.id)
    IN  /\ SeatBecome(s)
        /\ pointer' = IF e.state = "pressed"
                      THEN [focus |-> PointerFocus(e.id), grab |-> PointerFocus(e.id)]
                      ELSE [focus |-> PointerFocus(e.id), grab |-> None]

HandleInput(e) ==
    /\ CASE e.type = "key" -> SeatBecome(KeyboardKey(SeatNow, e.id, e.key, e.state)) /\ UNCHANGED pointer
         [] e.type = "text" -> SeatBecome(HandleText(SeatNow, e)) /\ UNCHANGED pointer
         [] e.type = "focus" /\ e.focused -> SeatBecome(FocusWindow(SeatNow, e.id)) /\ UNCHANGED pointer
         [] e.type = "focus" /\ ~e.focused ->
               /\ SeatBecome(IF active_window_id = e.id THEN ClearFocus(SeatNow) ELSE SeatNow)
               /\ UNCHANGED pointer
         [] e.type = "button" -> PointerButton(e)
         [] e.type = "close" -> SeatBecome(SeatNow) /\ UNCHANGED pointer
    /\ UNCHANGED <<windows, next_window_id, outbox>>

-----------------------------------------------------------------------------
(* Requests of the guest's clients.                                        *)

\* new_toplevel: the new window gets the focus.
NewToplevel(w) ==
    /\ w = next_window_id /\ next_window_id' = w + 1
    /\ windows' = windows \cup {w}
    /\ active_window_id' = w
    /\ text_inputs' = SetTextInputFocus(text_inputs, w)
    /\ outbox' = Append(outbox, [type |-> "created", id |-> w])
    /\ UNCHANGED <<pending_text_input, pressed, pointer, delivered>>

\* Mutant: the focus stays with a window that is gone.
ToplevelDestroyedKeepsFocus(w) ==
    /\ w \in windows
    /\ windows' = windows \ {w}
    /\ outbox' = Append(outbox, [type |-> "destroyed", id |-> w])
    /\ UNCHANGED <<next_window_id, active_window_id, text_inputs, pending_text_input,
                   pressed, pointer, delivered>>

\* toplevel_destroyed: another window gets the focus, if there is one.
ToplevelDestroyed(w) ==
    /\ w \in windows
    /\ windows' = windows \ {w}
    /\ outbox' = Append(outbox, [type |-> "destroyed", id |-> w])
    /\ IF active_window_id # w THEN UNCHANGED <<active_window_id, text_inputs>>
       ELSE \/ \E v \in windows \ {w} :
                 /\ active_window_id' = v
                 /\ text_inputs' = SetTextInputFocus(text_inputs, v)
            \/ /\ windows = {w}
               /\ active_window_id' = None
               /\ text_inputs' = ClearTextInputFocus(text_inputs)
    /\ UNCHANGED <<next_window_id, pending_text_input, pressed, pointer, delivered>>

\* register_text_input.
RegisterTextInput(c) ==
    /\ c \notin DOMAIN text_inputs
    /\ text_inputs' = [d \in DOMAIN text_inputs \cup {c} |->
            IF d # c THEN text_inputs[d]
            ELSE [enabled |-> FALSE, pending_enabled |-> None,
                  focused_surface |-> IF active_window_id # None
                                         /\ Client(active_window_id) = c
                                      THEN active_window_id ELSE None]]
    /\ UNCHANGED <<windows, next_window_id, active_window_id, pending_text_input, pressed,
                   pointer, delivered, outbox>>

\* Request::Enable and Request::Disable.
RequestEnable(c, enabled) ==
    /\ c \in DOMAIN text_inputs /\ text_inputs[c].pending_enabled = None
    /\ text_inputs[c].enabled # enabled
    /\ text_inputs' = [text_inputs EXCEPT ![c].pending_enabled = enabled]
    /\ UNCHANGED <<windows, next_window_id, active_window_id, pending_text_input, pressed,
                   pointer, delivered, outbox>>

\* Request::Commit: with an enable, the queue is flushed.
RequestCommit(c) ==
    /\ c \in DOMAIN text_inputs /\ text_inputs[c].pending_enabled # None
    /\ LET on == text_inputs[c].pending_enabled
           s  == [SeatNow EXCEPT !.inputs = [@ EXCEPT ![c].enabled = on,
                                                  ![c].pending_enabled = None]]
       IN  SeatBecome(IF on THEN FlushPending(s) ELSE s)
    /\ UNCHANGED <<windows, next_window_id, pointer, outbox>>

\* Dispatch::destroyed.
DestroyTextInput(c) ==
    /\ c \in DOMAIN text_inputs
    /\ text_inputs' = [d \in DOMAIN text_inputs \ {c} |-> text_inputs[d]]
    /\ UNCHANGED <<windows, next_window_id, active_window_id, pending_text_input, pressed,
                   pointer, delivered, outbox>>

ClientNext ==
    \/ \E w \in Ids : NewToplevel(w) \/ ToplevelDestroyed(w)
    \/ \E c \in Clients : RegisterTextInput(c) \/ RequestCommit(c) \/ DestroyTextInput(c)

=============================================================================
