----------------------------- MODULE ViewStream -----------------------------
(***************************************************************************)
(* What a data plane promises the viewer of a view session, whichever way  *)
(* a message travels.  The events of one window arrive in the order they   *)
(* were sent and none is skipped, and so do the messages that belong to no *)
(* window.  A tile may be lost or late, but one that arrives is one that   *)
(* was sent, whole, and arrives once.                                      *)
(***************************************************************************)
EXTENDS Naturals, Sequences

CONSTANTS
    Messages,    \* records with a field chan
    Channels,    \* the ordered channels
    Tiles        \* the channel of the tiles

VARIABLES
    log,      \* the messages sent, numbered by their place
    last,     \* per channel, the number of the last message that arrived
    shown     \* how often message n arrived as a tile

Init ==
    /\ log = <<>>
    /\ last = [c \in Channels |-> 0]
    /\ \A n \in DOMAIN shown : shown[n] = 0

Send(m) == log' = Append(log, m) /\ UNCHANGED <<last, shown>>

\* The next message of a channel arrives.
Deliver(c) ==
    \E n \in DOMAIN log :
        /\ log[n].chan = c /\ n > last[c]
        /\ \A k \in (last[c] + 1) .. (n - 1) : log[k].chan # c
        /\ last' = [last EXCEPT ![c] = n]
        /\ UNCHANGED <<log, shown>>

Show(n) ==
    /\ log[n].chan = Tiles /\ shown[n] = 0
    /\ shown' = [shown EXCEPT ![n] = 1]
    /\ UNCHANGED <<log, last>>

Next ==
    \/ \E m \in Messages : Send(m)
    \/ \E c \in Channels : Deliver(c)
    \/ \E n \in DOMAIN log : Show(n)

Spec == Init /\ [][Next]_<<log, last, shown>>

=============================================================================
