----------------------------- MODULE TextBuffer -----------------------------
(***************************************************************************)
(* What an input composer promises: the text typed is sent in the order it *)
(* was typed, nothing lost and nothing twice.  The end of it may be held   *)
(* back to be composed with what follows, and only that can be erased.     *)
(***************************************************************************)
EXTENDS Naturals, Sequences

CONSTANT Chunks    \* what one step may type: sequences of characters

VARIABLES
    out,    \* sent
    held    \* typed and not sent yet

Init == out = <<>> /\ held = <<>>

\* A chunk is typed; a first part of what is held and typed is sent.
Type(chunk) ==
    /\ out' \o held' = out \o held \o chunk
    /\ Len(out') >= Len(out)

Release == out' = out \o held /\ held' = <<>>

\* The end of what is held is erased.
Erase ==
    /\ Len(held') < Len(held) /\ held' = SubSeq(held, 1, Len(held'))
    /\ UNCHANGED out

Next == (\E chunk \in Chunks : Type(chunk)) \/ Release \/ Erase

Spec == Init /\ [][Next]_<<out, held>>

=============================================================================
