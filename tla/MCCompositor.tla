---- MODULE MCCompositor ----
(* Constants for the TLC runs of Compositor: one toplevel slot, a popup on it, *)
(* and a subsurface of either.                                                 *)
EXTENDS Compositor

CONSTANTS r, p, s

SomeParents == p :> {r} @@ s :> {r, p}

\* Half out of the window on either side.
Places == {-1, 1}

\* Roots without transparent pixels, narrow and wide.
OpaqueRoots == {[w |-> 1, holes |-> {}], [w |-> 2, holes |-> {}]}

\* A root whose second pixel is its own drop shadow.
ShadowRoots == {[w |-> 2, holes |-> {1}]}

OpaqueChildren == {[w |-> 2, holes |-> {}]}
====
