----------------------------- MODULE MCControld -----------------------------
(***************************************************************************)
(* Small instances of Controld for TLC.                                    *)
(***************************************************************************)
EXTENDS Controld, TLC

\* Instances, ports, pids and sessions are interchangeable (safety runs only).
Symmetry ==
    UNION {Permutations(S) : S \in {Instance, Port, Pid, Session}}

=============================================================================
