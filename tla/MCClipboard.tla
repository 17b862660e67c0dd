---------------------------- MODULE MCClipboard ----------------------------
(***************************************************************************)
(* Instances of Clipboard for TLC: texts are interchangeable, except that  *)
(* some are over the size cap.                                             *)
(***************************************************************************)
EXTENDS Clipboard, TLC

Symmetry == Permutations(Text \ Big)
=============================================================================
