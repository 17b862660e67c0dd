------------------------------- MODULE Option -------------------------------
(***************************************************************************)
(* Rust's Option: a value of some type, or None.                           *)
(***************************************************************************)
CONSTANT None
=============================================================================
