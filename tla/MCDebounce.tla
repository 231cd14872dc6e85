----------------------------- MODULE MCDebounce -----------------------------
(***************************************************************************)
(* Debounce for TLC.                                                       *)
(***************************************************************************)
EXTENDS Debounce
=============================================================================
