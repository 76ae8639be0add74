----------------------------- MODULE MCCustody -----------------------------
(***************************************************************************)
(* Small instances of Custody for TLC.  Sessions, calls and handoffs are   *)
(* interchangeable; liveness is checked without the reduction.             *)
(***************************************************************************)
EXTENDS Custody, TLC

Symmetry == Permutations(Sessions) \cup Permutations(Calls) \cup Permutations(Handoffs)
=============================================================================
