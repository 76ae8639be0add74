--------------------------- MODULE MCTaskClaims ---------------------------
(***************************************************************************)
(* Instances of TaskClaims for TLC.  Messages other than legacy ones,      *)
(* claim ids and sessions are interchangeable in the specification.        *)
(***************************************************************************)
EXTENDS TaskClaims

Symmetry == Permutations(Msgs \ Legacy) \cup Permutations(ClaimIds) \cup Permutations(Sessions)
=============================================================================
