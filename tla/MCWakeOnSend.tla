---------------------------- MODULE MCWakeOnSend ----------------------------
(***************************************************************************)
(* Small instances of WakeOnSend for TLC: calls, processes and lease ids   *)
(* are interchangeable.                                                    *)
(***************************************************************************)
EXTENDS WakeOnSend, TLC

Symmetry == Permutations(Calls) \cup Permutations(Pids) \cup Permutations(LeaseIds)
=============================================================================
