-------------------------- MODULE CustodyLifecycle --------------------------
(***************************************************************************)
(* What the custody store promises of one worktree, without its calls,     *)
(* clocks and retries: the four-state lifecycle of transitionCustody       *)
(* (src/core/custody-model.ts) taken one atomic event at a time.           *)
(***************************************************************************)
CONSTANTS Sessions, NoSession

VARIABLES
  state,      \* "absent" until the first claim stores a record
  custodian,  \* the session that holds the worktree
  mode,       \* how it came to hold it
  last        \* the session behind the last event, and whether it gave an inventory

vars == <<state, custodian, mode, last>>

Init ==
  /\ state = "absent"
  /\ custodian = NoSession
  /\ mode = "none"
  /\ last = [by |-> NoSession, inventory |-> FALSE]

\* The worktree becomes s's, the way how.
Hold(s, how) ==
  /\ state' = "held"
  /\ custodian' = s
  /\ mode' = how

\* The worktree is nobody's, for the reason given.
Free(reason) ==
  /\ state' = reason
  /\ custodian' = NoSession
  /\ mode' = "none"

\* A first claim, or a claim after the predecessor released it.
Claim(s) ==
  /\ \/ state = "absent" /\ Hold(s, "initial")
     \/ state = "released" /\ Hold(s, "graceful_handoff")
  /\ \E inventory \in BOOLEAN : last' = [by |-> s, inventory |-> inventory]

\* A successor takes over a forfeited worktree, with an inventory.
Assume(s) ==
  /\ state = "forfeited"
  /\ Hold(s, "successor_takeover")
  /\ last' = [by |-> s, inventory |-> TRUE]

\* The custodian, and nobody else, releases the worktree.
Release(s) ==
  /\ state = "held"
  /\ custodian = s
  /\ Free("released")
  /\ last' = [by |-> s, inventory |-> FALSE]

\* A held worktree is forfeited; whoever looked at the lease did it.
Expire ==
  /\ state = "held"
  /\ Free("forfeited")
  /\ last' = [by |-> NoSession, inventory |-> FALSE]

Next ==
  \/ \E s \in Sessions : Claim(s) \/ Assume(s) \/ Release(s)
  \/ Expire

Spec == Init /\ [][Next]_vars
=============================================================================
