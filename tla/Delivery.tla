------------------------------ MODULE Delivery ------------------------------
(***************************************************************************)
(* What the claim path promises of each message, without clocks, batches,  *)
(* indexes and counters: it is delivered at least once, to one session at  *)
(* a time, until a session that has it acknowledges it; and it is given up *)
(* only with its actor, off the end of the dead letters, or by one of the  *)
(* accidents of a delivery (src/core/task-claim-store.ts).  A step is told *)
(* message by message.                                                     *)
(***************************************************************************)
CONSTANTS Msgs, Sessions

VARIABLES
  place,  \* where each message is: "unsent", "queued", "held", "dead", "acked", "dropped",
          \* "purged", or where the accident left it: "overwritten", "aborted", "stranded"
  by      \* the sessions that have it

vars == <<place, by>>

Init ==
  /\ place = [m \in Msgs |-> "unsent"]
  /\ by = [m \in Msgs |-> {}]

Stays(m) == place'[m] = place[m] /\ by'[m] = by[m]

\* m goes from one place to another, where the sessions who have it.
Goes(m, from, to, who) ==
  /\ place[m] = from
  /\ place'[m] = to
  /\ by'[m] = who

Accept(m) ==
  /\ Goes(m, "unsent", "queued", {})
  /\ \A n \in Msgs \ {m} : Stays(n)

\* Messages go to a session, and may overwrite those it has, or had in a claim nobody finds.
Deliver(s) ==
  \A m \in Msgs :
    \/ Stays(m)
    \/ Goes(m, "queued", "held", {s})
    \/ by[m] = {s} /\ Goes(m, "held", "overwritten", {})
    \/ Goes(m, "stranded", "overwritten", {})

\* A delivery breaks off with messages taken off the queue.
BreakOff ==
  \A m \in Msgs :
    \/ Stays(m)
    \/ \E to \in {"aborted", "stranded"} : Goes(m, "queued", to, {})
    \/ Goes(m, "stranded", "overwritten", {})

\* A session acknowledges what it has, and nobody else does.
Acknowledge(s) ==
  \A m \in Msgs : Stays(m) \/ (by[m] = {s} /\ Goes(m, "held", "acked", {}))

\* What was held is queued again or a dead letter; old dead letters may no longer fit.
Recover ==
  \A m \in Msgs :
    \/ Stays(m)
    \/ \E to \in {"queued", "dead", "dropped"} : Goes(m, "held", to, {})
    \/ Goes(m, "dead", "dropped", {})

Requeue(m) ==
  /\ Goes(m, "dead", "queued", {})
  /\ \A n \in Msgs \ {m} : Stays(n)

\* The actor goes, and every message it has.
Purge ==
  \A m \in Msgs :
    IF place[m] \in {"queued", "held", "dead"} THEN Goes(m, place[m], "purged", {}) ELSE Stays(m)

Next ==
  /\ DOMAIN place' = Msgs /\ DOMAIN by' = Msgs
  /\ \/ \E s \in Sessions : Deliver(s) \/ Acknowledge(s)
     \/ Recover \/ BreakOff
     \/ \E m \in Msgs : Accept(m) \/ Requeue(m)
     \/ Purge

Spec == Init /\ [][Next]_vars
=============================================================================
