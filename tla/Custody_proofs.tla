--------------------------- MODULE Custody_proofs ---------------------------
(***************************************************************************)
(* Proofs about Custody for every number of calls, sessions and attempts.  *)
(*                                                                         *)
(* The stored record is written from a record that the call read earlier,  *)
(* so nothing holds of the write unless it holds of every record a call    *)
(* still carries: the invariant speaks of both.                            *)
(***************************************************************************)
EXTENDS Custody, TLAPS

\* The state of the record decides which of its fields are set.
WellFormed(r) ==
  /\ r.state = "held" <=> r.custodian # NoSession
  /\ r.state = "held" <=> r.mode # "none"
  /\ r.state = "released" => r.handoff # NoHandoff
  /\ r.mode = "graceful_handoff" => r.handoff # NoHandoff
  /\ r.mode = "initial" => r.handoff = NoHandoff
  /\ r.state \in {"absent", "unowned"} => r.handoff = NoHandoff
  /\ r.state # "unowned"

\* A call about to write was allowed to, by the record it carries; one about to
\* expire carries a hold that lapsed before its clock.
WellFormedCall(c) ==
  /\ WellFormed(c.seen)
  /\ c.step # "idle" => c.req \in Requests
  /\ c.step = "write" => Writes(c.req, c.seen)
  /\ c.step = "expire" => Lapsed(c.seen, c.at)

CustodyInv ==
  /\ TypeOK
  /\ WellFormed(record)
  /\ \A k \in Calls : WellFormedCall(call[k]) /\ call[k].at <= now

\* The assumptions in the form the provers use.
LEMMA Constants ==
  /\ NoSession \notin Sessions /\ NoHandoff \notin Handoffs
  /\ MaxLease \in Nat /\ MaxLease >= 1
  /\ Attempts \in Nat /\ Attempts >= 1
  /\ MaxTime \in Nat
  BY CustodyAssumption

\* What a request for each tool is made of.
LEMMA RequestShape ==
  ASSUME NEW req \in Requests
  PROVE  /\ req \in Request
         /\ req.op \in {"claim", "release", "status"}
         /\ req.op \in {"claim", "release"} => req.session \in Sessions
         /\ req.op = "release" => req.handoff \in Handoffs /\ req.inventory = FALSE
  <1>1. CASE req \in [op: {"claim"}, session: Sessions, lease: 1..MaxLease,
                      inventory: BOOLEAN, handoff: {NoHandoff}]
    BY <1>1, Constants DEF Request
  <1>2. CASE req \in [op: {"release"}, session: Sessions, lease: {0},
                      inventory: {FALSE}, handoff: Handoffs]
    <2>1. {FALSE} \subseteq BOOLEAN /\ {0} \subseteq 0..MaxLease
      BY Constants
    <2>2. req \in Request
      BY <1>2, <2>1 DEF Request
    <2>3. req.inventory = FALSE
      BY <1>2, Zenon
    <2> QED BY <1>2, <2>2, <2>3
  <1>3. CASE req \in [op: {"status"}, session: {NoSession}, lease: {0},
                      inventory: {FALSE}, handoff: {NoHandoff}]
    <2>1. {FALSE} \subseteq BOOLEAN /\ {0} \subseteq 0..MaxLease
      BY Constants
    <2>2. req \in Request
      BY <1>3, <2>1 DEF Request
    <2>3. req.inventory = FALSE
      BY <1>3, Zenon
    <2> QED BY <1>3, <2>2, <2>3
  <1> QED BY <1>1, <1>2, <1>3 DEF Requests

\* Every record the reducer can produce is a well-formed record.
LEMMA ReducerShape ==
  ASSUME NEW r \in Record, WellFormed(r)
  PROVE  /\ Forfeited(r) \in Record /\ WellFormed(Forfeited(r))
         /\ \A h \in Handoffs : Released(h) \in Record /\ WellFormed(Released(h))
         /\ Absent \in Record /\ WellFormed(Absent)
         /\ \A s \in Sessions, t \in Nat :
              /\ r.state = "released" =>
                   Claimed(r, s, t) \in Record /\ WellFormed(Claimed(r, s, t))
              /\ Claimed(createCustody, s, t) \in Record
              /\ WellFormed(Claimed(createCustody, s, t))
              /\ Assumed(r, s, t) \in Record /\ WellFormed(Assumed(r, s, t))
  <1> USE Constants DEF Record, Modes, WellFormed, Blank
  <1>1. Forfeited(r) \in Record /\ WellFormed(Forfeited(r))
    BY DEF Forfeited, Vacated
  <1>2. \A h \in Handoffs : Released(h) \in Record /\ WellFormed(Released(h))
    BY DEF Released, Vacated
  <1>3. Absent \in Record /\ WellFormed(Absent)
    BY DEF Absent
  <1>4. ASSUME NEW s \in Sessions, NEW t \in Nat, r.state = "released"
        PROVE  Claimed(r, s, t) \in Record /\ WellFormed(Claimed(r, s, t))
    BY <1>4 DEF Claimed, Acquired
  <1>5. ASSUME NEW s \in Sessions, NEW t \in Nat
        PROVE  /\ Claimed(createCustody, s, t) \in Record
               /\ WellFormed(Claimed(createCustody, s, t))
    BY DEF Claimed, Acquired, createCustody
  <1>6. ASSUME NEW s \in Sessions, NEW t \in Nat
        PROVE  Assumed(r, s, t) \in Record /\ WellFormed(Assumed(r, s, t))
    BY DEF Assumed, Acquired
  <1> HIDE DEF Record, Modes, WellFormed, Blank
  <1> QED BY <1>1, <1>2, <1>3, <1>4, <1>5, <1>6

\* An idle call, and a call that has just decided, satisfy the invariant.
LEMMA CallShape ==
  /\ Idle \in Call /\ WellFormedCall(Idle)
  /\ \A c \in Call, r \in Record :
       c.req \in Requests /\ WellFormed(r) =>
         Decided(c, r) \in Call /\ WellFormedCall(Decided(c, r)) /\ Decided(c, r).at \in {c.at, 0}
  <1>1. Idle \in Call /\ WellFormedCall(Idle)
    <2>1. Absent \in Record /\ WellFormed(Absent)
      BY Constants DEF Record, Modes, WellFormed, Blank, Absent
    <2>2. NoRequest \in Request
      BY Constants DEF NoRequest, Request
    <2> QED BY <2>1, <2>2, Constants DEF Idle, Call, WellFormedCall
  <1>2. ASSUME NEW c \in Call, NEW r \in Record, c.req \in Requests, WellFormed(r)
        PROVE  /\ Decided(c, r) \in Call /\ WellFormedCall(Decided(c, r))
               /\ Decided(c, r).at \in {c.at, 0}
    <2>1. CASE Writes(c.req, r)
      <3>1. Decided(c, r) = [c EXCEPT !.step = "write", !.seen = r]
        BY <2>1 DEF Decided
      <3>2. /\ Decided(c, r).step = "write" /\ Decided(c, r).seen = r
            /\ Decided(c, r).req = c.req /\ Decided(c, r).at = c.at
            /\ Decided(c, r) \in Call
        BY <3>1 DEF Call
      <3> QED BY <3>2, <2>1, <1>2 DEF WellFormedCall
    <2>2. CASE ~Writes(c.req, r)
      BY <2>2, <1>1 DEF Decided, Idle
    <2> QED BY <2>1, <2>2
  <1> QED BY <1>1, <1>2

\* A call's write produces a well-formed record.
LEMMA OutcomeShape ==
  ASSUME NEW c \in Call, WellFormedCall(c), c.step = "write"
  PROVE  Outcome(c) \in Record /\ WellFormed(Outcome(c))
  <1>1. c.req \in Requests /\ Writes(c.req, c.seen) /\ c.seen \in Record /\ WellFormed(c.seen)
    BY DEF WellFormedCall, Call
  <1>2. CASE c.req.op = "release"
    BY <1>1, <1>2, RequestShape, ReducerShape DEF Outcome
  <1>3. CASE c.req.op # "release"
    <2>1. c.req.op = "claim" /\ c.req.session \in Sessions
      BY <1>1, <1>3, RequestShape DEF Writes
    <2>2. c.at + c.req.lease \in Nat
      BY Constants DEF Call, Request
    <2>3. c.seen.state \in {"absent", "released", "forfeited"}
      BY <1>1, <2>1 DEF Writes, WellFormed
    <2> QED BY <1>1, <1>3, <2>1, <2>2, <2>3, ReducerShape DEF Outcome
  <1> QED BY <1>2, <1>3

\* The invariant is inductive: one case per step of a call.
LEMMA CustodyStep == CustodyInv /\ [Next]_vars => CustodyInv'
  <1> SUFFICES ASSUME CustodyInv, [Next]_vars PROVE CustodyInv'
    OBVIOUS
  <1>0. TypeOK /\ WellFormed(record)
    BY DEF CustodyInv
  <1>a. ASSUME NEW k \in Calls
        PROVE  /\ call[k] \in Call /\ WellFormedCall(call[k]) /\ call[k].at \in Nat
               /\ call[k].at <= now /\ call[k].seen \in Record
    BY DEF CustodyInv, TypeOK, Call
  <1>b. ASSUME NEW k \in Calls, NEW c \in Call, WellFormedCall(c), c.at <= now,
               call' = [call EXCEPT ![k] = c],
               record' \in Record, WellFormed(record'), now' = now,
               last' \in [by: Sessions \cup {NoSession}, inventory: BOOLEAN]
        PROVE  CustodyInv'
    <2>1. call' \in [Calls -> Call]
      BY <1>0, <1>b DEF TypeOK
    <2>2. \A j \in Calls : call'[j] = IF j = k THEN c ELSE call[j]
      BY <1>0, <1>b DEF TypeOK
    <2>3. TypeOK'
      BY <1>0, <1>b, <2>1 DEF TypeOK
    <2>4. \A j \in Calls : WellFormedCall(call'[j]) /\ call'[j].at <= now'
      BY <2>2, <1>a, <1>b
    <2> QED BY <2>3, <2>4, <1>b DEF CustodyInv, WellFormed, WellFormedCall
  <1>c. now \in Nat /\ Idle \in Call /\ WellFormedCall(Idle) /\ Idle.at = 0 /\ Idle.at <= now
    <2>1. now \in Nat /\ Idle.at = 0
      BY <1>0 DEF TypeOK, Idle
    <2> QED BY <2>1, CallShape
  <1>1. ASSUME NEW k \in Calls, Start(k) PROVE CustodyInv'
    <2>1. PICK req \in Requests :
            call' = [call EXCEPT ![k] = [Idle EXCEPT !.req = req, !.at = now, !.step = "read"]]
      BY <1>1 DEF Start
    <2> DEFINE c == [Idle EXCEPT !.req = req, !.at = now, !.step = "read"]
    <2>2. c \in Call /\ c.at = now /\ c.step = "read" /\ c.req = req /\ c.seen = Idle.seen
      BY <1>c, RequestShape DEF Call
    <2>3. WellFormedCall(c)
      BY <2>2, <1>c DEF WellFormedCall
    <2>4. /\ c.at <= now /\ call' = [call EXCEPT ![k] = c] /\ now' = now
          /\ record' \in Record /\ WellFormed(record')
          /\ last' \in [by: Sessions \cup {NoSession}, inventory: BOOLEAN]
      <3>1. record' = record /\ now' = now /\ last' = last
        BY <1>1 DEF Start
      <3>2. c.at <= now
        BY <2>2, <1>c
      <3> QED BY <1>0, <2>1, <3>1, <3>2 DEF TypeOK
    <2> HIDE DEF c
    <2> QED BY <1>b, <2>2, <2>3, <2>4
  <1>2. ASSUME NEW k \in Calls, Read(k) PROVE CustodyInv'
    <2>1. call[k].req \in Requests
      BY <1>2, <1>a DEF Read, WellFormedCall
    <2>2. CASE Lapsed(record, call[k].at)
      <3> DEFINE c == [call[k] EXCEPT !.step = "expire", !.seen = record]
      <3>1. /\ c \in Call /\ c.at = call[k].at /\ c.step = "expire" /\ c.req = call[k].req
            /\ c.seen = record
        BY <1>a, <1>0 DEF Call, TypeOK
      <3>2. WellFormedCall(c)
        BY <3>1, <2>1, <2>2, <1>0 DEF WellFormedCall
      <3>3. call' = [call EXCEPT ![k] = c]
        BY <1>2, <2>2 DEF Read
      <3> HIDE DEF c
      <3> QED BY <3>1, <3>2, <3>3, <1>a, <1>b, <1>2, <1>0 DEF Read, TypeOK
    <2>3. CASE ~Lapsed(record, call[k].at)
      <3> DEFINE c == Decided(call[k], record)
      <3>1. c \in Call /\ WellFormedCall(c) /\ c.at <= now
        BY <1>a, <1>c, <2>1, <1>0, CallShape DEF TypeOK
      <3>2. call' = [call EXCEPT ![k] = c]
        BY <1>2, <2>3 DEF Read
      <3> HIDE DEF c
      <3> QED BY <3>1, <3>2, <1>b, <1>2, <1>0 DEF Read, TypeOK
    <2> QED BY <2>2, <2>3
  <1>3. ASSUME NEW k \in Calls, Expire(k) PROVE CustodyInv'
    <2> DEFINE r == Forfeited(call[k].seen)
               c == Decided(call[k], r)
    <2>1. call[k].req \in Requests /\ WellFormed(call[k].seen)
      BY <1>3, <1>a DEF Expire, WellFormedCall
    <2>2. r \in Record /\ WellFormed(r)
      BY <2>1, <1>a, ReducerShape
    <2> HIDE DEF r
    <2>3. c \in Call /\ WellFormedCall(c) /\ c.at <= now
      BY <2>1, <2>2, <1>a, <1>c, CallShape
    <2>4. call' = [call EXCEPT ![k] = c] /\ now' = now
      BY <1>3 DEF Expire, r
    <2>5. /\ record' \in Record /\ WellFormed(record')
          /\ last' \in [by: Sessions \cup {NoSession}, inventory: BOOLEAN]
      <3>1. CASE record.state = "held"
        <4>1. record' = r /\ last' = [by |-> NoSession, inventory |-> FALSE]
          BY <1>3, <3>1 DEF Expire, r
        <4> QED BY <4>1, <2>2
      <3>2. CASE record.state # "held"
        <4>1. record' = record /\ last' = last
          BY <1>3, <3>2 DEF Expire
        <4> QED BY <4>1, <1>0 DEF TypeOK
      <3> QED BY <3>1, <3>2
    <2> HIDE DEF c
    <2> QED BY <2>3, <2>4, <2>5, <1>b
  <1>4. ASSUME NEW k \in Calls, Write(k) PROVE CustodyInv'
    <2>1. Outcome(call[k]) \in Record /\ WellFormed(Outcome(call[k]))
      BY <1>4, <1>a, OutcomeShape DEF Write
    <2>2. last' \in [by: Sessions \cup {NoSession}, inventory: BOOLEAN]
      BY <1>4, <1>a DEF Write, Call, Request
    <2>3. record' \in Record /\ WellFormed(record') /\ now' = now /\ call' = [call EXCEPT ![k] = Idle]
      BY <1>4, <2>1 DEF Write
    <2> QED BY <2>2, <2>3, <1>b, <1>c
  <1>5. ASSUME NEW k \in Calls, Refused(k) PROVE CustodyInv'
    <2> DEFINE c == NextAttempt(call[k])
    <2>1. call[k].req \in Requests
      BY <1>5, <1>a DEF Refused, WellFormedCall
    <2>2. Absent \in Record /\ WellFormed(Absent)
      BY <1>0, ReducerShape DEF TypeOK
    <2>3. /\ c \in Call /\ c.at = call[k].at /\ c.req = call[k].req /\ c.seen = Absent
          /\ c.step \in {"read", "reread"}
      <3>1. CASE call[k].attempt < Attempts
        <4>1. c = [call[k] EXCEPT !.step = "read", !.attempt = call[k].attempt + 1, !.seen = Absent]
          BY <3>1 DEF NextAttempt
        <4>2. call[k].attempt + 1 \in 1..Attempts
          BY <3>1, <1>a, Constants DEF Call
        <4> HIDE DEF c
        <4> QED BY <4>1, <4>2, <2>2, <1>a DEF Call
      <3>2. CASE ~(call[k].attempt < Attempts)
        <4>1. c = [call[k] EXCEPT !.step = "reread", !.seen = Absent]
          BY <3>2 DEF NextAttempt
        <4> HIDE DEF c
        <4> QED BY <4>1, <2>2, <1>a DEF Call
      <3> QED BY <3>1, <3>2
    <2>4. WellFormedCall(c)
      BY <2>1, <2>2, <2>3 DEF WellFormedCall
    <2>5. call' = [call EXCEPT ![k] = c] /\ UNCHANGED <<record, now, last>>
      BY <1>5 DEF Refused
    <2> HIDE DEF c
    <2> QED BY <2>3, <2>4, <2>5, <1>a, <1>b, <1>0 DEF TypeOK
  <1>6. ASSUME NEW k \in Calls, Reread(k) \/ Crash(k) PROVE CustodyInv'
    BY <1>6, <1>b, <1>c, <1>0 DEF Reread, Crash, TypeOK
  <1>7. CASE Tick
    BY <1>7, <1>0, <1>a DEF Tick, CustodyInv, TypeOK
  <1>8. CASE UNCHANGED vars
    BY <1>8, <1>0 DEF vars, CustodyInv, TypeOK
  <1> QED BY <1>1, <1>2, <1>3, <1>4, <1>5, <1>6, <1>7, <1>8 DEF Next, Step

\* The invariant holds initially, and so always.
LEMMA CustodyInvariant == Init /\ [][Next]_vars => []CustodyInv
  <1>1. Init => CustodyInv
    <2> SUFFICES ASSUME Init PROVE CustodyInv
      OBVIOUS
    <2>1. record \in Record /\ WellFormed(record)
      BY Constants DEF Init, Record, Modes, WellFormed, Blank, Absent
    <2>2. TypeOK
      BY <2>1, CallShape DEF Init, TypeOK
    <2>3. Idle.at <= now
      BY DEF Init, Idle
    <2>4. ASSUME NEW k \in Calls PROVE WellFormedCall(call[k]) /\ call[k].at <= now
      <3>1. call[k] = Idle
        BY DEF Init
      <3> QED BY <3>1, <2>3, CallShape
    <2> QED BY <2>1, <2>2, <2>4 DEF CustodyInv
  <1> QED BY <1>1, CustodyStep, PTL

\* Type correctness of the record, the calls in flight and the clock.
THEOREM CustodyTypeCorrect == Spec => []TypeOK
  BY CustodyInvariant, PTL DEF Spec, CustodyInv

\* Whatever calls raced to write it, the stored record passes the store's own read
\* admission (storedCustodySchema) and its fields are set exactly when held.
THEOREM StoreNeverRefusesItself == Spec => []RecordAdmitted
  <1>1. CustodyInv => RecordAdmitted
    BY DEF CustodyInv, WellFormed, RecordAdmitted
  <1> QED BY <1>1, CustodyInvariant, PTL DEF Spec

\* A call that forfeits the hold it read (lazyExpire) does so after its lease, since
\* the clock it captured is never ahead of the present one.
THEOREM ForfeitureAfterLease == Spec => ForfeitsOnlyLapsed
  <1>1. CustodyInv /\ [Next]_vars =>
          [\A k \in Calls :
             /\ call[k].step = "expire" /\ call[k].seen = record
             /\ record.state = "held" /\ record'.state = "forfeited"
             => now > record.lease_expires_at]_vars
    <2> SUFFICES ASSUME CustodyInv, NEW k \in Calls,
                        call[k].step = "expire", call[k].seen = record
                 PROVE  now > record.lease_expires_at
      OBVIOUS
    <2>1. Lapsed(record, call[k].at) /\ call[k].at <= now
      BY DEF CustodyInv, WellFormedCall
    <2>2. call[k].at \in Nat /\ now \in Nat /\ record.lease_expires_at \in Nat
      BY SMTT(40) DEF CustodyInv, TypeOK, Call, Record
    <2> QED BY <2>1, <2>2 DEF Lapsed
  <1> QED BY <1>1, CustodyInvariant, PTL DEF Spec, ForfeitsOnlyLapsed

\* Every step of a call is a step of the custody lifecycle or leaves it alone.
LEMMA LifecycleStep == CustodyInv /\ [Next]_vars => [Lifecycle!Next]_(Lifecycle!vars)
  <1> SUFFICES ASSUME CustodyInv, Next PROVE [Lifecycle!Next]_(Lifecycle!vars)
    BY DEF vars, Lifecycle!vars
  <1> USE DEF Lifecycle!vars
  <1>1. ASSUME UNCHANGED <<record, last>> PROVE [Lifecycle!Next]_(Lifecycle!vars)
    BY <1>1
  <1>2. ASSUME NEW k \in Calls, Expire(k) PROVE [Lifecycle!Next]_(Lifecycle!vars)
    <2>1. CASE record.state = "held"
      <3>1. /\ record'.state = "forfeited" /\ record'.custodian = NoSession
            /\ record'.mode = "none" /\ last' = [by |-> NoSession, inventory |-> FALSE]
        BY <1>2, <2>1 DEF Expire, Forfeited, Vacated, Blank
      <3> QED BY <2>1, <3>1 DEF Lifecycle!Next, Lifecycle!Expire, Lifecycle!Free
    <2>2. CASE record.state # "held"
      BY <1>2, <2>2, <1>1 DEF Expire
    <2> QED BY <2>1, <2>2
  <1>3. ASSUME NEW k \in Calls, Write(k) PROVE [Lifecycle!Next]_(Lifecycle!vars)
    <2> DEFINE c == call[k]
               s == c.req.session
    <2>1. /\ c.req \in Requests /\ Writes(c.req, c.seen) /\ WellFormed(record)
          /\ WellFormed(c.seen) /\ c.req.inventory \in BOOLEAN
      BY <1>3 DEF Write, CustodyInv, WellFormedCall, TypeOK, Call, Request
    <2>2. /\ record' = Outcome(c) /\ Admits(c)
          /\ last' = [by |-> s, inventory |-> c.req.inventory]
      BY <1>3 DEF Write
    <2> HIDE DEF c
    <2>3. c.req.op \in {"claim", "release"} /\ s \in Sessions
      BY <2>1, RequestShape DEF Writes
    <2>4. CASE c.req.op = "release"
      <3>1. /\ record.state = "held" /\ record.custodian = s
            /\ record'.state = "released" /\ record'.custodian = NoSession
            /\ record'.mode = "none" /\ c.req.inventory = FALSE
        BY <2>1, <2>2, <2>4, RequestShape
           DEF Writes, Admits, Outcome, Released, Vacated, Blank
      <3>2. Lifecycle!Release(s)
        BY <2>2, <3>1 DEF Lifecycle!Release, Lifecycle!Free
      <3> QED BY <3>2, <2>3 DEF Lifecycle!Next
    <2>5. CASE c.req.op = "claim" /\ c.seen.state \in {"absent", "released"}
      <3>1. /\ record.state = c.seen.state
            /\ record'.state = "held" /\ record'.custodian = s
            /\ record'.mode = IF c.seen.state = "released" THEN "graceful_handoff" ELSE "initial"
        BY <2>2, <2>5 DEF Admits, Outcome, Claimed, Acquired, createCustody, Blank
      <3>2. Lifecycle!Claim(s)
        BY <2>1, <2>2, <2>5, <3>1 DEF Lifecycle!Claim, Lifecycle!Hold
      <3> QED BY <3>2, <2>3 DEF Lifecycle!Next
    <2>6. CASE c.req.op = "claim" /\ c.seen.state = "forfeited"
      <3>1. /\ record.state = "forfeited" /\ c.req.inventory
            /\ record'.state = "held" /\ record'.custodian = s
            /\ record'.mode = "successor_takeover"
        BY <2>1, <2>2, <2>6 DEF Writes, Admits, Outcome, Assumed, Acquired
      <3>2. Lifecycle!Assume(s)
        BY <2>1, <2>2, <3>1 DEF Lifecycle!Assume, Lifecycle!Hold
      <3> QED BY <3>2, <2>3 DEF Lifecycle!Next
    <2>7. c.req.op = "claim" => c.seen.state \in {"absent", "released", "forfeited"}
      BY <2>1 DEF Writes, WellFormed
    <2> QED BY <2>3, <2>4, <2>5, <2>6, <2>7
  <1> QED BY <1>1, <1>2, <1>3
        DEF Next, Step, Start, Read, Refused, Reread, Crash, Tick

\* The store implements the custody lifecycle: the conditional write's check of the
\* stored state is enough to keep the four-state machine, stale reads included.
THEOREM StoreFollowsLifecycle == Spec => FollowsLifecycle
  <1>1. Init => Lifecycle!Init
    BY DEF Init, Lifecycle!Init, Absent, Blank
  <1> QED BY <1>1, LifecycleStep, CustodyInvariant, PTL
        DEF Spec, FollowsLifecycle, Lifecycle!Spec
=============================================================================
