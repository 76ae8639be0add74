------------------------------ MODULE Custody ------------------------------
(***************************************************************************)
(* Worktree custody: custody_claim, custody_release and custody_status on  *)
(* one worktree's record (src/core/custody-store.ts, custody-model.ts and  *)
(* lua/custody-conditional-set.lua).  Records of other worktrees are other *)
(* fields of the hash and never meet this one.                             *)
(*                                                                         *)
(* A call reads its clock once and then awaits Redis several times: it     *)
(* reads the record, may persist the forfeiture of a lapsed hold, writes   *)
(* under a precondition on the stored STATE (a release also on the         *)
(* session), and starts over once when the write is refused.  Other calls, *)
(* the clock and crashes run between any two of these steps.               *)
(***************************************************************************)
EXTENDS Integers

CONSTANTS
  Calls,      \* tool calls that may be in flight together
  Sessions,
  NoSession,
  Handoffs,   \* handoff documents that pass admitHandoffRecord
  NoHandoff,
  MaxLease,   \* longest lease_seconds
  Attempts,   \* how often a call tries: 2 in the code
  MaxTime     \* bound on the clock

ASSUME CustodyAssumption ==
  /\ NoSession \notin Sessions
  /\ NoHandoff \notin Handoffs
  /\ {MaxLease, Attempts} \subseteq Nat \ {0}
  /\ MaxTime \in Nat

VARIABLES
  record,  \* the worktree's field of the custody hash
  call,    \* the tool calls in flight
  now,     \* the wall clock
  last     \* history: the session whose write was the last, and its inventory

vars == <<record, call, now, last>>

Modes == {"none", "initial", "graceful_handoff", "successor_takeover"}

Record == [state: {"absent", "unowned", "held", "released", "forfeited"},
           custodian: Sessions \cup {NoSession},
           mode: Modes,
           lease_expires_at: Nat,
           handoff: Handoffs \cup {NoHandoff}]

\* The parameters of a tool call; a parameter it does not take has a neutral value.
Request == [op: {"none", "claim", "release", "status"},
            session: Sessions \cup {NoSession},
            lease: 0..MaxLease,
            inventory: BOOLEAN,
            handoff: Handoffs \cup {NoHandoff}]

Call == [req: Request,
         at: Nat,                                         \* its captured clock
         step: {"idle", "read", "expire", "write", "reread"},
         attempt: 1..Attempts,
         seen: Record]                                    \* the record it works from

TypeOK ==
  /\ record \in Record
  /\ call \in [Calls -> Call]
  /\ now \in Nat
  /\ last \in [by: Sessions \cup {NoSession}, inventory: BOOLEAN]

-----------------------------------------------------------------------------
(***************************************************************************)
(* The reducer: what each custody event makes of a record.  Fields it does *)
(* not name, the predecessor's handoff above all, are carried over.        *)
(***************************************************************************)

Blank(state) ==
  [state |-> state, custodian |-> NoSession, mode |-> "none",
   lease_expires_at |-> 0, handoff |-> NoHandoff]

\* No field in the hash; the record a fresh worktree is seeded with.
Absent == Blank("absent")
createCustody == Blank("unowned")

Acquired(r, s, mode, lease) ==
  [state |-> "held", custodian |-> s, mode |-> mode,
   lease_expires_at |-> lease, handoff |-> r.handoff]

Vacated(state, handoff) == [Blank(state) EXCEPT !.handoff = handoff]

\* Event "claim", of an unowned or a released worktree.
Claimed(r, s, lease) ==
  Acquired(r, s, IF r.state = "released" THEN "graceful_handoff" ELSE "initial", lease)

\* Event "assume", of a forfeited worktree.
Assumed(r, s, lease) == Acquired(r, s, "successor_takeover", lease)

\* Event "release", with the custodian's handoff.
Released(h) == Vacated("released", h)

\* Mutant: a lease is over at the very instant it ends.
Lapsed_AtTheInstant(r, t) == r.state = "held" /\ t >= r.lease_expires_at

\* Event "expire": a hold whose lease has passed at the time t is forfeited.
Lapsed(r, t) == r.state = "held" /\ t > r.lease_expires_at

\* Mutant: the dead session is left as custodian.
Forfeited_KeepsCustodian(r) == [r EXCEPT !.state = "forfeited"]

Forfeited(r) == Vacated("forfeited", r.handoff)

-----------------------------------------------------------------------------
(***************************************************************************)
(* The calls.                                                              *)
(***************************************************************************)

NoRequest == [op |-> "none", session |-> NoSession, lease |-> 0,
              inventory |-> FALSE, handoff |-> NoHandoff]

Idle == [req |-> NoRequest, at |-> 0, step |-> "idle", attempt |-> 1, seen |-> Absent]

Requests ==
  [op: {"claim"}, session: Sessions, lease: 1..MaxLease, inventory: BOOLEAN,
   handoff: {NoHandoff}]
  \cup
  [op: {"release"}, session: Sessions, lease: {0}, inventory: {FALSE}, handoff: Handoffs]
  \cup
  [op: {"status"}, session: {NoSession}, lease: {0}, inventory: {FALSE},
   handoff: {NoHandoff}]

Init ==
  /\ record = Absent
  /\ call = [k \in Calls |-> Idle]
  /\ now = 0
  /\ last = [by |-> NoSession, inventory |-> FALSE]

\* Whether a call that found the record r, after any lazy expiry, goes on to
\* write; otherwise it returns: already_held, takeover_requires_inventory,
\* not_held, not_custodian, or the record that a status call asked for.
Writes(req, r) ==
  \/ req.op = "claim" /\ r.state \in {"absent", "unowned", "released"}
  \/ req.op = "claim" /\ r.state = "forfeited" /\ req.inventory
  \/ req.op = "release" /\ r.state = "held" /\ r.custodian = req.session

\* A call once it knows the record r.
Decided(c, r) ==
  IF Writes(c.req, r) THEN [c EXCEPT !.step = "write", !.seen = r] ELSE Idle

\* A tool is called and reads its clock.
Start(k) ==
  /\ call[k].step = "idle"
  /\ \E req \in Requests :
       call' = [call EXCEPT ![k] = [Idle EXCEPT !.req = req, !.at = now, !.step = "read"]]
  /\ UNCHANGED <<record, now, last>>

\* readRecord; a hold that lapsed before the call's clock goes to lazyExpire.
Read(k) ==
  /\ call[k].step = "read"
  /\ call' = [call EXCEPT ![k] =
                IF Lapsed(record, @.at)
                THEN [@ EXCEPT !.step = "expire", !.seen = record]
                ELSE Decided(@, record)]
  /\ UNCHANGED <<record, now, last>>

\* lazyExpire: the forfeiture of the record READ EARLIER is written if the stored
\* state is "held"; the call goes on with the forfeited record whether or not.
Expire(k) ==
  /\ call[k].step = "expire"
  /\ call' = [call EXCEPT ![k] = Decided(@, Forfeited(@.seen))]
  /\ \/ /\ record.state = "held"
        /\ record' = Forfeited(call[k].seen)
        /\ last' = [by |-> NoSession, inventory |-> FALSE]
     \/ /\ record.state # "held"
        /\ UNCHANGED <<record, last>>
  /\ UNCHANGED now

\* The record a call writes.
Outcome(c) ==
  IF c.req.op = "release" THEN Released(c.req.handoff)
  ELSE LET lease == c.at + c.req.lease
       IN  CASE c.seen.state = "absent"    -> Claimed(createCustody, c.req.session, lease)
             [] c.seen.state = "forfeited" -> Assumed(c.seen, c.req.session, lease)
             [] OTHER                      -> Claimed(c.seen, c.req.session, lease)

\* Mutant: the release does not pass its session to the script.
Admits_StateOnly(c) == record.state = c.seen.state

\* The precondition of custody-conditional-set.lua for that write.
Admits(c) ==
  /\ record.state = c.seen.state
  /\ c.req.op = "release" => record.custodian = c.req.session

\* The conditional write succeeds and the call returns ok.
Write(k) ==
  /\ call[k].step = "write"
  /\ Admits(call[k])
  /\ record' = Outcome(call[k])
  /\ last' = [by |-> call[k].req.session, inventory |-> call[k].req.inventory]
  /\ call' = [call EXCEPT ![k] = Idle]
  /\ UNCHANGED now

\* Mutant: the attempt is not counted.
NextAttempt_Uncounted(c) == [c EXCEPT !.step = "read", !.seen = Absent]

\* A call whose write was refused tries again or, the last time, reads the record
\* once more to choose its error.
NextAttempt(c) ==
  IF c.attempt < Attempts
  THEN [c EXCEPT !.step = "read", !.attempt = @ + 1, !.seen = Absent]
  ELSE [c EXCEPT !.step = "reread", !.seen = Absent]

\* The conditional write is refused: a concurrent writer won.
Refused(k) ==
  /\ call[k].step = "write"
  /\ ~Admits(call[k])
  /\ call' = [call EXCEPT ![k] = NextAttempt(@)]
  /\ UNCHANGED <<record, now, last>>

\* The final read of an exhausted call, which returns an error.
Reread(k) ==
  /\ call[k].step = "reread"
  /\ call' = [call EXCEPT ![k] = Idle]
  /\ UNCHANGED <<record, now, last>>

\* The process serving a call dies between two of its steps.
Crash(k) ==
  /\ call[k].step # "idle"
  /\ call' = [call EXCEPT ![k] = Idle]
  /\ UNCHANGED <<record, now, last>>

Tick ==
  /\ now < MaxTime
  /\ now' = now + 1
  /\ UNCHANGED <<record, call, last>>

Step(k) == Read(k) \/ Expire(k) \/ Write(k) \/ Refused(k) \/ Reread(k)

Next == (\E k \in Calls : Start(k) \/ Step(k) \/ Crash(k)) \/ Tick

\* A call awaits only Redis, so each of its steps is eventually taken.
Fairness == \A k \in Calls : WF_vars(Step(k))

Spec == Init /\ [][Next]_vars /\ Fairness

-----------------------------------------------------------------------------
(***************************************************************************)
(* Properties.                                                             *)
(***************************************************************************)

\* However calls interleave and whatever stale record they started from, the
\* stored record moves only as the lifecycle allows: no claim replaces a hold,
\* only the custodian's own call releases it, and a forfeited worktree is
\* reclaimed only as a takeover by a session that gave an inventory.
Lifecycle == INSTANCE CustodyLifecycle
               WITH state <- record.state, custodian <- record.custodian,
                    mode <- record.mode, last <- last
FollowsLifecycle == Lifecycle!Spec

\* The store never refuses its own writing as store_corrupt: whatever calls raced
\* to produce it, the record passes storedCustodySchema, and the fields the model
\* documents as "set iff held" are.
RecordAdmitted ==
  /\ record.state = "held" <=> record.custodian # NoSession
  /\ record.state = "held" <=> record.mode # "none"
  /\ record.state = "released" => record.handoff # NoHandoff
  /\ record.mode = "graceful_handoff" => record.handoff # NoHandoff
  /\ record.mode = "initial" => record.handoff = NoHandoff

\* A call that forfeits the very hold it read never cuts its lease short, not even
\* at the instant the lease ends and with the clock moving between its steps.
ForfeitsOnlyLapsed ==
  [][\A k \in Calls :
       /\ call[k].step = "expire" /\ call[k].seen = record
       /\ record.state = "held" /\ record'.state = "forfeited"
       => now > record.lease_expires_at]_vars

\* Every call returns, although other calls may win every race it enters: the
\* retry is bounded.
CallsReturn == \A k \in Calls : call[k].step # "idle" ~> call[k].step = "idle"

\* OPERATING_RULES 8: a custodian's claim is forfeited on lease expiry, so no hold
\* is forfeited while its lease runs.
LiveHoldKept ==
  [][record.state = "held" /\ record'.state = "forfeited"
       => now > record.lease_expires_at]_vars

\* The custody_release row of the README: the handoff recorded by a release is
\* what the next custodian's record carries.
HandoffReachesSuccessor ==
  [][record.state = "released" /\ record'.state = "held"
       => record'.handoff = record.handoff]_vars
=============================================================================
