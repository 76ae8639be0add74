---------------------------- MODULE TaskClaims ----------------------------
(***************************************************************************)
(* The durable claim path of one actor's inbox: claim_tasks, renew_claim,  *)
(* acknowledge_tasks, lazy recovery, the dead-letter queue and the purge   *)
(* that unregistering performs (src/core/task-claim-store.ts and the Lua   *)
(* scripts under src/mcp-server/lua/).                                     *)
(*                                                                         *)
(* Every Lua script runs atomically in Redis, so each is one action.  A    *)
(* claim_tasks call is not atomic: it captures its clock, then evaluates   *)
(* the recovery script, then the batch-claim script, and other sessions,   *)
(* the clock, crashes and the operator run in between.  The connection     *)
(* sends a script again, with the same arguments, when it broke before the *)
(* answer came: one call may run its scripts several times.                *)
(***************************************************************************)
EXTENDS Integers, FiniteSets, Sequences, SequencesExt

CONSTANTS
  Msgs,           \* message envelopes, told apart by their id
  Legacy,         \* those whose envelope decodes to no id: no recovery counter
  ClaimIds,       \* claim uuids, never issued twice
  Sessions,       \* runtime sessions bound to the actor
  NoSession,      \* no session has held the message yet
  QueueBound,     \* max_queue_size of the inbox
  MaxBatch,       \* largest max_batch a caller asks for
  MaxTtl,         \* longest ttl_seconds a caller asks for
  Budget,         \* CLAIM_LIFETIME_BUDGET_SECONDS
  RecoverCap,     \* DLQ_PROVISIONAL.RECOVER_CAP
  DlqMax,         \* DLQ_PROVISIONAL.DLQ_MAX_LENGTH
  CounterTtl,     \* DLQ_PROVISIONAL.RECOVER_COUNTER_TTL_SECONDS
  Ceilings,       \* the max_concurrency the actor may have; 0 for a plain agent
  MaxDamage,      \* bound on the keys that another program overwrites
  MaxLost,        \* bound on the answers that are lost
  MaxTime         \* bound on the clock

ASSUME SetsAssumption ==
  /\ IsFiniteSet(Msgs)
  /\ IsFiniteSet(ClaimIds)
  /\ Legacy \subseteq Msgs
  /\ NoSession \notin Sessions

ASSUME BoundsAssumption ==
  /\ {QueueBound, MaxBatch, MaxTtl, RecoverCap, DlqMax, CounterTtl} \subseteq Nat \ {0}
  /\ {MaxDamage, MaxLost, MaxTime, Budget} \subseteq Nat
  /\ Ceilings \subseteq Nat
  /\ MaxTtl <= Budget    \* 3600 <= 86400

VARIABLES
  \* What Redis holds.
  inbox,       \* list gptq:q:<actor>, head first
  claims,      \* the actor's fields of hash gptq:claims: claim id -> record
  index,       \* zset gptq:claims-index:<actor>: claim id -> score
  dlq,         \* list gptq:dlq:<actor>, newest first
  rc,          \* gptq:rc:<actor>:<id>: recoveries so far, 0 when the key is absent
  rcExpires,   \* the instant that key's TTL removes it
  wrong,       \* which of those keys hold a value of the wrong type
  badCounter,  \* messages whose counter holds a value INCR refuses
  \* The world outside, and the claim_tasks calls in flight.
  now,         \* the wall clock
  damage,      \* keys overwritten so far
  pc,          \* where each session's claim_tasks call stands
  at,          \* the clock value that call captured
  req,         \* the batch-claim request the connection has to send again, if any
  lost,        \* answers lost so far
  limit,       \* the actor's ceiling, the same all along
  \* History, read by no guard except to keep message and claim ids unique.
  sent,        \* messages in the order the inbox accepted them
  fate,        \* where each message ended
  issued,      \* claim ids used so far
  told,        \* those an answer gave to the session that asked
  stranded,    \* claims in the hash that the index never got
  holder,      \* the last session each message was delivered to
  ackedBy,     \* the session that acknowledged each message
  recovered,   \* recoveries of each message with an id since it was sent or requeued
  lapsed       \* messages whose counter's TTL ran out since then

store == <<inbox, claims, index, dlq, rc, rcExpires, wrong, badCounter>>
env   == <<now, damage>>
calls == <<pc, at, req, lost, limit>>
ghost == <<sent, fate, issued, told, stranded, holder, ackedBy, recovered, lapsed>>
vars  == <<store, env, calls, ghost>>

Claim == [session: Sessions, claimed_at: Nat, expires_at: Nat, tasks: Seq(Msgs)]
Request == [claim: ClaimIds, ttl: 1..MaxTtl, max: 1..MaxBatch]
Keys == {"inbox", "dlq", "claims", "index"}
Fates == {"unsent", "live", "acked", "dropped", "purged", "overwritten", "aborted", "stranded"}
Holder == Sessions \cup {NoSession}

TypeOK ==
  /\ inbox \in Seq(Msgs)
  /\ DOMAIN claims \subseteq ClaimIds
  /\ claims \in [DOMAIN claims -> Claim]
  /\ DOMAIN index \subseteq ClaimIds
  /\ index \in [DOMAIN index -> Nat]
  /\ dlq \in Seq(Msgs)
  /\ rc \in [Msgs -> Nat]
  /\ rcExpires \in [Msgs -> Nat]
  /\ wrong \subseteq Keys
  /\ badCounter \subseteq Msgs
  /\ now \in Nat
  /\ damage \in Nat
  /\ pc \in [Sessions -> {"idle", "recovering", "claiming", "resending"}]
  /\ at \in [Sessions -> Nat]
  /\ req \in [Sessions -> SUBSET Request]
  /\ lost \in Nat
  /\ limit \in Nat
  /\ sent \in Seq(Msgs)
  /\ fate \in [Msgs -> Fates]
  /\ issued \subseteq ClaimIds
  /\ told \subseteq ClaimIds
  /\ stranded \subseteq ClaimIds
  /\ holder \in [Msgs -> Holder]
  /\ ackedBy \in [Msgs -> Holder]
  /\ recovered \in [Msgs -> Nat]
  /\ lapsed \subseteq Msgs

Init ==
  /\ inbox = <<>> /\ dlq = <<>> /\ sent = <<>>
  /\ claims = <<>> /\ index = <<>>
  /\ rc = [m \in Msgs |-> 0]
  /\ rcExpires = [m \in Msgs |-> 0]
  /\ wrong = {} /\ badCounter = {} /\ lapsed = {}
  /\ issued = {} /\ told = {} /\ stranded = {}
  /\ now = 0 /\ damage = 0
  /\ pc = [s \in Sessions |-> "idle"]
  /\ at = [s \in Sessions |-> 0]
  /\ req = [s \in Sessions |-> {}]
  /\ lost = 0
  /\ limit \in Ceilings
  /\ fate = [m \in Msgs |-> "unsent"]
  /\ holder = [m \in Msgs |-> NoSession]
  /\ ackedBy = [m \in Msgs |-> NoSession]
  /\ recovered = [m \in Msgs |-> 0]

-----------------------------------------------------------------------------
(***************************************************************************)
(* Helpers.                                                                *)
(***************************************************************************)

\* A hash or zset without the given fields.
Without(f, S) == Restrict(f, DOMAIN f \ S)

\* A hash or zset with one field written.
With(f, k, v) == [x \in DOMAIN f \cup {k} |-> IF x = k THEN v ELSE f[x]]

\* The messages a set of claims holds; a claim id missing from the hash holds none.
TasksOf(C) == UNION {Range(claims[c].tasks) : c \in C \cap DOMAIN claims}

\* Mutant: a claim counts as expired at the very instant of its expiry.
Expired_AtTheInstant(t) == {c \in DOMAIN index : index[c] <= t}

\* ZRANGEBYSCORE -inf (t - 1): claims whose score lies strictly before t.
Expired(t) == {c \in DOMAIN index : index[c] < t}

\* Pass 1 of the recovery script: a key of the wrong type, or a counter it cannot raise.
Blocked(C) ==
  \/ (TasksOf(C) \ Legacy) \cap badCounter # {}
  \/ wrong # {}

\* Mutant: one recovery too many before the dead-letter queue.
Exhausted_OneMore(C) == {m \in TasksOf(C) \ Legacy : rc[m] > RecoverCap}

\* The messages whose counter the recovery script raises past the cap.
Exhausted(C) == {m \in TasksOf(C) \ Legacy : rc[m] + 1 > RecoverCap}

\* The orders in which the script may walk the claims C: by score, ties by uuid.
ClaimOrders(C) ==
  {ord \in Bijection(C, 1..Cardinality(C)) :
      \A c, e \in C : index[c] < index[e] => ord[c] < ord[e]}

\* m is pushed before n when claims are walked in order ord.
PushedBefore(ord, m, n) ==
  \E c, e \in DOMAIN ord \cap DOMAIN claims :
    \E i \in DOMAIN claims[c].tasks, j \in DOMAIN claims[e].tasks :
      /\ claims[c].tasks[i] = m
      /\ claims[e].tasks[j] = n
      /\ ord[c] < ord[e] \/ (c = e /\ i < j)

\* The messages S as a list, in the order they are pushed.
PushOrder(ord, S) ==
  {q \in Bijection(1..Cardinality(S), S) :
      \A i, j \in DOMAIN q : i < j => ~PushedBefore(ord, q[j], q[i])}

\* LTRIM 0 (DlqMax - 1)
Trimmed(list) == SubSeq(list, 1, IF Len(list) < DlqMax THEN Len(list) ELSE DlqMax)

-----------------------------------------------------------------------------
(***************************************************************************)
(* Actions.                                                                *)
(***************************************************************************)

\* Mutant: LPUSH in place of RPUSH.
Send_AtHead(m) ==
  /\ fate[m] = "unsent"
  /\ "inbox" \notin wrong
  /\ Len(inbox) < QueueBound
  /\ inbox' = <<m>> \o inbox
  /\ sent' = Append(sent, m)
  /\ fate' = [fate EXCEPT ![m] = "live"]
  /\ UNCHANGED <<claims, index, dlq, rc, rcExpires, wrong, badCounter, env, calls,
                 issued, told, stranded, holder, ackedBy, recovered, lapsed>>

\* bounded-push.lua: refused at the bound or on a wrong-typed inbox.  Ids are
\* fresh uuids; a second copy that a resent push queues (Mailbox) is another
\* message here.  A legacy payload arrives this way from an older producer.
Send(m) ==
  /\ fate[m] = "unsent"
  /\ "inbox" \notin wrong
  /\ Len(inbox) < QueueBound
  /\ inbox' = Append(inbox, m)
  /\ sent' = Append(sent, m)
  /\ fate' = [fate EXCEPT ![m] = "live"]
  /\ UNCHANGED <<claims, index, dlq, rc, rcExpires, wrong, badCounter, env, calls,
                 issued, told, stranded, holder, ackedBy, recovered, lapsed>>

\* claim_tasks is called: claim() receives the clock read at this moment.
StartClaim(s) ==
  /\ pc[s] = "idle"
  /\ pc' = [pc EXCEPT ![s] = "recovering"]
  /\ at' = [at EXCEPT ![s] = now]
  /\ UNCHANGED <<store, env, req, lost, limit, ghost>>

\* Pass 2 of claims-recover.lua: the claims C are removed and each of their
\* messages is pushed to the inbox tail or, past the cap, to the DLQ, which is
\* trimmed; counters are raised or, for a dead-lettered message, deleted.
MoveExpired(C) ==
  LET dead == Exhausted(C)
      back == TasksOf(C) \ dead
  IN  /\ claims' = Without(claims, C)
      /\ index' = Without(index, C)
      /\ \E ord \in ClaimOrders(C) :
           /\ \E q \in PushOrder(ord, back) : inbox' = inbox \o q
           /\ \E d \in PushOrder(ord, dead) : dlq' = Trimmed(Reverse(d) \o dlq)
      /\ fate' = [m \in Msgs |->
                    IF m \in (dead \cup Range(dlq)) \ Range(dlq') THEN "dropped" ELSE fate[m]]
      /\ rc' = [m \in Msgs |-> IF m \in dead THEN 0
                               ELSE IF m \in back \ Legacy THEN rc[m] + 1 ELSE rc[m]]
      /\ rcExpires' = [m \in Msgs |-> IF m \in dead THEN 0
                                      ELSE IF m \in back \ Legacy /\ rc[m] = 0
                                      THEN now + CounterTtl ELSE rcExpires[m]]
      /\ recovered' = [m \in Msgs |-> IF m \in back \ Legacy THEN recovered[m] + 1 ELSE recovered[m]]
      /\ UNCHANGED <<wrong, badCounter, sent, issued, told, stranded, holder, ackedBy, lapsed>>

\* Mutant: the claims are deleted before their destinations are tried, so a push
\* that fails aborts the script with the messages gone.
Recover_DeleteFirst(t) ==
  LET C == Expired(t)
  IN  \/ C = {} /\ UNCHANGED <<store, ghost>>
      \/ /\ C # {} /\ Blocked(C)
         /\ claims' = Without(claims, C)
         /\ index' = Without(index, C)
         /\ UNCHANGED <<inbox, dlq, rc, rcExpires, wrong, badCounter, ghost>>
      \/ C # {} /\ ~Blocked(C) /\ MoveExpired(C)

\* claims-recover.lua with cutoff t: nothing changes when no claim has expired
\* or pass 1 finds a destination of the wrong type.
Recover(t) ==
  LET C == Expired(t)
  IN  \/ (C = {} \/ Blocked(C)) /\ UNCHANGED <<store, ghost>>
      \/ C # {} /\ ~Blocked(C) /\ MoveExpired(C)

\* The call returns, and forgets its clock and its request.
EndCall(s) ==
  /\ pc' = [pc EXCEPT ![s] = "idle"]
  /\ at' = [at EXCEPT ![s] = 0]
  /\ req' = [req EXCEPT ![s] = {}]
  /\ UNCHANGED <<lost, limit>>

\* The connection breaks before the answer comes.
AnswerLost ==
  /\ lost < MaxLost
  /\ lost' = lost + 1
  /\ UNCHANGED limit

\* The first half of claim(): recoverExpired with the captured clock; a
\* store_corrupt result, or the error of a wrong-typed index, ends the call.
RecoverForClaim(s) ==
  /\ pc[s] = "recovering"
  /\ Recover(at[s])
  /\ \/ IF "index" \in wrong \/ (Expired(at[s]) # {} /\ Blocked(Expired(at[s])))
        THEN EndCall(s)
        ELSE pc' = [pc EXCEPT ![s] = "claiming"] /\ UNCHANGED <<at, req, lost, limit>>
     \/ AnswerLost /\ UNCHANGED <<pc, at, req>>
  /\ UNCHANGED env

\* The runtime's dispatcher and a rename recover the actor with the present clock.
RecoverExpired ==
  /\ Expired(now) # {}
  /\ Recover(now)
  /\ UNCHANGED <<env, calls>>

\* Mutant: the ceiling is checked with > in place of >=.
AtCeiling_OneMore == limit > 0 /\ ("index" \in wrong \/ Cardinality(DOMAIN index) > limit)

\* ZCARD of the index, which fails on one of the wrong type.
AtCeiling == limit > 0 /\ ("index" \in wrong \/ Cardinality(DOMAIN index) >= limit)

\* claims-batch-claim.lua ends before its first pop, or at it.
Refused == AtCeiling \/ inbox = <<>> \/ "inbox" \in wrong

\* The answer reaches the caller: the claim, or the error the script died of.
Answered(s, r) ==
  /\ EndCall(s)
  /\ told' = IF wrong \cap {"claims", "index"} = {} THEN told \cup {r.claim} ELSE told

\* The driver keeps the request, to send it again.
Unanswered(s, r) ==
  /\ AnswerLost
  /\ pc' = [pc EXCEPT ![s] = "resending"]
  /\ req' = [req EXCEPT ![s] = {r}]
  /\ UNCHANGED <<at, told>>

\* The script returns without a claim.
ClaimNothing(s) ==
  /\ pc[s] \in {"claiming", "resending"}
  /\ Refused
  /\ EndCall(s)
  /\ UNCHANGED <<store, env, ghost>>

\* The messages that the pops take and leave.
Batch(max) == SubSeq(inbox, 1, IF Len(inbox) < max THEN Len(inbox) ELSE max)
Rest(max) == SubSeq(inbox, (IF Len(inbox) < max THEN Len(inbox) ELSE max) + 1, Len(inbox))

\* The claim the script writes, its expiry counted from the captured clock.
Granted(s, r) ==
  [session |-> s, claimed_at |-> at[s], expires_at |-> at[s] + r.ttl, tasks |-> Batch(r.max)]

\* The rest of the script: pop up to max_batch messages, HSET the claim, ZADD it.  A
\* hash of the wrong type ends it after the pops, an index of the wrong type after
\* the HSET; whatever the hash has under the claim's id is overwritten.
RunBatch(s, r) ==
  LET popped == Range(Batch(r.max))
      old == TasksOf({r.claim})
  IN  /\ inbox' = Rest(r.max)
      /\ \/ /\ "claims" \in wrong
            /\ fate' = [m \in Msgs |-> IF m \in popped THEN "aborted" ELSE fate[m]]
            /\ UNCHANGED <<claims, index, stranded, holder>>
         \/ /\ "claims" \notin wrong
            /\ claims' = With(claims, r.claim, Granted(s, r))
            /\ holder' = [m \in Msgs |-> IF m \in popped THEN s ELSE holder[m]]
            /\ fate' = [m \in Msgs |-> IF m \in old THEN "overwritten"
                                       ELSE IF m \in popped /\ "index" \in wrong THEN "stranded"
                                       ELSE fate[m]]
            /\ IF "index" \in wrong
               THEN stranded' = stranded \cup {r.claim} /\ UNCHANGED index
               ELSE stranded' = stranded \ {r.claim} /\ index' = With(index, r.claim, at[s] + r.ttl)
      /\ UNCHANGED <<dlq, rc, rcExpires, wrong, badCounter, env, sent, ackedBy, recovered, lapsed>>

\* The second half of claim(): the batch-claim script under a fresh claim id.
BatchClaim(s, r) ==
  /\ pc[s] = "claiming"
  /\ r.claim \notin issued
  /\ ~Refused
  /\ RunBatch(s, r)
  /\ issued' = issued \cup {r.claim}
  /\ Answered(s, r) \/ Unanswered(s, r)

\* The driver sends the script again, with the arguments it had.
Resend(s, r) ==
  /\ pc[s] = "resending"
  /\ r \in req[s]
  /\ ~Refused
  /\ RunBatch(s, r)
  /\ UNCHANGED issued
  /\ Answered(s, r) \/ Unanswered(s, r)

\* The process serving a claim_tasks call dies between two of its steps, or the
\* driver has sent the script as often as it may.
CrashCall(s) ==
  /\ pc[s] # "idle"
  /\ EndCall(s)
  /\ UNCHANGED <<store, env, ghost>>

\* Mutant: the owner of the claim is not checked.
Acknowledge_AnySession(s, c) ==
  /\ c \in told \cap DOMAIN claims
  /\ claims' = Without(claims, {c})
  /\ index' = Without(index, {c})
  /\ LET done == TasksOf({c})
     IN  /\ fate' = [m \in Msgs |-> IF m \in done THEN "acked" ELSE fate[m]]
         /\ ackedBy' = [m \in Msgs |-> IF m \in done THEN s ELSE ackedBy[m]]
  /\ UNCHANGED <<inbox, dlq, rc, rcExpires, wrong, badCounter, env, calls,
                 sent, issued, told, stranded, holder, recovered, lapsed>>

\* claims-ack.lua: only the owning session; expiry is not looked at.  The session has
\* the claim's id from an answer.
Acknowledge(s, c) ==
  /\ c \in told \cap DOMAIN claims
  /\ claims[c].session = s
  /\ claims' = Without(claims, {c})
  /\ index' = Without(index, {c})
  /\ LET done == TasksOf({c})
     IN  /\ rc' = [m \in Msgs |-> IF m \in done \ Legacy THEN 0 ELSE rc[m]]
         /\ rcExpires' = [m \in Msgs |-> IF m \in done \ Legacy THEN 0 ELSE rcExpires[m]]
         /\ badCounter' = badCounter \ (done \ Legacy)
         /\ fate' = [m \in Msgs |-> IF m \in done THEN "acked" ELSE fate[m]]
         /\ ackedBy' = [m \in Msgs |-> IF m \in done THEN s ELSE ackedBy[m]]
  /\ UNCHANGED <<inbox, dlq, wrong, env, calls, sent, issued, told, stranded, holder, recovered,
                 lapsed>>

\* Mutant: the lifetime budget is forgotten.
RenewedExpiry_Uncapped(c, ttl) == now + ttl

\* The expiry a renewal at the present clock would set.
RenewedExpiry(c, ttl) ==
  LET cap == claims[c].claimed_at + Budget
  IN  IF now + ttl > cap THEN cap ELSE now + ttl

\* claims-renew.lua: the owner of an unexpired claim moves its expiry, never
\* past the lifetime budget; the index is written with ZADD XX.
Renew(s, c, ttl) ==
  /\ c \in told \cap DOMAIN claims
  /\ claims[c].session = s
  /\ claims[c].expires_at > now
  /\ RenewedExpiry(c, ttl) > now
  /\ claims' = [claims EXCEPT ![c].expires_at = RenewedExpiry(c, ttl)]
  /\ index' = [x \in DOMAIN index |-> IF x = c THEN RenewedExpiry(c, ttl) ELSE index[x]]
  /\ UNCHANGED <<inbox, dlq, rc, rcExpires, wrong, badCounter, env, calls, ghost>>

\* claims-requeue.lua: the DLQ entry goes back to the inbox tail, whatever the
\* queue bound says, with a fresh recovery budget.
Requeue(m) ==
  /\ m \notin Legacy
  /\ wrong = {}
  /\ \E i \in DOMAIN dlq :
       /\ dlq[i] = m
       /\ dlq' = RemoveAt(dlq, i)
  /\ inbox' = Append(inbox, m)
  /\ rc' = [rc EXCEPT ![m] = 0]
  /\ rcExpires' = [rcExpires EXCEPT ![m] = 0]
  /\ badCounter' = badCounter \ {m}
  /\ recovered' = [recovered EXCEPT ![m] = 0]
  /\ lapsed' = lapsed \ {m}
  /\ UNCHANGED <<claims, index, wrong, env, calls, sent, fate, issued, told, stranded,
                 holder, ackedBy>>

\* UNREGISTER_SCRIPT with purge_actor_claims: the indexed claims, the index, the DLQ
\* and the inbox go, of whatever type, with the counters of the claimed and
\* dead-lettered messages; counters of messages still queued are left to their TTL,
\* and the hash, which all actors share, is never deleted.
Unregister ==
  LET counted == (TasksOf(DOMAIN index) \cup Range(dlq)) \ Legacy
      gone == TasksOf(DOMAIN index) \cup Range(dlq) \cup Range(inbox)
  IN  /\ gone # {} \/ wrong # {}
      /\ inbox' = <<>> /\ dlq' = <<>>
      /\ claims' = Without(claims, DOMAIN index)
      /\ index' = Without(index, DOMAIN index)
      /\ wrong' = wrong \cap {"claims"}
      /\ rc' = [m \in Msgs |-> IF m \in counted THEN 0 ELSE rc[m]]
      /\ rcExpires' = [m \in Msgs |-> IF m \in counted THEN 0 ELSE rcExpires[m]]
      /\ badCounter' = badCounter \ counted
      /\ fate' = [m \in Msgs |-> IF m \in gone THEN "purged" ELSE fate[m]]
      /\ UNCHANGED <<env, calls, sent, issued, told, stranded, holder, ackedBy, recovered, lapsed>>

\* Time passes; a counter whose TTL runs out disappears.
Tick ==
  /\ now < MaxTime
  /\ now' = now + 1
  /\ LET out == {m \in Msgs : rc[m] > 0 /\ rcExpires[m] <= now + 1}
     IN  /\ rc' = [m \in Msgs |-> IF m \in out THEN 0 ELSE rc[m]]
         /\ rcExpires' = [m \in Msgs |-> IF m \in out THEN 0 ELSE rcExpires[m]]
         /\ lapsed' = lapsed \cup out
  /\ UNCHANGED <<inbox, claims, index, dlq, wrong, badCounter, damage, calls,
                 sent, fate, issued, told, stranded, holder, ackedBy, recovered>>

\* Another program writes a value of the wrong type where a recovery counter lives or
\* where the actor has nothing: an empty list, hash or index; one key at a time.
Corrupt ==
  /\ damage < MaxDamage
  /\ damage' = damage + 1
  /\ wrong = {} /\ badCounter = {}
  /\ \/ inbox = <<>> /\ wrong' = {"inbox"} /\ UNCHANGED badCounter
     \/ dlq = <<>> /\ wrong' = {"dlq"} /\ UNCHANGED badCounter
     \/ DOMAIN claims = {} /\ wrong' = {"claims"} /\ UNCHANGED badCounter
     \/ DOMAIN index = {} /\ wrong' = {"index"} /\ UNCHANGED badCounter
     \/ \E m \in TasksOf(DOMAIN claims) \ Legacy : badCounter' = {m} /\ UNCHANGED wrong
  /\ UNCHANGED <<inbox, claims, index, dlq, rc, rcExpires, now, calls, ghost>>

\* The operator deletes the offending key; a deleted counter counts from zero.
Repair ==
  /\ wrong # {} \/ badCounter # {}
  /\ wrong' = {} /\ badCounter' = {}
  /\ rc' = [m \in Msgs |-> IF m \in badCounter THEN 0 ELSE rc[m]]
  /\ rcExpires' = [m \in Msgs |-> IF m \in badCounter THEN 0 ELSE rcExpires[m]]
  /\ lapsed' = lapsed \cup badCounter
  /\ UNCHANGED <<inbox, claims, index, dlq, env, calls,
                 sent, fate, issued, told, stranded, holder, ackedBy, recovered>>

Next ==
  \/ \E m \in Msgs : Send(m) \/ Requeue(m)
  \/ \E s \in Sessions :
       \/ StartClaim(s) \/ RecoverForClaim(s) \/ ClaimNothing(s) \/ CrashCall(s)
       \/ \E r \in Request : BatchClaim(s, r) \/ Resend(s, r)
       \/ \E c \in ClaimIds : Acknowledge(s, c)
       \/ \E c \in ClaimIds, ttl \in 1..MaxTtl : Renew(s, c, ttl)
  \/ RecoverExpired
  \/ Unregister
  \/ Tick
  \/ Corrupt
  \/ Repair

Spec == Init /\ [][Next]_vars

-----------------------------------------------------------------------------
(***************************************************************************)
(* Properties.                                                             *)
(***************************************************************************)

\* However claims, recoveries, dead-lettering, requeues and acknowledgements
\* interleave, a message is held by at most one of the inbox, one claim and the
\* DLQ, and once there: no two sessions work on copies the store made.
ExactlyOneCopy ==
  /\ IsInjective(inbox)
  /\ IsInjective(dlq)
  /\ Range(inbox) \cap Range(dlq) = {}
  /\ \A c \in DOMAIN claims :
       /\ IsInjective(claims[c].tasks)
       /\ Range(claims[c].tasks) \cap (Range(inbox) \cup Range(dlq)) = {}
       /\ \A e \in DOMAIN claims \ {c} :
            Range(claims[c].tasks) \cap Range(claims[e].tasks) = {}

\* An accepted message is where it can still be delivered from, the inbox, the DLQ or a
\* claim that recovery finds, until it is acknowledged, trimmed off the DLQ or purged with
\* its actor.  Only three accidents of claims-batch-claim.lua take it out before: a script
\* sent again overwrites its own claim, and a hash or an index of the wrong type ends the
\* script after its pops.  Recovery, which looks before it writes, loses nothing.
NothingLost ==
  \A m \in Msgs :
    /\ fate[m] = "live" <=> m \in Range(inbox) \cup Range(dlq) \cup TasksOf(DOMAIN index)
    /\ fate[m] = "overwritten" => lost > 0
    /\ fate[m] \in {"aborted", "stranded"} => damage > 0

\* Between sender and acknowledgement a message is in the store exactly once, and leaves
\* it in no other way than those.
StoredOnce == ExactlyOneCopy /\ NothingLost

\* OPERATING_RULES 1 and the tool's description as written: delivery on the claim path is
\* at least once, so a batch whose answer was lost comes back; it is not replaced by the
\* batch that the same call, sent again, takes.
NoBatchReplaced == \A m \in Msgs : fate[m] # "overwritten"

\* Where the store has a message, and the sessions whose claims name it.
Place(m) ==
  IF fate[m] # "live" THEN fate[m]
  ELSE IF m \in Range(inbox) THEN "queued"
  ELSE IF m \in Range(dlq) THEN "dead"
  ELSE IF m \in TasksOf(DOMAIN index) THEN "held" ELSE "lost"
ClaimedBy(m) ==
  {claims[c].session : c \in {e \in DOMAIN claims \ stranded : m \in Range(claims[e].tasks)}}

\* The claim path implements at-least-once delivery but for the accidents of NothingLost:
\* with two scripts per call, stale clocks, crashes, lost answers and keys of the wrong
\* type, a message only moves from the queue to one session, from there to its
\* acknowledgement, back, or to the dead letters, and from these back to the queue; a batch
\* is overwritten only by the session that has it; and an unregistration leaves none behind.
AtLeastOnce == INSTANCE Delivery
                 WITH place <- [m \in Msgs |-> Place(m)], by <- [m \in Msgs |-> ClaimedBy(m)]
DeliversAtLeastOnce == AtLeastOnce!Spec

\* Recovery finds every claim in the index, at the expiry its record shows, except one
\* whose script died on an index of the wrong type; and no session was told of that one.
IndexMirrorsHash ==
  /\ DOMAIN index = DOMAIN claims \ stranded
  /\ \A c \in DOMAIN index : index[c] = claims[c].expires_at
  /\ told \cap stranded = {}

\* No sequence of renewals keeps a claim past its lifetime budget.
WithinBudget ==
  \A c \in DOMAIN claims : claims[c].expires_at <= claims[c].claimed_at + Budget

\* Renewals, however many, leave a claim that recovery finds at the expiry its
\* record shows, and that ends within its lifetime budget.
RenewalsAreBounded == IndexMirrorsHash /\ WithinBudget

\* Concurrent claim_tasks calls, their scripts sent again or not, never leave the actor
\* with more outstanding claims than its admitted max_concurrency.
ConcurrencyCeiling ==
  limit > 0 => Cardinality(DOMAIN claims) <= limit

\* A slow worker whose claim was recovered cannot acknowledge the batch its
\* successor holds: the acknowledging session is the last one to hold the message.
OnlyLastHolderAcks ==
  \A m \in Msgs : fate[m] = "acked" => ackedBy[m] = holder[m]

\* A claim leaves the store unacknowledged only after the expiry its record
\* shows, unless the whole actor is purged: a renewed claim is not recovered by a
\* caller that read its clock earlier, nor by a recovery that is sent again.
LeaseHonoured ==
  [][\A c \in DOMAIN claims \ DOMAIN claims' :
       \/ claims[c].expires_at < now
       \/ \A m \in TasksOf({c}) : fate'[m] \in {"acked", "purged"}]_vars

\* Messages are first claimed in the order of acceptance: one gets into a session's claim
\* only after every message accepted before it, unless that one was purged or went down
\* with a script that found the hash of the wrong type.
FirstDeliveryInOrder ==
  \A i, j \in DOMAIN sent :
    i < j /\ holder[sent[j]] # NoSession =>
      holder[sent[i]] # NoSession \/ fate[sent[i]] \in {"purged", "aborted"}

\* A message that keeps coming back is quarantined: without a lapse of its
\* counter it re-enters the inbox at most RECOVER_CAP times per budget.
PoisonIsQuarantined ==
  \A m \in Msgs \ (Legacy \cup lapsed) : recovered[m] <= RecoverCap

\* OPERATING_RULES 4 as written: a task recovered more than RECOVER_CAP times
\* without an ack is in the DLQ, not the inbox.
DeadLetterAfterCap ==
  \A m \in Msgs \ Legacy : recovered[m] <= RecoverCap

\* claims-batch-claim.lua, comment on the ceiling: lazy recovery has run, so the
\* index holds only live claims when the batch-claim script counts them.
CeilingCountsLiveClaims ==
  \A s \in Sessions : pc[s] = "claiming" => Expired(now) = {}
=============================================================================
