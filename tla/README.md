# A TLA+ model of gptqueue

gptqueue lets coding agents pass work to one another through Redis. Agents register
under a name, send messages to each other's mailboxes, claim tasks from their own
mailbox under a lease, hold custody of git worktrees, and can be launched when mail
arrives for them while they are offline. Its correctness lies in what happens between
two Redis round trips: every tool is a chain of awaits, several servers and runtimes run
them at once, processes die, leases run out, and only the Lua scripts are atomic.

This directory models that behaviour from the source under `src/src/`, checks it with TLC
on small instances and proves the safety properties that matter most with TLAPS for every
value of the parameters.

## 1. Inventory

| Component | State | Operations | Where it is hard | What makes it correct |
|---|---|---|---|---|
| **Task claims** `core/task-claim-store.ts`, `lua/claims-*.lua` | inbox list, claims hash, expiry index, DLQ, recovery counters with a TTL | `claim_tasks` (recover, then batch-claim), `renew_claim`, `acknowledge_tasks`, `dlq_requeue`, purge on unregister, recovery by the dispatcher | two scripts under one clock captured before both; a script sent again after its answer was lost; acknowledgements after expiry; keys of the wrong type; counters that lapse | nothing doubled, nothing lost but by the accidents of findings 13 and 14, leases and budgets kept, ownership, ceiling, quarantine of poison, order |
| **Custody** `core/custody-store.ts`, `custody-model.ts` | one record per worktree | `custody_claim`, `custody_release`, `custody_status` | read, lazy expiry and conditional write are separate awaits; the precondition names only the state | the record follows the lifecycle; holds end by release or lapse; handoffs reach the successor; calls return |
| **send_message, wake on send** `tools/send-message.ts`, `core/wake-lease.ts`, `presence-input.ts`, `reconcile-wake-lease.ts`, `launcher.ts` | wake lease with spawn evidence, processes | send, `actor_status`, `register_agent`'s runtime_ready | presence is read several awaits before the launch; processes die at any time; leases lapse | one launch per lease, evidence on its own lease, failed activations not joined, replaced leases spared, policy changes honoured |
| **Mailbox** `core/mailbox-store.ts` | inbox list, idempotency keys, DLQ | bounded send, idempotent send, blocking receive and its quarantine, migration | a send is resent by the driver or repeated by the caller after its answer was lost; a destructive pop whose client is gone; pushes during a rename | every message is in one place; one queued copy per key; a rename takes the mail along; a closed client is not left parked |
| **Actor directory** `core/actor-directory.ts` | profile hash | `actor_register`, lookup | read, owner check and conditional write are separate awaits, tried twice | the owner never changes; the answer given is true; a lost race is explained |
| **Sessions and registry** `core/session-store.ts` | registry with pending and restore fields, session records, leases, session sets | create (provisional, publish, undo), refresh, prune, close, reconnect | a registration abandoned half way racing another of the same name; a write whose answer was lost; a refresh in flight at a close | an undo is exact; presence is what the leases say; a closed session stays closed |
| **RedisClient** `mcp-server/redis-client.ts` | bound identity, heartbeat and refresh timers | register, rename with rollback, adopt, unregister, reconnect, shutdown | each is a chain of awaits any of which may fail | a client that answers as an agent keeps its lease; a name is adopted only when nobody holds it |
| **Continuity and occupancy** `core/mailbox-continuity.ts`, `occupancy-guard.ts`, `registered-shell/runtime-mailbox.ts` | map from runtimes to mailboxes, owner keys, sent markers | bind, the operator's plan and its application | a plan made before a bind or before mail arrived and applied after it | a bound runtime keeps its mailbox; an address that was sent from is kept for a day; a closed shell leaves nothing but a binding it failed to drop |
| **Inbox dispatcher** `registered-shell/inbox-dispatcher.ts`, `activation-store.ts` | fenced activation record | reconcile loop, save, submit, look up | a crash, a stall or a lost answer between saving and submitting | one submission per record; doubt is kept; mail is activated in the end |
| **Runtime adapters** `registered-shell/codex-*`, `opencode-*`, `pi-*` | socket and pending requests; backends of native sessions | submit, look up, open and close a backend | late, repeated and malformed answers; a session deleted while its backend opens | a request is settled once by its own answer; no backend is orphaned, but for a session its registration left half made |
| **Wrapper** `experimental-wrapper/index.ts`, `identity-claim.ts`, `bridge.ts` | claim key, session, child process, bridge sessions | claim, register, launch, escalate, clean up | signals at any step, failing cleanup, another session of the name | one runtime per name; cleanup spares others; exit status 0 is honest; a signal ends it |
| **PTY wrapper** `pty-wrapper/` | watcher, idleness, pending notice | subscribe or poll, notice, exit | notifications, output, timers and signals in any order | one notice, in a quiet moment; mail is noticed; exit ends |
| **HTTP transport** `transports/http.ts` | session table, activity times | initialise, request, delete, reap | the reaper against open requests; rejected initializations; a close that fails; receives in progress when the bridge closes | the reaper reaches every client but those of rejected initializations and failed closes; none is reaped with a request open; receives end with the bridge |
| Launch policy, diagnostics, entry points | none of protocol relevance | validation, reports, wiring | | not modelled |

How they interact: every component talks to the others only through Redis and through the
tool calls. `send_message` pushes to the mailbox that `claim_tasks` pops; the mailbox
list is also where recovery and requeue put messages back. `register_agent` ends an
activation that `send_message` began. Unregistering purges the claims of the name. The
dispatcher runs the same recovery script as `claim_tasks`.

## 2. Modules

| Module | Role |
|---|---|
| `Delivery` | abstract: at-least-once delivery, message by message, to one session at a time |
| `TaskClaims` | the durable claim path of one actor's inbox; implements `Delivery` |
| `TaskClaims_proofs` | lemmas about lists; theorems about `TaskClaims` |
| `CustodyLifecycle` | abstract: what may happen to a worktree's record, one atomic step each |
| `Custody`, `Custody_proofs` | the custody calls, await by await; implements `CustodyLifecycle`; theorems |
| `WakeOnSend`, `WakeOnSend_proofs` | sends and status reads of one actor, its wake lease and its processes; theorems |
| `Registry`, `Registry_proofs` | names, sessions and leases, and the clients that register, rename, adopt, close, unregister and reconnect; theorems |
| `Mailbox`, `Mailbox_proofs` | sends, receives, renames and unregistrations as the mail sees them; theorems |
| `Activation` | the dispatcher with its fenced record, and the Codex, Pi and OpenCode runtimes as submitters |
| `Shell`, `Shell_proofs` | the registered shell: startup, binding, continuity of mailboxes, the operator, closing; theorems about it and about the dispatcher it starts (`Activation`) |
| `Wrapper`, `Wrapper_proofs` | the experimental wrapper from claim to exit status; theorems |
| `Transports` | the sessions of the shared HTTP server and of the wrapper's bridge |
| `Pty` | `gptqueue-pty`: watcher, idle detector, notice, exit |
| `OpenCodeSessions` | the OpenCode plugin's owner of backends |
| `CodexSocket` | requests over the Codex app-server socket |
| `ActorDirectory` | `actor_register` and its conditional write |
| `MCTaskClaims`, `MCCustody`, `MCWakeOnSend`, `MCRegistry`, `MCMailbox`, `MCShell`, `MCWrapper` | TLC instances: symmetry and scenarios |
| `MCActivation` | `Activation` under names of its own, for `Shell_proofs`, and its TLC instance |
| `MCEdges` | the five components that share no state with the others, in one instance |
| `Edges_proofs` | theorems about those components |

Conventions. A Lua script or a MULTI is one action, because Redis runs it atomically; a
TypeScript call is one action per await, and other actors run in between. A process may
die between any two of them. All processes share one clock (the servers of a deployment
run on one host), but each call works with the value it captured when it began. Variables
commented *history* are read by no guard, except that ids already handed out are not
handed out again (uuids). Operators named `X_Something` just before an operator `X` are
mutants: `X` with a plausible mistake, used to confirm that the properties notice it
(section 6).

**Scenarios.** `Registry`, `Mailbox`, `Activation`, `Wrapper` and `Shell` have more kinds of
faults and outside events than one exhaustive run can combine. Their variable `scenario`
(in `Wrapper`, `events`) is chosen in `Init` from the constant `Scenarios` and never changes; it names the events
(crash, failing step, lost answer, lapse, rename, ...) that may occur in this behaviour and
how many names, sessions or messages take part. With all events in one scenario the module
is the unrestricted system; the runs take together the events that the hazards name
together. The code's own control is the same in all scenarios.

### TaskClaims

`inbox`, `claims`, `index`, `dlq`, `rc` and `rcExpires` are the Redis keys of one actor;
`wrong` (the inbox, the DLQ, the hash or the index) and `badCounter` say which of them hold
a value of the wrong type, put there by another program (`Corrupt`, at most `MaxDamage`
times, counted by `damage`) until an operator deletes it (`Repair`) or an unregistration
does. `pc` and `at` are the `claim_tasks` calls in flight, one per session, and the clock
each captured; `limit` is the actor's `max_concurrency`, chosen from `Ceilings`.

A command whose answer does not come is sent again by ioredis, with the arguments it had
(`redis-client.ts:99`). `lost` counts such answers, up to `MaxLost`; `req` is the request a
call has to send again. A script that is safe to repeat is simply an action that may happen
again (a recovery whose answer was lost leaves its call where it was); the batch claim is
not safe to repeat, so `Resend` runs it once more under the same claim id. A second
acknowledgement, renewal or requeue finds nothing to do or does the same.

| Action | Code |
|---|---|
| `Send` | `bounded-push.lua` |
| `StartClaim`, `RecoverForClaim`, `BatchClaim`, `ClaimNothing` | `claim-tasks.ts`, `TaskClaimStore.claim`: lazy recovery, then `claims-batch-claim.lua` |
| `RunBatch` | that script from its first pop on: the pops, the HSET over whatever the claim id had, the ZADD, and where a wrong-typed hash or index ends it |
| `Resend` | the driver sends it again after `Unanswered` |
| `RecoverExpired` | the dispatcher's recovery pass, with the present clock |
| `Recover`, `MoveExpired` | `claims-recover.lua`, its checking pass and its moving pass |
| `Acknowledge`, `Renew`, `Requeue`, `Unregister` | `claims-ack.lua`, `claims-renew.lua`, `claims-requeue.lua`, `claims-purge.lua` |
| `Tick` | time; a counter whose TTL has passed disappears |

History: `told` are the claims an answer gave to a session, `stranded` those that are in the
hash and never got into the index, and `fate` says how a message ended, accidents included:
*overwritten* by its own claim script sent again, *aborted* or *stranded* by a script that
died after its pops.

Abstractions: a message is a model value (its id); time is a natural number in place of
ISO strings; the order in which recovery walks claims of equal score is left open; event
stream entries are left out. A legacy message has no id, so no counter.

`Delivery` says what the scripts promise together, with no clock, claim, index or counter:
each message is unsent, queued, held by one session, dead, acknowledged, dropped, purged or
gone in an accident, and an abstract action lists the moves a message may make in one step.
Only a delivery has accidents: `Deliver` may overwrite what the same session holds, and
`BreakOff` is a delivery that takes messages off the queue and gives them to nobody. `DeliversAtLeastOnce` is the refinement: `Place` and `ClaimedBy` read a message's
place and its sessions off the store. Starting a call, renewing, damage and repair move
nothing; a batch claim, first or sent again, is `Deliver` or `BreakOff`, either recovery
`Recover`, an unregistration `Purge`. A message that the store had lost in any other way, or
that two sessions had, would be at a place the abstract specification has no step to.

### Custody

`record` is the stored field; a `call` holds its request, clock, step, attempt and the
record it works from. `Read`, `Expire`, `Write`/`Refused` and `Reread` are the awaits of
`CustodyStore.claim`, `release` and `status`; `Claimed`, `Assumed`, `Released` and
`Forfeited` are the reducer. `Admits` is the precondition of the conditional set. A
stored record that fails admission is refused by every call without a write and is left
out. `acquired_at` is used by no decision and is left out.

`CustodyLifecycle` says what the reducer promises of the stored record: claims only of
unowned or released worktrees, releases only by the custodian, takeovers only of
forfeited ones by a session that gave an inventory.

### WakeOnSend

`lease` is `gptq:wake:<actor>`, `proc` and `online` the actor's processes and live
sessions, `profile` its directory record. A send goes through `Resolve`, `Push`,
`Directory` (the second read of the directory), `Presence`, `Reconcile`, `ClearDead`,
`ReadLease`, `Acquire`, `Launch` and `AttachSpawn`, one action per await; a status read
joins at `Presence`. A runtime goes through `Register`, `FindLease` and `RuntimeReady`.
Store errors that the code swallows are `ReconcileFails` and `ReadyAnyway`; those that
end the wake are `CrashCall`. Left out: recipients that resolve to nothing, a spawn that
reports no pid, reuse of a pid, a corrupt lease; the reads inside `getPresence` are one.

### Registry

`registry`, `pending` and `restore` are the three hashes `session-store.ts` keeps per name,
`record`, `lease` and the session sets what it keeps per session; `client` is each
`RedisClient` with its call in flight, its identity and the targets of its two timers.
`WriteProvisional`, `PublishRegistration` and `UndoRegistryWrite` are the scripts of
`createSession`; a rename (`redis-client.ts:250`) is create, transfer, close of the old
session, deletion of the old name, with the rollback at each failing await. `RefreshLease`,
`CloseRead` and the steps after it race over one session. `Adoptable` is the guard of
`adoptIdentity`. The transfer of mail is one step here that succeeds or is refused.
A step that fails may have run with its answer lost (`AnswerLost`): the provisional value
of a `createSession` that then throws stays in the registry (`Abandons`, finding 15).
`createSession` repeated by the driver within the life of its lease writes the same again.

### Mailbox

`queue`, `dlq`, `claims` and `expired` (the claims past their deadline) are the lists of
each name; `send` is each `send_message` call with its tries,
`recv` each blocking receive with its connection. `Call` (the resolution) and `Push` are separate;
`RunPush` is the bounded push or, for a keyed request, `bounded-push-idempotent.lua`.
The connection may be lost after the script ran: the driver resends, or the caller gets an
error and may repeat the call (`MaxTries`, `MaxResends`). `Park`ing puts a payload that does
not parse in the dead letters. `Recovered` puts the expired claims back;
`MigrateMessages`, refused while the name holds a claim, is `migrate-messages.lua`.
Parking and the claim of a task are resent too: a MULTI of `parkForeign` that ran twice
leaves two dead letters (`ParkUnanswered`), a claim script that ran twice overwrites its
first batch (`ClaimResent`); `Conservation` counts both.
History: `pushed`, `delivered`, `gone` and `window` count copies.

### Activation

`record` is the stored activation with its fence, `disp` each dispatcher of the mailbox.
A tick recovers, looks, saves `submitting`, submits and saves the outcome, each a step;
`After` gives the record that follows an outcome. The adapters differ in what they can look
up: Codex reads the thread's history (which may have gaps), OpenCode finds its own message
identifiers, Pi nothing. A runtime may have no answer at all (a malformed history, a session
that is not the current one): it is then unavailable, which happens, like a gap, where the
scenario has `gap`. A submission may be carried out with its answer lost or late;
`late` counts those on their way.

### Shell

`mapping` is each runtime's mailbox, `binding` the shell whose dispatcher is attached,
`outbound` the names whose marker of having sent exists; it lapses after a day
(`MarkerLapses`; `silent` are the names whose marker has lapsed since the last send).
A shell starts (`server.ts`), binds its runtime (`runtime-mailbox.ts`), sends, and closes;
close is memoized and may overtake the startup or a bind. The operator plans a
reassignment from what it reads and applies it later (`Applicable` is the script's check).
`BoundRuntimeKeepsMailbox` is stated where not both happen, a shell that stalls and an
operator that acts (`Timely`): a shell whose keys lapse between its look at the mapping and
its attach seems dead to the operator's plan, and attaches to the mailbox it had read.

A failing detach is swallowed (`inbox-dispatcher.ts:133`) and the cleanup goes on to retire
the session; an attach may have run with its answer lost, and is then nobody's to detach.
Both leave a binding that nobody refreshes (`stray`) until its 30 s are over. An adoption
may have run with its answer lost: the store has the new name, the client the old one.
A retirement that ran with its answer lost differs from `Retire` only in the flag and is
covered by `GiveUp`.

### Wrapper, Transports, Pty, OpenCodeSessions, CodexSocket, ActorDirectory

`Wrapper` follows `main` of `experimental-wrapper/index.ts` through claim, registration,
bridge, launch, escalation of signals and the cleanup steps whose failures decide the exit
status. `Transports` has the two HTTP fronts under one constant; an initialize is admitted
or rejected, a reaped session's close may fail (`stray`), and a receive passes the gate of
`receive_message` before it parks. `Pty` has the watcher of
`redis-watcher.ts` with and without keyspace events. `OpenCodeSessions` opens a backend
part by part and lets deletion, disposal or failure come at each await; a registration that
fails may have made its session (`Half`), which the cleanup does not know of. `CodexSocket`
has the shared connection, its requests, aborts, timers and frames; the server may repeat an
answer, or send it on another connection than the one that asked. `ActorDirectory` has the two
attempts of `register` and the script's own check.

## 3. Runs

| Run | Instance | Shows |
|---|---|---|
| `claims` | 2 messages (one id-less), 2 claims, 2 sessions, ttl <= 2, budget 2, time <= 3, `max_concurrency` none or 1, one lost answer, one damaged key, counters that lapse; @CLAIMS states | `RenewalsAreBounded`, `ConcurrencyCeiling`, `OnlyLastHolderAcks`, `LeaseHonoured`, `StoredOnce`, `FirstDeliveryInOrder`, `PoisonIsQuarantined` |
| `custody` | 2 calls, 2 sessions, lease 1, time <= 3; 400K states | `RecordAdmitted`, `FollowsLifecycle` (the refinement), `ForfeitsOnlyLapsed`, `CallsReturn` |
| `wake` | 2 calls, 2 processes, 2 leases that lapse; 493K states | `OneLaunchPerLease`, `EvidenceIsOwn`, `NeverCoalescesWithDead`, `PolicyChangeHonoured`, `ReconcileSparesReplacement` |
| `registry` | 2 clients, 2 names, 3 sessions, 2 stamps, 6 scenarios; @REGISTRY states | `UndoIsExact`, `PresenceIsKept`, `NoResurrection`, `AdoptionIsExclusive` |
| `mailbox` | 2 names, a keyed and a plain request, a payload that does not parse, 1 receiver, inbox and DLQ of 1, 6 scenarios; @MAILBOX states | `Conservation`, `RetriesAreSafe`, `ClosedNeverParked`, `RenameMovesTheMail` |
| `activation` | 2 dispatchers, up to 2 messages, 5 scenarios over the 3 adapters; @ACTIVATION states | `SubmittedOncePerRecord`, `DoubtIsKept` |
| `wrapper` | 2 wrappers (one unregisters, one closes), 1 plain session, 3 scenarios; 397K states | `OneRuntimePerName`, `ClaimCoversSession`, `ExitZeroIsClean`, `DestructionSparesOthers`, `SignalEnds` |
| `shell` | 2 shells, 1 or 2 runtimes, 5 scenarios; @SHELL states | `BoundRuntimeKeepsMailbox`, `ClosedMeansRetired`, `ReplyAddressKept` |
| `edges` | the two fronts with 3 sessions and a limit of 2, the PTY wrapper, 2 native sessions with 2 backends, 2 Codex requests over 2 connections, 3 registrations; @EDGES states | `FrontsLetGo`, `ReapSparesOpen`, `NoticeIsTimely`, `NoBackendOrphaned`, `RequestsAreAnswered`, `OwnerIsKept` |
| `claims_replayed`, `custody_stale_expiry`, `wake_relaunch` | one violated property each | findings 13, 3 and 5 |

Further configurations are kept beside these, and are run the same
way (`tlc -config X.cfg M`, with the module in brackets):

| Configuration | Property | Result |
|---|---|---|
| `Delivery` [`MCTaskClaims`] | `DeliversAtLeastOnce`: the claim path implements `Delivery`; 2 messages with ids, 2 claims, a DLQ of 1, one lost answer, one damaged key; @DELIVERY states | holds |
| `Mailbox_sends` [`MCMailbox`] | `SendEnds`: a send to a full or failing store ends | holds |
| `Activation_liveness` [`MCActivation`] | `WorkIsActivated`: mail after an exhausted activation gets its own | holds |
| `Shell_liveness` [`MCShell`] | `ClosedGoesOffline`, though steps of the close fail | holds |
| `Transports_http` [`Transports`], with `-continue` | `IdleIsClosed`: an abandoned session is reaped; `ClientsBounded` | the first holds, the second is violated, finding 11 |
| `OpenCodeSessions_liveness` [`OpenCodeSessions`] | `DisposalEnds`, `CallsSettle` | hold |
| `CodexSocket_liveness` [`CodexSocket`] | `EveryRequestSettles` | holds |
| `Pty_exit` [`Pty`] | `ExitEnds`, also when Redis never comes back | holds |
| `TaskClaims_documented` [`MCTaskClaims`], with `-continue` | `DeadLetterAfterCap`, `CeilingCountsLiveClaims` | both violated, findings 1 and 2 |
| `Custody_lost_handoff` [`MCCustody`] | `HandoffReachesSuccessor` | violated, finding 4 |
| `Mailbox_documented` [`MCMailbox`], with `-continue` | `MailOnlyToKnown`, `RenameLeavesNoMail`, `DurableNeverPopped` | all violated, findings 6, 7 and 8 |
| `Registry_documented` [`MCRegistry`], with `-continue` | `RenameSparesSharedName`, `FailedCreateChangesNothing` | both violated, findings 9 and 15 |
| `Shell_documented` [`MCShell`], with `-continue` | `ClosedServesNobody`, `RetiredIsUnbound`, `AddressNeverGivenUp` | all violated, findings 10, 16 and 17 |
| `Pty_dropped` [`Pty`] | `MailIsNoticed` | violated, finding 12 |

Deadlock is checked except in `shell` and `edges` (and the configurations of their modules),
where the system really stops: closed shells, an exited PTY wrapper, a closed bridge,
settled requests.

Why the bounds are enough. *Claims*: a message can be claimed, lost, recovered, claimed by
the other session and lost again within the given time, with one call holding an older
clock throughout; the lost answer and the damaged key may come at any point, so a script is
sent again before or after the other session's recovery, with the other message queued or
not; cap 1 reaches dead-lettering, and in `Delivery.cfg`, where both messages have ids, a DLQ
of 1 is trimmed. *Custody*: each
of a call's two attempts can lose to the other call, and four complete calls fit one
after another, so the stored state can leave and come back to what a stale call expects.
*Wake*: two launches need two leases and two processes. *Registry*: two clients can hold
one name, and a third session lets a rename be undone while another client registers the
target. *Mailbox*: an inbox of one is full after one message, a request can be tried twice
and resent once, so a duplicate has three chances; two names are one rename and one back.
*Activation*: two dispatchers are an owner and its successor; their epochs and attempts
are capped where the code caps them. *Wrapper*, *Shell*: two contenders and one bystander.
*Edges*: a limit of two with three candidates; two entries for one native session are a
deletion and a re-creation. The theorems below remove the bounds for what they cover.

**Fairness.** Weak fairness only, of steps the program takes by itself: the next await of a
call (`CallsReturn`, `SendEnds`), the wrapper's next step, its escalation timer and the
operating system ending a process that was sent SIGKILL (`SignalEnds`), timers and loop
iterations (`Reap`, `Tick`, `Expire`, `Quiet`, `Poll`), cleanup steps. For
`WorkIsActivated` a turn that began ends, and a claim is acknowledged or expires, which the
clock guarantees. Nothing is assumed of new calls, of peers, of the operator, or of Redis
coming back, except in `ReconnectingSpec` of `Pty` (ioredis retries for ever), under which
`MailIsNoticed` is refuted.

## 4. Proofs

Every theorem holds for any sets of messages, claims, sessions, calls, processes and
leases and any bounds that satisfy the `ASSUME`s of the modules (finite sets where the
code has finite ones, positive bounds, `MaxTtl <= Budget`), unbounded time included.

`TaskClaims_proofs`, three invariants that build on each other:

- `RecordInv`: types, the index mirrors the hash but for stranded claims, expiry within the
  budget, stored claims were issued, no call has a clock from the future, a request to be
  sent again is its session's own and nobody was told of its claim (`RequestsAreOwn`), and a
  key is of the wrong type only after damage (`DamageIsBounded`). The clocks are what makes
  `LeasesAreHonoured` inductive: a recovery with an older clock expires less, never more.
- `CopyInv`: `RecordInv`, `ExactlyOneCopy`, `Kept` (a message is live exactly while inbox,
  DLQ or an indexed claim has it), `StrandedStay` and `Accidents` (a message is overwritten
  only after a lost answer, aborted or stranded only after damage); `Kept` and `Accidents`
  are `NothingLost`. `ExactlyOneCopy` and `Kept` are not inductive without each other: a
  message that is sent is new only because every stored message is live. The recovery step
  rests on the lemmas about lists (injectivity and range of concatenation, sublists and
  reversal); the batch claim, first or sent again, is one lemma about `RunBatch`.
- `OwnerInv`: `CopyInv` and that the tasks of a claim were last delivered to its session.

The refinement `ClaimPathDelivers` needs no invariant of its own: `CopyInv` implies
`Placed`, that the lists, the claims and the fate of a message agree on one place for it and
on one session at most, in this state and in the next. Each action is then shown to make,
message by message, the moves of its abstract action. It is the uniqueness in `CopyInv` that
makes `ClaimedBy` a single session, and so `Acknowledge` a move of the session that has the
message; and `RequestsAreOwn` that makes what a resent script overwrites its own session's.

Two more are kept along with them: `PoisonInv`, that the counter of a message keeps up with
its recoveries as long as it may be recovered again, and `OrderInv`, that of two messages
that wait for their first delivery the earlier is nearer the head of the inbox, which
recovery and requeue keep because they append.

Theorems: `TypeCorrect`, `IndexAlwaysMirrorsHash`, `BudgetIsNeverExceeded` and both as
`RenewalsStayBounded`, `OneCopy`, `NoMessageLost` and both as `AlwaysStoredOnce`,
`LeasesAreHonoured`, `LastHolderAcks`, `CeilingHolds`, `PoisonIsAlwaysQuarantined`,
`FirstDeliveriesInOrder`, `ClaimPathDelivers`.

`Custody_proofs`: `CustodyInv` states of the stored record and of every record a call
carries that it is one the reducer can produce, that a call at its write step may make
that write, and that a call at `expire` saw a lapsed hold. From it: `CustodyTypeCorrect`,
`StoreNeverRefusesItself`, `ForfeitureAfterLease` and `StoreFollowsLifecycle`, that the
store with its stale reads, retries and crashes implements `CustodyLifecycle`.

`WakeOnSend_proofs`: `WakeInv` ties the places a lease id lives in: the store, the call
that owns it until it has launched, the process launched under it (`LeaseInv`). `DoomedInv` says
that a lease found dead stays dead and is cleared before it is read again, `EligibleInv`
that a send at a launching step works from a record read after its push. From it:
`WakeTypeCorrect`, `LaunchesAreSingle`, `EvidenceIsAlwaysOwn`, `DeadLeaseIsNeverJoined`,
`PolicyIsHonoured`, `ReplacementIsSpared`.

`Edges_proofs`, about the composition `MCEdges`: a lemma that only one part moves, then an
invariant per part. `ActorsInv`: a call that lost its race lost it to a record that stays
another's, which is why the second attempt always finds an explanation. `CodexInv`: a
request is in the table exactly while its caller waits for a reply, which takes a socket.
`NoticeInv`: flag, listener and idle detector agree. `FrontsInv`: the server's count of open
requests is the true one, its clients are those of sessions the reaper walks or astray (a
rejected initialize, a failed close), and a closing bridge has no receives. `OpenCodeInv`: an
active creation is the one in the map, a cleanup still has before it whatever is open and
may not be left (`MayLeave`: what failed to close, and the half-made session of a failed
registration), and a disposal waits for every active creation. From them:
`OwnerIsAlwaysKept`, `RequestsAlwaysAnswered`, `NoticeIsAlwaysTimely`, `FrontsAlwaysLetGo`,
`ReaperSparesOpen`, `BackendIsNeverOrphaned`.

`Registry_proofs`: `RegistryInv` has three parts. `PresenceInv`: a lease has a record, and a
session set holds besides its own sessions only closed ones, so what the set shows is what
lives. `CallInv` and `IdentityInv`, per client: what a call in flight holds at each await,
and which session and name the two timers serve while a rename may still fall back.
`UndoInv`, per name: the provisional value has one writer in flight or an abandoned one
(a writer that died, or whose write failed after it had run), and the restore field is the
last completed value. `UndoIsExact` is not inductive without
the second: that a writer's value is still his is a fact about the clients. Theorems:
`TypeCorrect`, `UndoRestoresCompleted`, `PresenceIsReliable`, `ClosedStaysClosed`,
`AdoptionFindsNobody`.

`Mailbox_proofs`: first what `Count`, `Everywhere` and `Held` do when one list or one
receive changes (finite sets and cardinalities; `Names` and `Receivers` are finite). Then
`MailboxInv`: `SendInv`, per request, that the key and `window` agree, that ids answered
and the id under the key were pushed, and that a keyed call in progress which has queued
its message finds the key; `RecvInv`, that a receive holds a message exactly from the pop to
its end; `UnderInv`, that what is under a name was pushed; `RenameInv`, what a rename has
left behind; and `Conservation`. Each action is shown to keep a sum over the lists it
touches (`RecvEffect` for receives, `NameEffect` for names, claims and renames), and the sum
over all names follows. `RenameInv` needs `UnderInv`: a message that was held when the
rename began and turns up again was pushed before, so it is its second copy. Theorems:
`TypeCorrect`, `NothingIsLost`, `RetriesAreAlwaysSafe`, `ClosedIsNeverParked`,
`RenameTakesTheMail`.

`Wrapper_proofs`: `WrapperInv` follows a wrapper through its life: `StartInv` (from the
claim to the child's end the token is its own), `ChildInv` (a child runs under the claim),
`CoverInv`, `CleanInv` (a cleanup phase that is behind is done or among the failures, and
what is done without a failure is gone from the store) and `ExitInv`; `Listed` says that
the session set shows every live session. Theorems: `TypeCorrect`, `RuntimesAreExclusive`,
`SessionIsCovered`, `ExitZeroIsTrue`, `DestructionIsExclusive`.

`Shell_proofs`: `ShellInv` is a conjunction over the shells, of what each shell's own steps
leave it in (`LifeInv`, `RetiredInv`) and of what it relies on in the store: `HeldInv`, that
a binding is its dispatcher's or astray; `LookInv`, that a bind past its `SET NX` has a
mapping to read; `AliveInv`, that a connected shell's session lives, under its name or, after
an adoption whose answer was lost, under another to which it can no longer bind (`Astray`);
`BoundInv`, the property itself extended to a shell about to attach; `SpeakInv`, that the
marker precedes the message; and `NamedInv`, that nobody registers a name again that another
shell has adopted. `AliveInv` is what keeps `BoundInv` through `ApplyContinuity`: the name a
shell is about to attach to is occupied by its session, so no plan is applied to it. It fails
where shells stall, hence `Timely`. The steps of one shell are no concern of another's
invariant because a bind never overwrites a mapping and never takes a binding that exists
(`OthersKeep`). Theorems: `TypeCorrect`, `MailboxIsKept`, `RetiredIsGone`,
`ReplyAddressIsKept`.

The second half of `Shell_proofs` is about the dispatcher a shell starts: `Activation` as
`MCActivation` instantiates it (`D`), under names `Shell` does not use; the assumption on
the constants is there, and TLC evaluates it in `activation`. `DispatcherInv` is:
`StageInv`, what a dispatcher has in hand at each step of its tick; `CopyInv`, that the
owner's copy of the record is the stored one, as `pending` before the save and as
`submitting` after it, which the fence guarantees and a stalled predecessor does not have;
`KnownInv`, that the Pi adapter remembers no submission in progress; and `TicketInv`. The
last is what makes `SubmittedOncePerRecord` inductive: every record made for an operation is
good for one submission, which is made, on its way (`late`), in the hands of one dispatcher
(`Tickets`) or still due (the stored record is pending). A save turns a due submission into
a ticket, a submission spends the ticket, a deferral by the owner turns it back, and a
dispatcher that lost the binding may still spend its ticket but can not turn it back.
Theorems: `DispatcherInvariant`, `DispatcherTypes`, `SubmissionsAreSingle`,
`DoubtIsAlwaysKept`.

Each of these invariants was checked by TLC on the instance of its module's run before it
was proved.

Every safety property of a passing run is proved. Only model-checked is liveness under
fairness (`CallsReturn`, `SignalEnds` and the liveness configurations), which is beyond the
proof system.

## 5. Where the code and its documentation part

1. **Slow poison** (`claims-recover.lua:126`). The recovery counter's TTL is set only at
   its first increment. A message recovered slowly outlives it and returns to the inbox
   more than `RECOVER_CAP` times; OPERATING_RULES §4 says it is dead-lettered.
   `PoisonIsQuarantined` is what does hold.
2. **Ceiling** (`claims-batch-claim.lua:41`). A comment says the index holds only live
   claims when counted; a claim may expire between the two scripts, and the caller is then
   refused for a claim that is dead.
3. **Stale forfeiture** (`custody-store.ts:378`). `lazyExpire` writes the forfeiture of
   the record it read under the precondition "held". If the worktree was taken over in
   between, the successor's live hold is forfeited.
4. **Lost handoff** (`custody-store.ts:235`). A claim computed from an older released
   record passes against a newer release; the newer handoff is overwritten.
5. **Second launch** (`send-message.ts:230`). Presence is not read again after the lease is
   acquired. Two sends read the actor as offline; the first acquires and launches; the
   runtime registers and clears the lease; the second finds the lease free and launches
   again. OPERATING_RULES §7 says concurrent sends coalesce onto one launch.
   `OneLaunchPerLease` is what does hold.
6. **Late push** (`send-message.ts:355`). Resolution and push are separate awaits; a
   recipient that unregisters in between has its mailbox recreated for a name that nobody
   holds. OPERATING_RULES says no queue keys are created for unknown names.
7. **Left behind** (`redis-client.ts:290`). The old name stays registered until after its
   messages have moved; a push accepted in between stays in an inbox nobody reads.
   `RenameMovesTheMail` is what does hold.
8. **Stale gate** (`receive-message.ts:52`). The directory is read once before a pop that
   may wait a minute; an agent that becomes durable meanwhile still has its message popped,
   which README:53 excludes.
9. **Shared name** (`redis-client.ts:292`). A rename deletes the registry entry and the
   heartbeat of the old name although another session of it is live;
   `tests/multi-session-policy.test.ts:14` says the agent is online if any session is.
10. **Late connect** (`server.ts:210`). A stop during startup runs the cleanup, which runs
    once, before the transport exists; the startup then connects it and goes on serving.
11. **Rejected initialize** (`http.ts:209`). A Redis client is created before the SDK admits
    the request; if it rejects it, nothing owns the client and no limit counts it, though
    the comment at line 135 bounds them.
12. **Dropped notification** (`redis-watcher.ts:70`). Under keyspace events, mail pushed
    while the connection is down, or whose `LLEN` fails, is noticed only with the next
    message; line 9 says every new message is.
13. **Replayed claim** (`claims-batch-claim.lua:66`). The script runs on the connection that
    sends unanswered commands again (`redis-client.ts:99`), with its claim id as an argument.
    Run twice it pops a second batch and writes it over the claim that held the first, which
    no expiry gives back. OPERATING_RULES:7 says delivery on the claim path is at least once;
    `mailbox-store.ts:194` says of the other pop that it must never be replayed.
    `StoredOnce` is what does hold.
14. **Aborted claim** (`claims-batch-claim.lua:66`, `:67`). The script pops before it writes.
    A claims hash of the wrong type ends it with the messages popped and in no claim; an index
    of the wrong type with a claim that recovery never finds. `claims-recover.lua` checks its
    destinations first.
15. **Failed create** (`session-store.ts:185`, `redis-client.ts:241`). When the answer to the
    provisional write is lost the write stays, and `register` rethrows without undoing it;
    the comment at `redis-client.ts:218` says a failure changes nothing. `UndoIsExact` is
    what does hold.
16. **Swallowed detach** (`inbox-dispatcher.ts:133`). A detach that fails is ignored and the
    session is retired; the binding stays for up to 30 s. So does that of an attach whose
    answer was lost (`activation-store.ts:34`), as its owner is then unset.
    `ClosedMeansRetired` is what does hold.
17. **Marker of a day** (`bridge.ts:121`). The marker that keeps a shell from giving up a name
    it sent from expires after 86400 s; a shell that binds later gives the name up, and
    replies to the earlier messages find nobody. `ReplyAddressKept` is what does hold.
18. **Half-made session** (`opencode-backend.ts:68`, `:103`). `register` may throw after
    `createSession` (`redis-client.ts:298`); the flag that makes the cleanup close the session
    is set only after `register` returns, so record and lease stay until the lease lapses.
    `NoBackendOrphaned` allows this one rest.

Two smaller ones of the same kind: a parking MULTI that is sent again puts its dead letter
twice (`mailbox-store.ts:149`), and the reaper forgets a session before it closes it, so one
whose close fails is out of its reach until its next request (`http.ts:167`).

## 6. Mutants

For each property of each passing run `PROJECT.json` names a definition and a mutated form of
it under which TLC finds the property violated: an expiry compared with `<=`, a claim
deleted before its destination is tried, a lease cleared without comparing ids, a refresh
that writes blindly, a migration that copies, an answer taken without comparing ids, a
reaper that looks at the last request only, and so on. Mutants that `PROJECT.json` does not
name break the other parts of a grouped property, or belong to the further configurations.

## 7. Not modelled

- `core/launch-policy.ts`: pure validation of a launch contract, no state.
- `core/agent-diagnostics.ts`, `agent-discovery.ts`, `doctor-probe.ts`, `lifecycle-log.ts`:
  read-only reports and logging.
- `mcp-server/index.ts`, `transports/setup-tools.ts`, result shaping, schemas, key names,
  configuration: wiring.
- Of the runtime adapters: parsing of histories and frames, the Codex bootstrap hook, the
  installation of the Pi extension.
- The calendar arithmetic of `claims-renew.lua` (abstracted to a clock), event-stream and
  trace entries (read by no decision), pid reuse, a spawn without a pid, a corrupt lease.
- ioredis, the MCP SDK, the operating system and the native runtimes are external: modelled
  by what the code relies on.

## 8. Plan

1. Liveness of the claim path under fairness of recovery: what is held is acknowledged,
   queued again or dead in the end.
2. `IsoDate`: the calendar arithmetic of `claims-renew.lua` against a reference, by TLC.
