----------------------------- MODULE Activation -----------------------------
(***************************************************************************)
(* Waking a bound runtime for its inbox: the dispatcher with its fenced    *)
(* activation record (src/registered-shell/inbox-dispatcher.ts,            *)
(* activation-store.ts, runtime.ts) and the adapters that submit a turn to *)
(* Codex, Pi and OpenCode and look for evidence of an earlier submission   *)
(* (codex-runtime.ts, pi-runtime.ts, opencode-runtime.ts).                 *)
(*                                                                         *)
(* Dispatchers of one agent and one conversation come and go: a process    *)
(* may crash, or stall until its binding lapses and another one attaches.  *)
(* Every call to the store or to the runtime is a step.  A submission may  *)
(* be carried out with its answer lost, late, or never.                    *)
(***************************************************************************)
EXTENDS Integers, FiniteSets

CONSTANTS
  Dispatchers, \* processes that may serve the agent's inbox
  Msgs,        \* messages an activation is for
  Maximum,     \* maxAttempts
  MaxRecords,  \* bound: records made for one operation, by claims that expire
  Scenarios,   \* the adapter, how many messages are sent, what may go wrong or intervene
  None,
  Crashed      \* the binding of a process that crashed

\* activationOperationId: the same messages and attempt give the same operation,
\* whichever process makes it.
Operation == [ids: (SUBSET Msgs) \ {{}}, attempt: 1..Maximum]
Op(r) == [ids |-> r.ids, attempt |-> r.attempt]

Record == [ids: (SUBSET Msgs) \ {{}}, attempt: 1..Maximum,
           state: {"pending", "submitting", "accepted", "ambiguous", "exhausted"}]

\* What the constants stand for; the modules that instantiate this one assume it.
ActivationAssumption ==
  /\ IsFiniteSet(Dispatchers)
  /\ Maximum \in Nat \ {0} /\ MaxRecords \in Nat
  /\ Scenarios \subseteq
       [adapter: {"codex", "pi", "opencode"}, msgs: Nat,
        events: SUBSET {"crash", "stall", "fail", "lost", "gap", "user", "close", "lapse"}]
  /\ {None, Crashed} \cap Dispatchers = {} /\ None # Crashed
  /\ None \notin Record

VARIABLES
  scenario,    \* the one of Scenarios this behaviour is about; never changes
  inbox,       \* the eligible messages waiting
  claims,      \* messages in live claims
  expired,     \* messages in expired claims
  sent,        \* history: messages sent so far
  binding,     \* gptq:runtime-binding: the dispatcher whose token is stored
  record,      \* the activation record
  disp,        \* the dispatchers
  known,       \* an adapter's memory of what it submitted
  turn,        \* the runtime: what became of each submitted operation
  late,        \* how many submissions given up by their caller may still arrive
  user,        \* the user has a turn of their own running
  submissions, \* history: how often each operation was submitted
  created      \* history: how often a record was made for each operation

mail == <<inbox, claims, expired, sent>>
native == <<turn, late, user, submissions>>
vars == <<scenario, mail, binding, record, disp, known, native, created>>

Outcome == {"started", "queued", "completed", "busy", "unavailable", "ambiguous"}

Dispatcher == [pc: {"off", "refresh", "recover", "pending", "current", "clear", "check",
                    "create", "gate", "activate", "start", "settle", "save", "detach"},
               stop: BOOLEAN, waiting: BOOLEAN, pend: SUBSET Msgs,
               rec: Record \cup {None}, recovery: BOOLEAN, out: Outcome \cup {None}]

TypeOK ==
  /\ scenario \in Scenarios
  /\ inbox \subseteq Msgs /\ claims \subseteq Msgs /\ expired \subseteq Msgs
  /\ sent \subseteq Msgs
  /\ binding \in Dispatchers \cup {None, Crashed}
  /\ record \in Record \cup {None}
  /\ disp \in [Dispatchers -> Dispatcher]
  /\ known \in [Dispatchers -> [Operation -> {"none", "pending", "queued", "ambiguous"}]]
  /\ turn \in [Operation -> {"none", "queued", "running", "completed"}]
  /\ late \in [Operation -> Nat]
  /\ user \in BOOLEAN
  /\ submissions \in [Operation -> Nat]
  /\ created \in [Operation -> Nat]

Off == [pc |-> "off", stop |-> FALSE, waiting |-> FALSE, pend |-> {}, rec |-> None,
        recovery |-> FALSE, out |-> None]
Nothing == [op \in Operation |-> "none"]

Init ==
  /\ scenario \in Scenarios
  /\ inbox = {} /\ claims = {} /\ expired = {} /\ sent = {}
  /\ binding = None
  /\ record = None
  /\ disp = [d \in Dispatchers |-> Off]
  /\ known = [d \in Dispatchers |-> Nothing]
  /\ turn = Nothing
  /\ late = [op \in Operation |-> 0]
  /\ user = FALSE
  /\ submissions = [op \in Operation |-> 0]
  /\ created = [op \in Operation |-> 0]

-----------------------------------------------------------------------------
(***************************************************************************)
(* The dispatcher.                                                         *)
(***************************************************************************)

Becomes(d, r) == disp' = [disp EXCEPT ![d] = r]
Goes(d, pc) == Becomes(d, [disp[d] EXCEPT !.pc = pc])
\* The tick ends: what it read is forgotten.
NextTick(r) == [r EXCEPT !.pc = "refresh", !.pend = {}, !.rec = None, !.recovery = FALSE,
                         !.out = None]
Stopped(r) == [NextTick(r) EXCEPT !.pc = "detach", !.stop = TRUE]

\* The record becomes r; a new operation is counted.
Writes(r) ==
  /\ record' = r
  /\ created' = IF r # None /\ (record = None \/ Op(r) # Op(record))
                THEN [created EXCEPT ![Op(r)] = @ + 1] ELSE created

\* ActivationStore.save: the record is written only by the owner of the binding.
Save(d, r, next, lost) ==
  IF binding = d
  THEN Writes(r) /\ Becomes(d, next)
  ELSE Becomes(d, lost) /\ UNCHANGED <<record, created>>

Attach(d) ==
  /\ disp[d].pc = "off"
  /\ binding = None
  /\ binding' = d
  /\ Goes(d, "refresh")
  /\ known' = [known EXCEPT ![d] = Nothing]
  /\ UNCHANGED <<scenario, mail, record, native, created>>

\* A tick begins.  An owner that lost the binding stops.
Refresh(d) ==
  /\ disp[d].pc = "refresh"
  /\ Becomes(d, IF disp[d].stop \/ binding # d THEN Stopped(disp[d])
                ELSE [disp[d] EXCEPT !.pc = "recover"])
  /\ UNCHANGED <<scenario, mail, binding, record, known, native, created>>

RecoverExpired(d) ==
  /\ disp[d].pc = "recover"
  /\ inbox' = inbox \cup expired
  /\ expired' = {}
  /\ Goes(d, "pending")
  /\ UNCHANGED <<scenario, claims, sent, binding, record, known, native, created>>

ReadPending(d) ==
  /\ disp[d].pc = "pending"
  /\ Becomes(d, [disp[d] EXCEPT !.pc = "current", !.pend = inbox])
  /\ UNCHANGED <<scenario, mail, binding, record, known, native, created>>

\* Mutant: an exhausted record stays until all of its messages are gone.
Cleared_KeepsExhausted(r, pend) == pend = {} \/ (r # None /\ r.ids \cap pend = {})

\* A record is cleared when none of its messages is pending any more, or when it is
\* exhausted and there is new work.
Cleared(r, pend) ==
  \/ pend = {}
  \/ r # None /\ r.ids \cap pend = {}
  \/ r # None /\ r.state = "exhausted" /\ ~(pend \subseteq r.ids)

ReadRecord(d) ==
  /\ disp[d].pc = "current"
  /\ Becomes(d, [disp[d] EXCEPT !.rec = record,
                   !.pc = IF Cleared(record, disp[d].pend) THEN "clear" ELSE "check"])
  /\ UNCHANGED <<scenario, mail, binding, record, known, native, created>>

Clear(d) ==
  /\ disp[d].pc = "clear"
  /\ Save(d, None, [disp[d] EXCEPT !.rec = None, !.pc = "check"], Stopped(disp[d]))
  /\ UNCHANGED <<scenario, mail, binding, known, native>>

\* No turn while anything is claimed.
Check(d) ==
  /\ disp[d].pc = "check"
  /\ Becomes(d, IF disp[d].pend = {} \/ claims \cup expired # {} THEN NextTick(disp[d])
                ELSE [disp[d] EXCEPT !.pc = IF disp[d].rec = None THEN "create" ELSE "gate"])
  /\ UNCHANGED <<scenario, mail, binding, record, known, native, created>>

Create(d) ==
  LET new == [ids |-> disp[d].pend, attempt |-> 1, state |-> "pending"]
  IN  /\ disp[d].pc = "create"
      /\ Save(d, new, [disp[d] EXCEPT !.rec = new, !.pc = "gate"], Stopped(disp[d]))
      /\ UNCHANGED <<scenario, mail, binding, known, native>>

Held(r) == r.rec.state = "exhausted" \/ r.waiting

\* An exhausted record or a backoff ends the tick.
Wait(d) ==
  /\ disp[d].pc = "gate"
  /\ Held(disp[d])
  /\ Becomes(d, NextTick(disp[d]))
  /\ UNCHANGED <<scenario, mail, binding, record, known, native, created>>

\* Mutant: the record is not saved before the submission.
Submit_SavesLater(d) ==
  /\ disp[d].pc = "gate"
  /\ ~Held(disp[d])
  /\ Becomes(d, [disp[d] EXCEPT !.pc = "activate", !.recovery = disp[d].rec.state # "pending"])
  /\ UNCHANGED <<scenario, mail, binding, record, known, native, created>>

\* Save before submit; a record that is not pending is only looked after.
Submit(d) ==
  LET r == disp[d]
      go == [r EXCEPT !.pc = "activate", !.recovery = r.rec.state # "pending"]
  IN  /\ r.pc = "gate"
      /\ ~Held(r)
      /\ IF r.rec.state # "pending"
         THEN Becomes(d, go) /\ UNCHANGED <<record, created>>
         ELSE Save(d, [r.rec EXCEPT !.state = "submitting"], go, Stopped(r))
      /\ UNCHANGED <<scenario, mail, binding, known, native>>

Deferred(out) == out \in {"busy", "unavailable"}

\* After the activation the owner makes sure that it still is.
Settle(d) ==
  LET r == disp[d]
  IN  /\ r.pc = "settle"
      /\ Becomes(d, IF r.stop \/ binding # d THEN NextTick(r)
                    ELSE [r EXCEPT !.pc = "save", !.waiting = Deferred(r.out)])
      /\ UNCHANGED <<scenario, mail, binding, record, known, native, created>>

\* Mutant: a deferral makes an uncertain submission pending again.
After_ForgetsDoubt(r) ==
  CASE r.out \in {"started", "queued"} -> [r.rec EXCEPT !.state = "accepted"]
    [] r.out = "completed" ->
         IF r.rec.attempt < Maximum
         THEN [ids |-> r.pend, attempt |-> r.rec.attempt + 1, state |-> "pending"]
         ELSE [r.rec EXCEPT !.state = "exhausted"]
    [] Deferred(r.out) -> [r.rec EXCEPT !.state = "pending"]
    [] r.out = "ambiguous" -> [r.rec EXCEPT !.state = "ambiguous"]

\* The record after an outcome.  A turn that ended with work left is tried again, up to
\* Maximum times; what was uncertain stays so while the runtime is busy or away.
After(r) ==
  CASE r.out \in {"started", "queued"} -> [r.rec EXCEPT !.state = "accepted"]
    [] r.out = "completed" ->
         IF r.rec.attempt < Maximum
         THEN [ids |-> r.pend, attempt |-> r.rec.attempt + 1, state |-> "pending"]
         ELSE [r.rec EXCEPT !.state = "exhausted"]
    [] Deferred(r.out) -> [r.rec EXCEPT !.state = IF r.recovery THEN @ ELSE "pending"]
    [] r.out = "ambiguous" -> [r.rec EXCEPT !.state = "ambiguous"]

SaveOutcome(d) ==
  /\ disp[d].pc = "save"
  /\ Save(d, After(disp[d]), NextTick(disp[d]), NextTick(disp[d]))
  /\ UNCHANGED <<scenario, mail, binding, known, native>>

\* The backoff is over.
BackoffEnds(d) ==
  /\ disp[d].waiting
  /\ Becomes(d, [disp[d] EXCEPT !.waiting = FALSE])
  /\ UNCHANGED <<scenario, mail, binding, record, known, native, created>>

\* A step of the tick throws: the next tick starts afresh.
Throws(d) ==
  /\ "fail" \in scenario.events
  /\ disp[d].pc \notin {"off", "refresh", "detach"}
  /\ Becomes(d, NextTick(disp[d]))
  /\ UNCHANGED <<scenario, mail, binding, record, known, native, created>>

Close(d) ==
  /\ "close" \in scenario.events
  /\ disp[d].pc # "off" /\ ~disp[d].stop
  /\ Becomes(d, [disp[d] EXCEPT !.stop = TRUE])
  /\ UNCHANGED <<scenario, mail, binding, record, known, native, created>>

Detach(d) ==
  /\ disp[d].pc = "detach"
  /\ binding' = IF binding = d THEN None ELSE binding
  /\ Becomes(d, Off)
  /\ UNCHANGED <<scenario, mail, record, known, native, created>>

\* Pi may die with its sidecar, and what it had queued with it.
Crash(d) ==
  /\ "crash" \in scenario.events
  /\ disp[d].pc # "off"
  /\ Becomes(d, Off)
  /\ binding' = IF binding = d THEN Crashed ELSE binding
  /\ \/ UNCHANGED turn
     \/ /\ scenario.adapter = "pi"
        /\ turn' = [op \in Operation |-> IF turn[op] = "queued" THEN "none" ELSE turn[op]]
  /\ UNCHANGED <<scenario, mail, record, known, late, user, submissions, created>>

\* The binding was not refreshed for 30 seconds: its owner crashed or stalls.
Lapse ==
  /\ binding = Crashed \/ (binding # None /\ "stall" \in scenario.events)
  /\ binding' = None
  /\ UNCHANGED <<scenario, mail, record, disp, known, native, created>>

-----------------------------------------------------------------------------
(***************************************************************************)
(* The adapters.  Look ends the activation with an outcome, or goes on to  *)
(* the submission.                                                         *)
(***************************************************************************)

Active == user \/ \E op \in Operation : turn[op] = "running"
Current(d) == Op(disp[d].rec)

Ends(d, out) == Becomes(d, [disp[d] EXCEPT !.pc = "settle", !.out = out])
Remember(d, how) == known' = [known EXCEPT ![d][Current(d)] = how]

\* The submission is carried out: the turn runs at once or waits its turn.
CarriedOut(op, as) ==
  /\ turn' = [turn EXCEPT ![op] = as]
  /\ submissions' = [submissions EXCEPT ![op] = @ + 1]

\* Mutant: nothing in the history means that nothing was submitted.
CodexLook_Trusts(d) ==
  /\ scenario.adapter = "codex" /\ disp[d].pc = "activate"
  /\ LET seen == turn[Current(d)]
     IN  CASE seen = "completed" -> Ends(d, "completed") /\ UNCHANGED known
           [] seen = "running" -> Ends(d, "started") /\ UNCHANGED known
           [] seen = "none" /\ Active -> Ends(d, "busy") /\ UNCHANGED known
           [] OTHER -> Goes(d, "start") /\ Remember(d, "pending")
  /\ UNCHANGED <<scenario, mail, binding, record, native, created>>

\* Codex: the thread's turns are read; with no trace of the operation, a turn in
\* progress defers it, and doubt about an earlier submission, or an incomplete
\* history, is not resolved by submitting.  A thread read without its turns defers it.
CodexLook(d) ==
  /\ scenario.adapter = "codex" /\ disp[d].pc = "activate"
  /\ LET seen == turn[Current(d)]
         doubt == disp[d].recovery \/ known[d][Current(d)] # "none"
     IN  \/ /\ "gap" \in scenario.events
            /\ Ends(d, "unavailable") /\ UNCHANGED known
         \/ /\ seen = "completed"
            /\ Ends(d, "completed") /\ UNCHANGED known
         \/ /\ seen = "running"
            /\ Ends(d, "started") /\ UNCHANGED known
         \/ /\ seen = "none" /\ Active
            /\ Ends(d, "busy") /\ UNCHANGED known
         \/ /\ seen = "none" /\ ~Active /\ (doubt \/ "gap" \in scenario.events)
            /\ Ends(d, "ambiguous") /\ UNCHANGED known
         \/ /\ seen = "none" /\ ~Active /\ ~doubt
            /\ Goes(d, "start") /\ Remember(d, "pending")
  /\ UNCHANGED <<scenario, mail, binding, record, native, created>>

\* turn/start: refused during another turn, and then forgotten.
CodexStart(d) ==
  /\ scenario.adapter = "codex" /\ disp[d].pc = "start"
  /\ IF Active
     THEN /\ Ends(d, "busy") /\ Remember(d, "none")
          /\ UNCHANGED <<turn, late, submissions>>
     ELSE /\ CarriedOut(Current(d), "running")
          /\ Ends(d, "started")
          /\ UNCHANGED <<known, late>>
  /\ UNCHANGED <<scenario, mail, binding, record, user, created>>

\* Pi: the session log tells of a submission whose turn began or ended, the adapter's
\* memory of one that waits; sendMessage queues a follow-up, or throws.  A host that is in
\* another session or was invalidated makes it unavailable ("gap": the runtime does
\* not show this session's turns).
PiActivate(d) ==
  LET logged == turn[Current(d)]
      before == known[d][Current(d)]
      silent == logged \in {"none", "queued"}
      without(out) == Ends(d, out) /\ UNCHANGED <<known, turn, submissions>>
  IN  /\ scenario.adapter = "pi" /\ disp[d].pc = "activate"
      /\ \/ (disp[d].stop \/ "gap" \in scenario.events) /\ without("unavailable")
         \/ /\ ~disp[d].stop
            /\ \/ logged = "completed" /\ without("completed")
               \/ logged = "running" /\ without("queued")
               \/ silent /\ before # "none" /\ without(before)
               \/ silent /\ before = "none" /\ disp[d].recovery /\ without("ambiguous")
               \/ /\ silent /\ before = "none" /\ ~disp[d].recovery
                  /\ \/ /\ CarriedOut(Current(d), "queued")
                        /\ Remember(d, "queued") /\ Ends(d, "queued")
                     \/ /\ "lost" \in scenario.events
                        /\ Remember(d, "ambiguous") /\ Ends(d, "ambiguous")
                        /\ UNCHANGED <<turn, submissions>>
      /\ UNCHANGED <<scenario, mail, binding, record, late, user, created>>

\* OpenCode: identity and history, then the session's status.
OpenCodeLook(d) ==
  /\ scenario.adapter = "opencode" /\ disp[d].pc = "activate"
  /\ LET seen == turn[Current(d)]
     IN  \/ /\ disp[d].stop \/ "gap" \in scenario.events
            /\ Ends(d, "unavailable")
         \/ /\ "gap" \in scenario.events /\ ~disp[d].stop
            /\ Ends(d, "ambiguous")
         \/ /\ ~disp[d].stop /\ seen \in {"running", "queued", "completed"}
            /\ Ends(d, IF Active THEN "started" ELSE "completed")
         \/ /\ ~disp[d].stop /\ seen = "none" /\ disp[d].recovery
            /\ Ends(d, "ambiguous")
         \/ /\ ~disp[d].stop /\ seen = "none" /\ ~disp[d].recovery
            /\ IF Active THEN Ends(d, "busy") ELSE Goes(d, "start")
  /\ UNCHANGED <<scenario, mail, binding, record, known, native, created>>

\* prompt_async: queued by the runtime.
OpenCodePrompt(d) ==
  /\ scenario.adapter = "opencode" /\ disp[d].pc = "start"
  /\ CarriedOut(Current(d), "queued")
  /\ Ends(d, "queued")
  /\ UNCHANGED <<scenario, mail, binding, record, known, late, user, created>>

\* The submission is not answered: it was carried out, is on its way, or is lost.
Unanswered(d) ==
  /\ "lost" \in scenario.events
  /\ disp[d].pc = "start"
  /\ \/ CarriedOut(Current(d), "running") /\ ~Active /\ UNCHANGED late
     \/ late' = [late EXCEPT ![Current(d)] = @ + 1] /\ UNCHANGED <<turn, submissions>>
     \/ UNCHANGED <<turn, late, submissions>>
  /\ Ends(d, "ambiguous")
  /\ UNCHANGED <<scenario, mail, binding, record, known, user, created>>

-----------------------------------------------------------------------------
(***************************************************************************)
(* The runtime, its model and its user (external).                         *)
(***************************************************************************)

Send(m) ==
  /\ m \notin sent /\ Cardinality(sent) < scenario.msgs
  /\ sent' = sent \cup {m}
  /\ inbox' = inbox \cup {m}
  /\ UNCHANGED <<scenario, claims, expired, binding, record, disp, known, native, created>>

LateArrival(op) ==
  /\ late[op] > 0 /\ ~Active
  /\ late' = [late EXCEPT ![op] = @ - 1]
  /\ CarriedOut(op, "running")
  /\ UNCHANGED <<scenario, mail, binding, record, disp, known, user, created>>

TurnBegins(op) ==
  /\ turn[op] = "queued" /\ ~Active
  /\ turn' = [turn EXCEPT ![op] = "running"]
  /\ UNCHANGED <<scenario, mail, binding, record, disp, known, late, user, submissions, created>>

TurnEnds(op) ==
  /\ turn[op] = "running"
  /\ turn' = [turn EXCEPT ![op] = "completed"]
  /\ UNCHANGED <<scenario, mail, binding, record, disp, known, late, user, submissions, created>>

UserTurn ==
  /\ "user" \in scenario.events
  /\ user \/ ~Active
  /\ user' = ~user
  /\ UNCHANGED <<scenario, mail, binding, record, disp, known, turn, late, submissions, created>>

\* A turn, also the user's, claims what is in the inbox; it acknowledges, or the claim expires.
Claim ==
  /\ Active
  /\ inbox # {} /\ claims = {}
  /\ claims' = inbox /\ inbox' = {}
  /\ UNCHANGED <<scenario, expired, sent, binding, record, disp, known, native, created>>

Acknowledge ==
  /\ claims # {}
  /\ claims' = {}
  /\ UNCHANGED <<scenario, inbox, expired, sent, binding, record, disp, known, native, created>>

ClaimExpires ==
  /\ "lapse" \in scenario.events
  /\ \A op \in Operation : created[op] < MaxRecords
  /\ claims # {}
  /\ expired' = expired \cup claims /\ claims' = {}
  /\ UNCHANGED <<scenario, inbox, sent, binding, record, disp, known, native, created>>

Tick(d) ==
  \/ Refresh(d) \/ RecoverExpired(d) \/ ReadPending(d) \/ ReadRecord(d) \/ Clear(d)
  \/ Check(d) \/ Create(d) \/ Wait(d) \/ Submit(d) \/ Settle(d) \/ SaveOutcome(d)
  \/ CodexLook(d) \/ CodexStart(d) \/ PiActivate(d) \/ OpenCodeLook(d) \/ OpenCodePrompt(d)

Next ==
  \/ \E d \in Dispatchers :
       \/ Attach(d) \/ Tick(d) \/ BackoffEnds(d) \/ Unanswered(d) \/ Throws(d)
       \/ Close(d) \/ Detach(d) \/ Crash(d)
  \/ Lapse
  \/ \E m \in Msgs : Send(m)
  \/ \E op \in Operation : LateArrival(op) \/ TurnBegins(op) \/ TurnEnds(op)
  \/ UserTurn \/ Claim \/ Acknowledge \/ ClaimExpires

Spec == Init /\ [][Next]_vars

\* The dispatcher's loop and its backoff go on, turns end, and so do claims: they are
\* acknowledged or expire (the last, past the bound on records, is acknowledged).
FairSpec ==
  /\ Spec
  /\ \A d \in Dispatchers : WF_vars(Attach(d)) /\ WF_vars(Tick(d)) /\ WF_vars(BackoffEnds(d))
  /\ \A op \in Operation : WF_vars(TurnBegins(op)) /\ WF_vars(TurnEnds(op))
  /\ WF_vars(Acknowledge \/ ClaimExpires)

-----------------------------------------------------------------------------
(***************************************************************************)
(* Properties.                                                             *)
(***************************************************************************)

\* Each record of an operation leads to at most one submission, carried out or on its
\* way, through crashes between the save and the submission, lost and late answers,
\* stalled owners and takeovers.
SubmittedOncePerRecord ==
  \A op \in Operation : submissions[op] + late[op] <= created[op]

\* Doubt is kept: a record whose submission was accepted or is uncertain never becomes
\* pending again, to be submitted anew; only evidence that its turn ended moves it on.
DoubtIsKept ==
  [][record # None /\ record' # None /\ Op(record) = Op(record')
     /\ record.state \in {"accepted", "ambiguous", "exhausted"} => record'.state # "pending"]_vars

\* New work is not starved by a message that failed: what is in the inbox is claimed, or
\* an operation that names it is submitted, or doubt about a submission stops the
\* dispatcher from submitting.
WorkIsActivated ==
  \A m \in Msgs :
    m \in inbox ~>
      \/ m \notin inbox
      \/ \E op \in Operation : m \in op.ids /\ submissions[op] > 0
      \/ record # None /\ record.state = "ambiguous"
=============================================================================
