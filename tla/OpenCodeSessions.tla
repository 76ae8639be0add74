-------------------------- MODULE OpenCodeSessions --------------------------
(***************************************************************************)
(* The OpenCode plugin's session owner and the backends it owns:           *)
(* src/registered-shell/opencode-sessions.ts, opencode-backend.ts and the  *)
(* hooks of opencode-plugin-factory.ts.                                    *)
(*                                                                         *)
(* One host process serves many native sessions.  Every hook that names a  *)
(* session asks the owner for its backend; the first one starts a creation *)
(* and later ones join it.  A backend is a stack of resources opened one   *)
(* await at a time (a Redis client, a registered session, the runtime, an  *)
(* in-memory MCP server and client, the inbox dispatcher), and a deletion, *)
(* a disposal or a failure may come at each of those awaits.               *)
(***************************************************************************)
EXTENDS Integers, Sequences

CONSTANTS
    Hosts,    \* native session identifiers
    Dirs,     \* absolute working directories
    Entries,  \* creations: a bound on how many the owner ever starts
    Calls,    \* tool calls forwarded through the plugin
    Faulty,   \* the parts whose opening or closing may fail
    None

VARIABLES
    owned,     \* OpenCodeSessionOwner.entries
    entry,     \* every creation ever started, by name
    closers,   \* entries some owner.close is waiting on
    calls,     \* forwarded tool calls
    disposal,  \* OpenCodeSessionOwner.disposal
    awaiting   \* the closes that disposal waits for

vars == <<owned, entry, closers, calls, disposal, awaiting>>

\* The order in which createOpenCodeBackend opens what it owns.
Stages == <<"redis", "session", "runtime", "server", "client", "dispatcher">>
Parts == {Stages[i] : i \in DOMAIN Stages}

\* A registration that throws after createSession leaves a session that the
\* cleanup does not know of (sessionRegistered is still false).
Registering == 2
Half == "half-made session"

\* The order in which cleanup closes it: the dispatcher closes its runtime, and
\* a runtime no dispatcher has taken over is closed first.
ClosingOrder == <<"runtime", "dispatcher", "server", "client", "session", "redis">>
Closable == {ClosingOrder[i] : i \in DOMAIN ClosingOrder}

Retired == {"rejected", "closed"}

-----------------------------------------------------------------------------
Unused == [pc |-> "unused", host |-> None, dir |-> None, cancelled |-> FALSE,
           stage |-> 1, open |-> {}, todo |-> {}, failed |-> {}]

Init ==
    /\ owned = [s \in Hosts |-> None]
    /\ entry = [e \in Entries |-> Unused]
    /\ closers = {}
    /\ calls = [c \in Calls |-> [at |-> "idle", on |-> None]]
    /\ disposal = "no"
    /\ awaiting = {}

\* Mutant: the map is cleared although another entry has taken the name.
Without_Any(s, e) == [owned EXCEPT ![s] = None]

Without(s, e) == IF owned[s] = e THEN [owned EXCEPT ![s] = None] ELSE owned

Starts(e, s, d) ==
    /\ entry[e].pc = "unused"
    /\ entry' = [entry EXCEPT ![e] = [Unused EXCEPT !.pc = "creating", !.host = s, !.dir = d]]
    /\ owned' = [owned EXCEPT ![s] = e]

\* getOrCreate: join the entry of this session if it is for this directory,
\* otherwise start one; refused once the owner is disposed.
GetOrCreate(e, s, d) ==
    /\ disposal = "no"
    /\ IF owned[s] = None
       THEN Starts(e, s, d)
       ELSE owned[s] = e /\ entry[e].dir = d /\ UNCHANGED <<owned, entry>>

\* The session.created event and the chat hooks: ensure(identity).
Ensure(e, s, d) ==
    /\ GetOrCreate(e, s, d)
    /\ UNCHANGED <<closers, calls, disposal, awaiting>>

\* forwarded(...).execute, up to its await of getOrCreate.
Call(c, e, s, d) ==
    /\ calls[c].at = "idle"
    /\ GetOrCreate(e, s, d)
    /\ calls' = [calls EXCEPT ![c] = [at |-> "waiting", on |-> e]]
    /\ UNCHANGED <<closers, disposal, awaiting>>

\* ... and from there: the creation was rejected, the handle is closing or
\* closed, or the call goes to the backend.
Forward(c) ==
    /\ calls[c].at = "waiting"
    /\ \/ /\ entry[calls[c].on].pc = "ready"
          /\ calls' = [calls EXCEPT ![c].at = "sent"]
       \/ /\ entry[calls[c].on].pc \in Retired \cup {"closing"}
          /\ calls' = [calls EXCEPT ![c].at = "refused"]
    /\ UNCHANGED <<owned, entry, closers, disposal, awaiting>>

-----------------------------------------------------------------------------
(* createOpenCodeBackend *)

\* What a part that was opened adds, and the dispatcher takes the runtime over.
Opened(open, part) ==
    (open \cup {part}) \ (IF part = "dispatcher" THEN {"runtime"} ELSE {})

\* Server and client are assigned before they are connected, so a failed
\* connect leaves them to be closed.
LeftBehind(part) == {part} \cap {"server", "client"}

\* Mutant: the runtime of a creation that failed before its dispatcher is left.
CleanupOf_NoRuntime(open) == (open \cap Closable) \ {"runtime"}

\* What cleanup has to close, and the part it comes to first.
CleanupOf(open) == open \cap Closable

FirstOf(todo) ==
    ClosingOrder[CHOOSE i \in DOMAIN ClosingOrder :
                   /\ ClosingOrder[i] \in todo
                   /\ \A j \in 1..(i - 1) : ClosingOrder[j] \notin todo]

OpenPart(e) ==
    LET part == Stages[entry[e].stage] IN
    /\ entry[e].pc = "creating"
    /\ entry' = [entry EXCEPT
           ![e].open = Opened(@, part),
           ![e].stage = @ + 1,
           ![e].pc = IF part = "dispatcher" THEN "created" ELSE "creating"]
    /\ UNCHANGED <<owned, closers, calls, disposal, awaiting>>

\* An await of the creation throws: everything opened so far is closed, but not
\* what a registration made before it threw.  The native port is resolved before
\* the Redis client exists ("redis" fails).
OpenFails(e) ==
    LET part == Stages[entry[e].stage]
        left == entry[e].open \cup LeftBehind(part)
    IN
    /\ entry[e].pc = "creating"
    /\ part \in Faulty
    /\ \E half \in SUBSET {Half} :
         /\ half # {} => entry[e].stage = Registering
         /\ entry' = [entry EXCEPT ![e].pc = "failing", ![e].open = left \cup half,
                                   ![e].todo = CleanupOf(left)]
    /\ UNCHANGED <<owned, closers, calls, disposal, awaiting>>

\* The continuation of the factory: a creation that was cancelled meanwhile
\* closes its backend and rejects, any other becomes ready.
Admit(e) ==
    /\ entry[e].pc = "created"
    /\ entry' = IF entry[e].cancelled
                THEN [entry EXCEPT ![e].pc = "failing", ![e].todo = CleanupOf(entry[e].open)]
                ELSE [entry EXCEPT ![e].pc = "ready"]
    /\ UNCHANGED <<owned, closers, calls, disposal, awaiting>>

\* cleanup: every part is attempted, whatever became of the one before.
ClosePart(e, ok) ==
    LET part == FirstOf(entry[e].todo) IN
    /\ entry[e].pc \in {"failing", "closing"}
    /\ entry[e].todo # {}
    /\ ok \/ part \in Faulty
    /\ entry' = [entry EXCEPT
           ![e].todo = @ \ {part},
           ![e].open = IF ok THEN @ \ {part} ELSE @,
           ![e].failed = IF ok THEN @ ELSE @ \cup {part}]
    /\ UNCHANGED <<owned, closers, calls, disposal, awaiting>>

\* Mutant: a creation that failed or was cancelled is never settled.
CleanupEnds_KeepsRejected(e) ==
    /\ entry[e].pc = "closing"
    /\ entry[e].todo = {}
    /\ entry' = [entry EXCEPT ![e].pc = "closed"]
    /\ owned' = Without(entry[e].host, e)
    /\ UNCHANGED <<closers, calls, disposal, awaiting>>

\* The creation's catch and the handle's finally: the entry leaves the map if
\* it is still the one there.
CleanupEnds(e) ==
    /\ entry[e].pc \in {"failing", "closing"}
    /\ entry[e].todo = {}
    /\ entry' = [entry EXCEPT ![e].pc = IF @ = "failing" THEN "rejected" ELSE "closed"]
    /\ owned' = Without(entry[e].host, e)
    /\ UNCHANGED <<closers, calls, disposal, awaiting>>

-----------------------------------------------------------------------------
(* Retirement *)

\* OpenCodeSessionOwner.close up to its first await, from session.deleted.
Close(s, d) ==
    LET e == owned[s] IN
    /\ e # None
    /\ entry[e].dir = d
    /\ entry' = [entry EXCEPT ![e].cancelled = TRUE]
    /\ closers' = closers \cup {e}
    /\ UNCHANGED <<owned, calls, disposal, awaiting>>

\* ... the result is ready: handle.close starts the cleanup, once.
CloseHandle(e) ==
    /\ e \in closers
    /\ entry[e].pc = "ready"
    /\ entry' = [entry EXCEPT ![e].pc = "closing", ![e].todo = CleanupOf(entry[e].open)]
    /\ UNCHANGED <<owned, closers, calls, disposal, awaiting>>

\* ... and its finally.  The creation may have been rejected long before the
\* close resumes, and another entry may have taken the name.
CloseReturns(e) ==
    /\ e \in closers
    /\ entry[e].pc \in Retired
    /\ closers' = closers \ {e}
    /\ owned' = Without(entry[e].host, e)
    /\ UNCHANGED <<entry, calls, disposal, awaiting>>

\* Mutant: only established backends are closed.
Dispose_ReadyOnly ==
    LET all == {owned[s] : s \in {t \in Hosts : owned[t] # None /\ entry[owned[t]].pc = "ready"}}
    IN
    /\ disposal = "no"
    /\ disposal' = "pending"
    /\ awaiting' = all
    /\ closers' = closers \cup all
    /\ entry' = [e \in Entries |-> [entry[e] EXCEPT !.cancelled = @ \/ e \in all]]
    /\ UNCHANGED <<owned, calls>>

\* dispose, from the hook or the server.instance.disposed event: terminal
\* before it waits for anything.
Dispose ==
    LET all == {owned[s] : s \in Hosts} \ {None} IN
    /\ disposal = "no"
    /\ disposal' = "pending"
    /\ awaiting' = all
    /\ closers' = closers \cup all
    /\ entry' = [e \in Entries |-> [entry[e] EXCEPT !.cancelled = @ \/ e \in all]]
    /\ UNCHANGED <<owned, calls>>

DisposeEnds ==
    /\ disposal = "pending"
    /\ awaiting \cap closers = {}
    /\ disposal' = "done"
    /\ UNCHANGED <<owned, entry, closers, calls, awaiting>>

Finished == disposal = "done" /\ UNCHANGED vars

Next ==
    \/ \E e \in Entries, s \in Hosts, d \in Dirs : Ensure(e, s, d)
    \/ \E c \in Calls, e \in Entries, s \in Hosts, d \in Dirs : Call(c, e, s, d)
    \/ \E c \in Calls : Forward(c)
    \/ \E e \in Entries : OpenPart(e)
    \/ \E e \in Entries : OpenFails(e)
    \/ \E e \in Entries : Admit(e)
    \/ \E e \in Entries, ok \in BOOLEAN : ClosePart(e, ok)
    \/ \E e \in Entries : CleanupEnds(e)
    \/ \E s \in Hosts, d \in Dirs : Close(s, d)
    \/ \E e \in Entries : CloseHandle(e)
    \/ \E e \in Entries : CloseReturns(e)
    \/ Dispose
    \/ DisposeEnds
    \/ Finished

Spec == Init /\ [][Next]_vars

\* Every await of the creation and of the cleanup settles (the Redis client,
\* the MCP client and the dispatcher bound their own waits), and a settled
\* promise's continuation runs.  Nobody has to close or to dispose.
FairSpec ==
    /\ Spec
    /\ \A e \in Entries :
         /\ WF_vars(OpenPart(e) \/ OpenFails(e) \/ Admit(e))
         /\ WF_vars(CleanupEnds(e) \/ \E ok \in BOOLEAN : ClosePart(e, ok))
         /\ WF_vars(CloseHandle(e))
         /\ WF_vars(CloseReturns(e))
    /\ \A c \in Calls : WF_vars(Forward(c))
    /\ WF_vars(DisposeEnds)

-----------------------------------------------------------------------------
(* Properties *)

\* The owner's map, the entries and the calls are well formed, and an entry in
\* the map is one that was started for that session.
TypeOK ==
    /\ owned \in [Hosts -> Entries \cup {None}]
    /\ entry \in [Entries ->
         [pc : {"unused", "creating", "created", "ready", "closing", "failing"} \cup Retired,
          host : Hosts \cup {None}, dir : Dirs \cup {None}, cancelled : BOOLEAN,
          stage : 1..Len(Stages) + 1, open : SUBSET (Parts \cup {Half}), todo : SUBSET Parts,
          failed : SUBSET Faulty]]
    /\ closers \subseteq Entries /\ awaiting \subseteq Entries
    /\ calls \in [Calls -> [at : {"idle", "waiting", "sent", "refused"},
                            on : Entries \cup {None}]]
    /\ disposal \in {"no", "pending", "done"}
    /\ \A s \in Hosts : owned[s] # None => entry[owned[s]].host = s

\* No orphan: whatever part of a backend is still being opened, in use or being
\* closed belongs to the entry the owner's map holds for its session, so a
\* deletion or the disposal will find it, and a session never has two backends
\* at once.  Only a part whose own close failed is ever left.
OwnedWhileOpen ==
    \A e \in Entries :
        entry[e].pc \notin Retired \cup {"unused"} => owned[entry[e].host] = e

\* What a creation may leave: the parts whose close failed, and the half-made
\* session of a registration that threw.
MayLeave(x) ==
    x.failed \cup (IF x.pc \in {"failing", "rejected"} /\ x.stage = Registering
                   THEN {Half} ELSE {})

\* A retired backend, whether its creation failed at some await, was cancelled
\* or was closed, leaves nothing open but the parts whose close failed; only a
\* creation that failed in its registration may leave the session that made,
\* which no cleanup and no later disposal knows of.
RetiredLeavesNothing ==
    \A e \in Entries : entry[e].pc \in Retired => entry[e].open \subseteq MayLeave(entry[e])

\* When dispose resolves, no creation is still in flight and nothing else is
\* open: creations that were in flight when it was called included.
DisposedLeavesNothing ==
    disposal = "done" => \A e \in Entries :
        /\ entry[e].pc \in Retired \cup {"unused"}
        /\ entry[e].open \subseteq MayLeave(entry[e])

\* Disposal ends and every forwarded call is answered, whatever part fails to
\* open or to close.
DisposalEnds == disposal = "pending" ~> disposal = "done"
CallsSettle == \A c \in Calls : calls[c].at = "waiting" ~> calls[c].at # "waiting"

=============================================================================
