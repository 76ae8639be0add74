------------------------------ MODULE Registry ------------------------------
(***************************************************************************)
(* Names and sessions: the agent registry with its rollback bookkeeping,   *)
(* session records, leases and per-agent session sets, and the clients     *)
(* that register, rename, close, unregister, reconnect and adopt           *)
(* (src/core/session-store.ts, src/mcp-server/redis-client.ts,             *)
(* src/mcp-server/tools/session-binding.ts).                               *)
(*                                                                         *)
(* A script or a MULTI is one step, every other await a step of its own.   *)
(* A script may run and its answer be lost: the driver then sends it again *)
(* (at most three times), or the call fails although the script has run.   *)
(* Several clients may hold one name, and, by reconnecting, one session.   *)
(* A client runs one call at a time; its timers fire at any time.  What a  *)
(* rename does to the mail is in Mailbox: here the transfer succeeds or is *)
(* refused.                                                                *)
(***************************************************************************)
EXTENDS Integers, FiniteSets

CONSTANTS
  Clients,   \* RedisClient instances, one per process or transport session
  Names,     \* agent names
  Sessions,  \* session uuids
  Stamps,    \* what tells two registry values apart: time, role, pid
  Scenarios, \* what may happen besides registrations, and how many sessions there are
  None       \* no name, no session, no value

VARIABLES
  scenario,   \* the one of Scenarios this behaviour is about; never changes
  registry,   \* gptq:registry: the value of each name
  pending,    \* gptq:registry:pending: the last provisional value written
  restore,    \* gptq:registry:restore: the completed value it replaced
  record,     \* gptq:session:<id>: the agent name of each session
  lease,      \* sessions whose gptq:lease:<id> exists
  members,    \* gptq:agent-sessions:<name>
  heartbeat,  \* names whose gptq:heartbeat:<name> exists
  client,     \* the RedisClient instances
  used,       \* history: uuids handed out
  completed,  \* history: the last completed value of each name
  abandoned   \* history: provisional values whose writer is gone without undoing them

store == <<registry, pending, restore, record, lease, members, heartbeat>>
vars == <<scenario, store, client, used, completed, abandoned>>

\* createSession stores a provisional value, register and adoptIdentity a completed one;
\* a completed value carries a pid, so the two never coincide, while two provisional
\* values written in the same millisecond may.
Provisional(v) == [kind |-> "provisional", stamp |-> v]
Completed(v) == [kind |-> "completed", stamp |-> v]
Value == [kind: {"provisional", "completed"}, stamp: Stamps]

ASSUME RegistryAssumption ==
  /\ None \notin Names \cup Sessions \cup Value
  /\ Scenarios \subseteq
       [sessions: Nat, events: SUBSET {"close", "unregister", "reconnect", "adopt", "refresh",
                                       "beat", "lapse", "fail", "crash"}]

Client == [name: Names \cup {None},          \* _agentName
           session: Sessions \cup {None},    \* _sessionId
           refreshing: Sessions \cup {None}, \* the session the lease timer refreshes
           beating: Names \cup {None},       \* the name the heartbeat timer writes
           pc: {"idle", "prune", "create", "write", "migrate", "close", "delete",
                "remove", "undo", "retire", "unbeat", "publish", "ensure", "stop"},
           to: Names \cup {None},            \* the name being registered
           new: Sessions \cup {None},        \* the session created for it
           wrote: Value \cup {None},         \* its provisional value
           after: {"undo", "retire", "stop"},\* where closeSession returns to
           from: Names \cup {None},          \* the agent name closeSession read
           partial: BOOLEAN]                 \* the last call failed after it had changed the client

TypeOK ==
  /\ scenario \in Scenarios
  /\ registry \in [Names -> Value \cup {None}]
  /\ pending \in [Names -> Value \cup {None}]
  /\ restore \in [Names -> Value \cup {None}]
  /\ record \in [Sessions -> Names \cup {None}]
  /\ lease \subseteq Sessions
  /\ members \in [Names -> SUBSET Sessions]
  /\ heartbeat \subseteq Names
  /\ client \in [Clients -> Client]
  /\ used \subseteq Sessions
  /\ completed \in [Names -> Value \cup {None}]
  /\ abandoned \in [Names -> SUBSET Value]

Fresh == [name |-> None, session |-> None, refreshing |-> None, beating |-> None,
          pc |-> "idle", to |-> None, new |-> None, wrote |-> None, after |-> "stop",
          from |-> None, partial |-> FALSE]

Init ==
  /\ scenario \in Scenarios
  /\ registry = [n \in Names |-> None]
  /\ pending = [n \in Names |-> None]
  /\ restore = [n \in Names |-> None]
  /\ record = [s \in Sessions |-> None]
  /\ lease = {}
  /\ members = [n \in Names |-> {}]
  /\ heartbeat = {}
  /\ client = [c \in Clients |-> Fresh]
  /\ used = {}
  /\ completed = [n \in Names |-> None]
  /\ abandoned = [n \in Names |-> {}]

-----------------------------------------------------------------------------
(***************************************************************************)
(* The scripts of session-store.ts.                                        *)
(***************************************************************************)

\* Mutant: the value found is always what to restore, provisional or not.
WriteProvisional_NoCarry(n, v) ==
  /\ registry' = [registry EXCEPT ![n] = v]
  /\ pending' = [pending EXCEPT ![n] = v]
  /\ restore' = [restore EXCEPT ![n] = registry[n]]

\* WRITE_PROVISIONAL_REGISTRY: over another provisional value, what that one replaced
\* is carried forward.
WriteProvisional(n, v) ==
  /\ registry' = [registry EXCEPT ![n] = v]
  /\ pending' = [pending EXCEPT ![n] = v]
  /\ restore' = [restore EXCEPT ![n] =
                   IF registry[n] # None /\ registry[n] = pending[n] THEN @ ELSE registry[n]]

\* Mutant: the entry of a free name is left in place.
UndoRegistryWrite_KeepsFresh(n, v) ==
  IF registry[n] = v /\ restore[n] # None
  THEN /\ registry' = [registry EXCEPT ![n] = restore[n]]
       /\ pending' = [pending EXCEPT ![n] = None]
       /\ restore' = [restore EXCEPT ![n] = None]
  ELSE UNCHANGED <<registry, pending, restore>>

\* UNDO_REGISTRY_WRITE: only while the registry still holds the value v.
UndoRegistryWrite(n, v) ==
  IF registry[n] = v
  THEN /\ registry' = [registry EXCEPT ![n] = restore[n]]
       /\ pending' = [pending EXCEPT ![n] = None]
       /\ restore' = [restore EXCEPT ![n] = None]
  ELSE /\ pending' = [pending EXCEPT ![n] = IF @ = v THEN None ELSE @]
       /\ UNCHANGED <<registry, restore>>

\* PUBLISH_REGISTRATION.
PublishRegistration(n, v) ==
  /\ registry' = [registry EXCEPT ![n] = v]
  /\ pending' = [pending EXCEPT ![n] = None]
  /\ restore' = [restore EXCEPT ![n] = None]

\* Mutant: the lease is renewed without looking for the record.
RefreshLease_Blind(s, n) ==
  /\ lease' = lease \cup {s}
  /\ members' = [members EXCEPT ![n] = @ \cup {s}]

\* REFRESH_LEASE: only while the record exists; n is the agent name it holds.
RefreshLease(s, n) ==
  IF record[s] = None
  THEN UNCHANGED <<lease, members>>
  ELSE /\ lease' = lease \cup {s}
       /\ members' = [members EXCEPT ![record[s]] = @ \cup {s}]

\* PRUNE_EXPIRED.
PruneExpired(n) ==
  LET expired == members[n] \ lease
  IN  /\ members' = [members EXCEPT ![n] = @ \ expired]
      /\ record' = [s \in Sessions |-> IF s \in expired THEN None ELSE record[s]]

-----------------------------------------------------------------------------
(***************************************************************************)
(* register: a rename when the client already holds another name.          *)
(***************************************************************************)

\* The connection may fail between a script and its answer.
AnswerLost == "fail" \in scenario.events

Becomes(c, r) == client' = [client EXCEPT ![c] = r]
Goes(c, pc) == Becomes(c, [client[c] EXCEPT !.pc = pc])

Renaming(c) == client[c].session # None /\ client[c].to # client[c].name

\* Back to idle; what the call held is dropped.
Ended(r) == [r EXCEPT !.pc = "idle", !.to = None, !.new = None, !.wrote = None,
                      !.from = None, !.after = "stop"]

\* startHeartbeat.
Beating(r) == [r EXCEPT !.beating = r.name]

\* register begins; a rename stops the heartbeat timer of the old name.
Register(c, n) ==
  /\ client[c].pc = "idle"
  /\ Becomes(c, [client[c] EXCEPT
                   !.pc = "prune", !.to = n,
                   !.beating = IF client[c].session # None /\ n # client[c].name
                               THEN None ELSE @])
  /\ UNCHANGED <<scenario, store, used, completed, abandoned>>

Prune(c) ==
  /\ client[c].pc = "prune"
  /\ PruneExpired(client[c].to)
  /\ Goes(c, "create")
  /\ UNCHANGED <<scenario, registry, pending, restore, lease, heartbeat, used, completed, abandoned>>

\* Record, lease and membership in one MULTI.
Create(c) ==
  /\ client[c].pc = "create"
  /\ Cardinality(used) < scenario.sessions
  /\ \E s \in Sessions \ used :
       /\ record' = [record EXCEPT ![s] = client[c].to]
       /\ lease' = lease \cup {s}
       /\ members' = [members EXCEPT ![client[c].to] = @ \cup {s}]
       /\ used' = used \cup {s}
       /\ Becomes(c, [client[c] EXCEPT !.pc = "write", !.new = s])
  /\ UNCHANGED <<scenario, registry, pending, restore, heartbeat, completed, abandoned>>

\* The client takes on the new identity, and publishes it next.
Assumes(r) == [r EXCEPT !.pc = "publish", !.name = r.to, !.session = r.new]

\* The script runs; sent again after a lost answer, it writes the same value again.
Write(c) ==
  /\ client[c].pc = "write"
  /\ \E v \in Stamps :
       LET r == [client[c] EXCEPT !.wrote = Provisional(v)]
       IN  /\ client[c].wrote \in {None, Provisional(v)}
           /\ WriteProvisional(client[c].to, Provisional(v))
           /\ \/ Becomes(c, IF Renaming(c) THEN [r EXCEPT !.pc = "migrate"] ELSE Assumes(r))
              \/ AnswerLost /\ Becomes(c, r)
  /\ UNCHANGED <<scenario, record, lease, members, heartbeat, used, completed, abandoned>>

\* A value the client wrote is left to itself: nothing will undo it.
Abandons(c) ==
  abandoned' = IF client[c].wrote = None THEN abandoned
               ELSE [abandoned EXCEPT ![client[c].to] = @ \cup {client[c].wrote}]

\* createSession throws: at the registry write it first removes the session, if the
\* store lets it, but not the value, which may have been written all the same; register
\* throws on without an undo.  The old identity's heartbeat is restarted.
CreateFails(c) ==
  /\ "fail" \in scenario.events
  /\ client[c].pc \in {"prune", "create", "write"}
  /\ \/ UNCHANGED <<record, lease, members>>
     \/ /\ client[c].pc = "write"
        /\ record' = [record EXCEPT ![client[c].new] = None]
        /\ lease' = lease \ {client[c].new}
        /\ members' = [members EXCEPT ![client[c].to] = @ \ {client[c].new}]
  /\ Abandons(c)
  /\ Becomes(c, Ended(IF Renaming(c) THEN Beating(client[c]) ELSE client[c]))
  /\ UNCHANGED <<scenario, registry, pending, restore, heartbeat, used, completed>>

\* Recovery of the old name's claims and the transfer of its mail: done, or refused.
Migrate(c) ==
  /\ client[c].pc = "migrate"
  /\ \E after \in {"retire", "undo"} :
       Becomes(c, [client[c] EXCEPT !.pc = "close", !.after = after])
  /\ UNCHANGED <<scenario, store, used, completed, abandoned>>

\* The failed rename puts back what its write replaced.
Undo(c) ==
  /\ client[c].pc = "undo"
  /\ UndoRegistryWrite(client[c].to, client[c].wrote)
  /\ \/ Becomes(c, Ended(Beating(client[c])))
     \/ AnswerLost /\ UNCHANGED client
  /\ UNCHANGED <<scenario, record, lease, members, heartbeat, used, completed, abandoned>>

\* The undo itself fails: the error names it.
UndoFails(c) ==
  /\ "fail" \in scenario.events
  /\ client[c].pc = "undo"
  /\ Becomes(c, Ended(Beating(client[c])))
  /\ Abandons(c)
  /\ UNCHANGED <<scenario, store, used, completed>>

\* The old name's registry entry is deleted, or the store fails and it stays.
Retire(c) ==
  /\ client[c].pc = "retire"
  /\ \/ /\ registry' = [registry EXCEPT ![client[c].name] = None]
        /\ completed' = [completed EXCEPT ![client[c].name] = None]
     \/ UNCHANGED <<registry, completed>>
  /\ Goes(c, "unbeat") \/ (AnswerLost /\ UNCHANGED client)
  /\ UNCHANGED <<scenario, pending, restore, record, lease, members, heartbeat, used, abandoned>>

\* So is its heartbeat key.
Unbeat(c) ==
  /\ client[c].pc = "unbeat"
  /\ heartbeat' \in {heartbeat, heartbeat \ {client[c].name}}
  /\ Becomes(c, Assumes(client[c]))
  /\ UNCHANGED <<scenario, registry, pending, restore, record, lease, members, used, completed, abandoned>>

Publish(c) ==
  /\ client[c].pc = "publish"
  /\ \E v \in Stamps :
       /\ PublishRegistration(client[c].to, Completed(v))
       /\ completed' = [completed EXCEPT ![client[c].to] = Completed(v)]
  /\ Goes(c, "ensure") \/ (AnswerLost /\ UNCHANGED client)
  /\ UNCHANGED <<scenario, record, lease, members, heartbeat, used, abandoned>>

\* ensureMailbox; then both timers start for the new identity.
Ensure(c) ==
  /\ client[c].pc = "ensure"
  /\ Becomes(c, Ended(Beating([client[c] EXCEPT !.refreshing = client[c].session,
                                                !.partial = FALSE])))
  /\ UNCHANGED <<scenario, store, used, completed, abandoned>>

\* register throws with the new identity in place and its timers not started.
PublishFails(c) ==
  /\ "fail" \in scenario.events
  /\ client[c].pc \in {"publish", "ensure"}
  /\ Becomes(c, Ended([client[c] EXCEPT !.partial = TRUE]))
  /\ Abandons(c)
  /\ UNCHANGED <<scenario, store, used, completed>>

-----------------------------------------------------------------------------
(***************************************************************************)
(* closeSession: called by a rename, on success for the old session and on *)
(* failure for the new one, and by closeCurrentSession.                    *)
(***************************************************************************)

Closing(c) == IF client[c].after = "undo" THEN client[c].new ELSE client[c].session

\* Mutant: the lease timer is stopped whatever session it refreshes.
CloseRead_StopsAny(c) ==
  LET s == Closing(c)
      r == [client[c] EXCEPT !.refreshing = None]
  IN  /\ client[c].pc = "close"
      /\ Becomes(c, IF record[s] = None THEN [r EXCEPT !.pc = r.after]
                    ELSE [r EXCEPT !.pc = "delete", !.from = record[s]])
      /\ UNCHANGED <<scenario, store, used, completed, abandoned>>

\* The lease timer stops if it refreshes this session; a session without a record is
\* closed already.
CloseRead(c) ==
  LET s == Closing(c)
      r == [client[c] EXCEPT !.refreshing = IF @ = s THEN None ELSE @]
  IN  /\ client[c].pc = "close"
      /\ Becomes(c, IF record[s] = None THEN [r EXCEPT !.pc = r.after]
                    ELSE [r EXCEPT !.pc = "delete", !.from = record[s]])
      /\ UNCHANGED <<scenario, store, used, completed, abandoned>>

CloseDelete(c) ==
  /\ client[c].pc = "delete"
  /\ record' = [record EXCEPT ![Closing(c)] = None]
  /\ lease' = lease \ {Closing(c)}
  /\ Goes(c, "remove")
  /\ UNCHANGED <<scenario, registry, pending, restore, members, heartbeat, used, completed, abandoned>>

CloseRemove(c) ==
  /\ client[c].pc = "remove"
  /\ members' = [members EXCEPT ![client[c].from] = @ \ {Closing(c)}]
  /\ Goes(c, client[c].after)
  /\ UNCHANGED <<scenario, registry, pending, restore, record, lease, heartbeat, used, completed, abandoned>>

\* The store fails.  A rename carries on; closeCurrentSession throws, its timers stopped
\* and its identity kept.
CloseFails(c) ==
  /\ "fail" \in scenario.events
  /\ client[c].pc \in {"close", "delete", "remove", "stop"}
  /\ LET r == [client[c] EXCEPT !.refreshing = IF @ = Closing(c) THEN None ELSE @]
     IN  Becomes(c, IF r.after = "stop" THEN Ended([r EXCEPT !.partial = TRUE])
                    ELSE [r EXCEPT !.pc = r.after])
  /\ UNCHANGED <<scenario, store, used, completed, abandoned>>

\* close_session: both timers stop first.
CloseCurrentSession(c) ==
  /\ "close" \in scenario.events
  /\ client[c].pc = "idle"
  /\ client[c].session # None
  /\ Becomes(c, [client[c] EXCEPT !.pc = "close", !.after = "stop",
                                  !.refreshing = None, !.beating = None])
  /\ UNCHANGED <<scenario, store, used, completed, abandoned>>

Stop(c) ==
  /\ client[c].pc = "stop"
  /\ heartbeat' = heartbeat \ {client[c].name}
  /\ Becomes(c, Fresh)
  /\ UNCHANGED <<scenario, registry, pending, restore, record, lease, members, used, completed, abandoned>>

-----------------------------------------------------------------------------
(***************************************************************************)
(* The other calls of a client, each one script or one read.               *)
(***************************************************************************)

\* UNREGISTER_SCRIPT: this client's session, and the name for everybody.
UnregisterScript(s, n) ==
  /\ record' = [record EXCEPT ![s] = None]
  /\ lease' = lease \ {s}
  /\ members' = [members EXCEPT ![n] = @ \ {s}]
  /\ registry' = [registry EXCEPT ![n] = None]
  /\ completed' = [completed EXCEPT ![n] = None]
  /\ heartbeat' = heartbeat \ {n}

Unregister(c) ==
  /\ "unregister" \in scenario.events
  /\ client[c].pc = "idle"
  /\ client[c].session # None
  /\ UnregisterScript(client[c].session, client[c].name)
  /\ Becomes(c, Fresh)
  /\ UNCHANGED <<scenario, pending, restore, used, abandoned>>

\* The script fails, or its answer is lost: the timers are stopped and the identity is
\* kept.
UnregisterFails(c) ==
  /\ {"unregister", "fail"} \subseteq scenario.events
  /\ client[c].pc = "idle"
  /\ client[c].session # None
  /\ \/ UnregisterScript(client[c].session, client[c].name)
     \/ UNCHANGED <<record, lease, members, registry, completed, heartbeat>>
  /\ Becomes(c, [client[c] EXCEPT !.refreshing = None, !.beating = None, !.partial = TRUE])
  /\ UNCHANGED <<scenario, pending, restore, used, abandoned>>

\* ensureSessionBinding, reconnectSession: bind to a session whose record exists.
Reconnect(c, s) ==
  /\ "reconnect" \in scenario.events
  /\ client[c].pc = "idle"
  /\ client[c].session # s
  /\ record[s] # None
  /\ Becomes(c, [Fresh EXCEPT !.session = s, !.name = record[s],
                              !.refreshing = s, !.beating = record[s]])
  /\ UNCHANGED <<scenario, store, used, completed, abandoned>>

Live(n) == members[n] \cap lease

\* Mutant: only the heartbeat tells whether the target is occupied.
Adoptable_HeartbeatOnly(c, n) ==
  LET s == client[c].session
  IN  /\ registry[client[c].name] # None /\ registry[n] # None
      /\ record[s] = client[c].name /\ s \in lease
      /\ members[client[c].name] = {s}
      /\ n \notin heartbeat

\* adoptIdentity, its guards: this session alone, and live, under the old name; nobody
\* alive under the target.
Adoptable(c, n) ==
  LET s == client[c].session
  IN  /\ registry[client[c].name] # None /\ registry[n] # None
      /\ record[s] = client[c].name /\ s \in lease
      /\ members[client[c].name] = {s}
      /\ n \notin heartbeat /\ Live(n) = {}

\* The session moves to the target name, whose entry becomes a completed one; the old
\* name is retired.  The mapping, the wrapper claim, the runtime binding, claims and the
\* quiet source are Shell's.  If the answer is lost the driver sends the script again, which
\* then finds the source gone: the call fails and the client keeps its old name.
AdoptIdentity(c, n) ==
  LET s == client[c].session
      source == client[c].name
  IN  /\ "adopt" \in scenario.events
      /\ client[c].pc = "idle"
      /\ s # None /\ n # source
      /\ Adoptable(c, n)
      /\ record' = [record EXCEPT ![s] = n]
      /\ members' = [members EXCEPT ![source] = @ \ {s}, ![n] = @ \cup {s}]
      /\ \E v \in Stamps :
           /\ registry' = [registry EXCEPT ![n] = Completed(v), ![source] = None]
           /\ completed' = [completed EXCEPT ![n] = Completed(v), ![source] = None]
      /\ pending' = [pending EXCEPT ![n] = None]
      /\ restore' = [restore EXCEPT ![n] = None]
      /\ heartbeat' = heartbeat \ {source}
      /\ \/ Becomes(c, Beating([client[c] EXCEPT !.name = n]))
         \/ AnswerLost /\ UNCHANGED client
      /\ UNCHANGED <<scenario, lease, used, abandoned>>

-----------------------------------------------------------------------------
(***************************************************************************)
(* Timers, lapses and crashes.                                             *)
(***************************************************************************)

\* The lease timer.
Refresh(c) ==
  /\ "refresh" \in scenario.events
  /\ client[c].refreshing # None
  /\ RefreshLease(client[c].refreshing, client[c].name)
  /\ UNCHANGED <<scenario, registry, pending, restore, record, heartbeat, client, used, completed, abandoned>>

\* The heartbeat timer.
Beat(c) ==
  /\ "beat" \in scenario.events
  /\ client[c].beating # None
  /\ heartbeat' = heartbeat \cup {client[c].beating}
  /\ UNCHANGED <<scenario, registry, pending, restore, record, lease, members, client, used, completed, abandoned>>

\* A lease or a heartbeat that was not refreshed in time.
LeaseLapses(s) ==
  /\ "lapse" \in scenario.events
  /\ s \in lease
  /\ lease' = lease \ {s}
  /\ UNCHANGED <<scenario, registry, pending, restore, record, members, heartbeat, client, used, completed, abandoned>>

HeartbeatLapses(n) ==
  /\ "lapse" \in scenario.events
  /\ n \in heartbeat
  /\ heartbeat' = heartbeat \ {n}
  /\ UNCHANGED <<scenario, registry, pending, restore, record, lease, members, client, used, completed, abandoned>>

\* The process dies, or shuts down: its timers end with it.
Crash(c) ==
  /\ "crash" \in scenario.events
  /\ client[c] # Fresh
  /\ Becomes(c, Fresh)
  /\ Abandons(c)
  /\ UNCHANGED <<scenario, store, used, completed>>

Next ==
  \/ \E c \in Clients :
       \/ \E n \in Names : Register(c, n) \/ AdoptIdentity(c, n)
       \/ Prune(c) \/ Create(c) \/ Write(c) \/ CreateFails(c) \/ Migrate(c)
       \/ Undo(c) \/ UndoFails(c) \/ Retire(c) \/ Unbeat(c)
       \/ Publish(c) \/ Ensure(c) \/ PublishFails(c)
       \/ CloseRead(c) \/ CloseDelete(c) \/ CloseRemove(c) \/ CloseFails(c)
       \/ CloseCurrentSession(c) \/ Stop(c) \/ Unregister(c) \/ UnregisterFails(c)
       \/ \E s \in Sessions : Reconnect(c, s)
       \/ Refresh(c) \/ Beat(c) \/ Crash(c)
  \/ \E s \in Sessions : LeaseLapses(s)
  \/ \E n \in Names : HeartbeatLapses(n)

Spec == Init /\ [][Next]_vars

-----------------------------------------------------------------------------
(***************************************************************************)
(* Properties.                                                             *)
(***************************************************************************)

\* The registry holds a name's last completed value, or a provisional one whose undo
\* would put exactly that value back: however registrations, renames, their rollbacks,
\* unregistrations and adoptions of one name overlap, no failed attempt overwrites a
\* completed value or brings a deleted one back (session-store.ts, R2).
RollbackRestoresCompleted ==
  \A n \in Names :
    \/ registry[n] = completed[n]
    \/ registry[n] = pending[n] /\ restore[n] = completed[n]

\* A provisional value in the registry belongs to a registration in flight, unless its
\* writer died, its undo or its publication failed, or the answer to the write itself was
\* lost: a rename that is refused takes its write back.
ProvisionalIsOwned ==
  \A n \in Names :
    registry[n] # None /\ registry[n].kind = "provisional" =>
      \/ registry[n] \in abandoned[n]
      \/ \E c \in Clients : client[c].to = n /\ client[c].wrote = registry[n]

\* A registration that is undone is undone exactly, with scripts that run again after a lost
\* answer: the last completed value can always be put back, nobody else's is undone, and a
\* provisional value that nobody will undo is one of the failures named above.
UndoIsExact == RollbackRestoresCompleted /\ ProvisionalIsOwned

\* Presence is true: the sessions found alive in a name's set are exactly the live
\* sessions whose record bears the name, with closes, prunes, adoptions and lease
\* refreshes of the same session racing.
PresenceIsTrue ==
  \A n \in Names : Live(n) = {s \in lease : record[s] = n}

\* A closed or pruned session never comes back: not by a lease refresh in flight, not
\* by a rename's rollback.
NoResurrection ==
  [][\A s \in used : record[s] = None => record'[s] = None /\ s \notin lease']_vars

\* A client at rest keeps its own session alive and beats its own name, also after a
\* failed rename; unless its last call failed half way.
IdentityKeptAlive ==
  \A c \in Clients :
    client[c].pc = "idle" /\ client[c].session # None /\ ~client[c].partial =>
      /\ client[c].refreshing = client[c].session
      /\ client[c].beating = client[c].name

\* Presence can be relied on: the leases tell who is there, and the timers of a client at
\* rest serve the session and the name it answers as.
PresenceIsKept == PresenceIsTrue /\ IdentityKeptAlive

\* When a session moves from one name to another, no other session that bears the new name
\* is alive: the guard and the move are one script, and the session set it looks at shows
\* every live session (redis-client.ts, adoptIdentity).
AdoptionIsExclusive ==
  [][\A s \in Sessions : record[s] # None /\ record'[s] \notin {None, record[s]} =>
       \A t \in lease \ {s} : record[t] # record'[s]]_vars

\* A rename whose createSession fails leaves nothing of itself in the registry: "a failure
\* changes nothing" (redis-client.ts, register).  (Refuted: the write whose answer is lost
\* stays.)
FailedCreateChangesNothing ==
  [][\A c \in Clients :
       /\ client[c].pc = "write" /\ client'[c].pc = "idle"
       /\ client'[c].session = client[c].session /\ client[c].wrote # None
       => registry'[client[c].to] # client[c].wrote]_vars

\* An agent is listed and can be sent to while any of its sessions is alive: retiring
\* the old name of a rename leaves a name that another live session holds.  (Refuted:
\* the registry entry is deleted without looking.)
RenameSparesSharedName ==
  [][\A c \in Clients :
       client[c].pc = "retire" /\ Live(client[c].name) # {} =>
         (registry[client[c].name] # None => registry'[client[c].name] # None)]_vars
=============================================================================
