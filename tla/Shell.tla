------------------------------- MODULE Shell --------------------------------
(***************************************************************************)
(* The registered shell: a sidecar that registers a name of its own before *)
(* it serves, binds a native runtime, takes over the mailbox the runtime   *)
(* is mapped to, starts the inbox dispatcher, and retires its session when *)
(* it is closed (src/registered-shell/server.ts, runtime-controller.ts,    *)
(* runtime-mailbox.ts, src/core/mailbox-continuity.ts, occupancy-guard.ts, *)
(* RedisClient.adoptIdentity).                                             *)
(*                                                                         *)
(* A shell registers under a name nobody else has (it carries a uuid), so  *)
(* the shell itself stands for that name.  Registration and session close  *)
(* are one step here; Registry takes them apart.  A command may run and    *)
(* its answer be lost, where the code then treats it as failed.            *)
(***************************************************************************)
EXTENDS Integers, FiniteSets

CONSTANTS
  Shells,    \* sidecar processes
  Legacy,    \* names registered before, offline and never mapped
  Runtimes,  \* native conversations
  Scenarios, \* the conversation each shell binds, how many epochs of it, and what else happens
  None       \* no name, no shell, no plan

Names == Shells \cup Legacy

ASSUME ShellAssumption ==
  /\ Shells \cap Legacy = {} /\ None \notin Names
  /\ Scenarios \subseteq
       [runtime: [Shells -> Runtimes], binds: Nat,
        events: SUBSET {"fail", "crash", "stall", "mail", "send", "operator"}]

VARIABLES
  scenario,   \* the one of Scenarios this behaviour is about; never changes
  entry,      \* gptq:registry: who wrote each name's value
  mapping,    \* gptq:runtime-mailbox:<client>:<runtime>: the name of each runtime
  record,     \* session records: the agent name of each shell's session
  lease,      \* sessions whose lease exists
  members,    \* gptq:agent-sessions:<name>
  heartbeat,  \* names whose heartbeat exists
  binding,    \* gptq:runtime-binding:<name>: the shell whose dispatcher is attached
  inbox,      \* of each name: nothing, queued messages, or claimed ones
  outbound,   \* names whose gptq:outbound-activity exists
  shell,      \* the sidecars
  plan,       \* the operator's continuity plan
  spoken,     \* history: names some message was sent from
  silent,     \* history: names whose marker has lapsed since the last send
  stray       \* history: names whose runtime binding was left behind by a failed command

store == <<entry, mapping, record, lease, members, heartbeat, binding, inbox, outbound>>
history == <<spoken, silent, stray>>
vars == <<scenario, store, shell, plan, history>>

Shell == [pc: {"new", "describe", "up", "failed", "crashed"},
          name: Names \cup {None},       \* client._agentName
          transport: {"none", "open", "closed"},
          cut: BOOLEAN,                  \* the client is forced off Redis, its timers stopped
          bind: {"idle", "adapter", "unbind", "map", "look", "adopt", "attach"},
          want: Names \cup {None},       \* the mapped name bind has read
          binds: Nat,
          ready: BOOLEAN,                \* a dispatcher is running
          clean: {"no", "runtime", "retire", "done"},  \* cleanupPromise
          retired: BOOLEAN,              \* closeCurrentSession has returned
          sending: BOOLEAN]              \* send_message between its marker and its push

Plan == [runtime: Runtimes, source: Names \cup {None}, target: Names,
         sourceEntry: Names \cup {None}, targetEntry: Names]

TypeOK ==
  /\ scenario \in Scenarios
  /\ entry \in [Names -> Names \cup {None}]
  /\ mapping \in [Runtimes -> Names \cup {None}]
  /\ record \in [Shells -> Names \cup {None}]
  /\ lease \subseteq Shells
  /\ members \in [Names -> SUBSET Shells]
  /\ heartbeat \subseteq Names
  /\ binding \in [Names -> Shells \cup {None}]
  /\ inbox \in [Names -> {"empty", "queued", "claimed"}]
  /\ outbound \subseteq Names
  /\ shell \in [Shells -> Shell]
  /\ plan \in Plan \cup {None}
  /\ spoken \subseteq Names /\ silent \subseteq Names /\ stray \subseteq Names

Fresh == [pc |-> "new", name |-> None, transport |-> "none", cut |-> FALSE, bind |-> "idle",
          want |-> None, binds |-> 0, ready |-> FALSE, clean |-> "no", retired |-> FALSE,
          sending |-> FALSE]

Init ==
  /\ scenario \in Scenarios
  /\ entry = [n \in Names |-> IF n \in Legacy THEN n ELSE None]
  /\ mapping = [r \in Runtimes |-> None]
  /\ record = [s \in Shells |-> None]
  /\ lease = {}
  /\ members = [n \in Names |-> {}]
  /\ heartbeat = {}
  /\ binding = [n \in Names |-> None]
  /\ inbox = [n \in Names |-> "empty"]
  /\ outbound = {}
  /\ shell = [s \in Shells |-> Fresh]
  /\ plan = None
  /\ spoken = {} /\ silent = {} /\ stray = {}

Becomes(s, r) == shell' = [shell EXCEPT ![s] = r]

-----------------------------------------------------------------------------
(***************************************************************************)
(* Start: register, describe the registration, connect the transport.      *)
(***************************************************************************)

\* What a registration under its own name leaves in the store.
Registered(s) ==
  /\ entry' = [entry EXCEPT ![s] = s]
  /\ record' = [record EXCEPT ![s] = s]
  /\ lease' = lease \cup {s}
  /\ members' = [members EXCEPT ![s] = @ \cup {s}]

Register(s) ==
  /\ shell[s].pc = "new"
  /\ Registered(s)
  /\ heartbeat' = heartbeat \cup {s}
  /\ Becomes(s, [shell[s] EXCEPT !.pc = "describe", !.name = s])
  /\ UNCHANGED <<scenario, mapping, binding, inbox, outbound, plan, history>>

\* The registration fails, times out or is aborted: the connections are broken at once,
\* what the store has done already stays until the lease lapses.
RegisterFails(s) ==
  /\ "fail" \in scenario.events
  /\ shell[s].pc = "new"
  /\ Registered(s) \/ UNCHANGED <<entry, record, lease, members>>
  /\ Becomes(s, [shell[s] EXCEPT !.pc = "failed", !.cut = TRUE, !.clean = "runtime"])
  /\ UNCHANGED <<scenario, mapping, heartbeat, binding, inbox, outbound, plan, history>>

\* The completed value is published with the tool names, then the transport is
\* connected; whether the shell was closed meanwhile is only looked at after that.
Connect(s) ==
  /\ shell[s].pc = "describe" /\ ~shell[s].cut
  /\ entry' = [entry EXCEPT ![s] = s]
  /\ Becomes(s, [shell[s] EXCEPT !.transport = "open",
                                 !.pc = IF shell[s].clean = "no" THEN "up" ELSE "failed"])
  /\ UNCHANGED <<scenario, mapping, record, lease, members, heartbeat, binding, inbox, outbound, plan, history>>

\* Startup fails after the registration: the cleanup starts, unless it has.
ConnectFails(s) ==
  /\ shell[s].pc = "describe"
  /\ shell[s].cut \/ "fail" \in scenario.events
  /\ Becomes(s, [shell[s] EXCEPT !.pc = "failed",
                                 !.clean = IF @ = "no" THEN "runtime" ELSE @])
  /\ UNCHANGED <<scenario, store, plan, history>>

-----------------------------------------------------------------------------
(***************************************************************************)
(* bind_runtime: createRuntimeController.bind, one at a time.              *)
(***************************************************************************)

\* A new epoch of the shell's one runtime.
Bind(s) ==
  /\ shell[s].pc = "up" /\ shell[s].transport = "open" /\ shell[s].clean = "no"
  /\ shell[s].bind = "idle" /\ shell[s].binds < scenario.binds
  /\ Becomes(s, [shell[s] EXCEPT !.bind = "adapter", !.binds = @ + 1])
  /\ UNCHANGED <<scenario, store, plan, history>>

\* createAdapter has answered; a controller closed meanwhile drops the adapter.
BindAdapter(s) ==
  /\ shell[s].bind = "adapter"
  /\ Becomes(s, [shell[s] EXCEPT !.bind = IF shell[s].clean = "no" THEN "unbind" ELSE "idle"])
  /\ UNCHANGED <<scenario, store, plan, history>>

\* dispatcher.close of a shell whose dispatcher may be attached: the binding is deleted if
\* it is still its own.  A detach that fails is swallowed, and the binding stays until it
\* lapses.
Detached(s) ==
  LET mine == {n \in Names : shell[s].ready /\ n = shell[s].name /\ binding[n] = s}
  IN  \/ /\ ~shell[s].cut
         /\ binding' = [n \in Names |-> IF n \in mine THEN None ELSE binding[n]]
         /\ UNCHANGED stray
      \/ /\ "fail" \in scenario.events \/ shell[s].cut
         /\ stray' = stray \cup mine
         /\ UNCHANGED binding

BindCloses(s) ==
  /\ shell[s].bind = "unbind"
  /\ Detached(s)
  /\ Becomes(s, [shell[s] EXCEPT !.bind = "map", !.ready = FALSE])
  /\ UNCHANGED <<scenario, entry, mapping, record, lease, members, heartbeat, inbox, outbound, plan, spoken, silent>>

\* restoreRuntimeMailbox: SET NX of the mapping, and the read of what it is.
BindMaps(s) ==
  LET r == scenario.runtime[s]
  IN  /\ shell[s].bind = "map" /\ ~shell[s].cut
      /\ mapping' = [mapping EXCEPT ![r] = IF @ = None THEN shell[s].name ELSE @]
      /\ Becomes(s, [shell[s] EXCEPT !.bind = "look"])
      /\ UNCHANGED <<scenario, entry, record, lease, members, heartbeat, binding, inbox, outbound, plan, history>>

BindLooks(s) ==
  LET m == mapping[scenario.runtime[s]]
  IN  /\ shell[s].bind = "look" /\ ~shell[s].cut
      /\ Becomes(s, [shell[s] EXCEPT !.want = m,
                                     !.bind = IF m = shell[s].name THEN "attach" ELSE "adopt"])
      /\ UNCHANGED <<scenario, store, plan, history>>

\* occupancyGuardLua, the signals of the shared table but one: no wrapper claims these names.
Occupied(n) ==
  \/ binding[n] # None
  \/ n \in heartbeat
  \/ members[n] \cap lease # {}
  \/ inbox[n] = "claimed"

\* A name that may be given up: no queued or claimed messages, none sent from it.
Quiet(n) == inbox[n] = "empty" /\ n \notin outbound

\* adoptIdentity: the mapping unchanged, both names registered, this session alone and
\* live under a quiet name, nobody at the target.
Adoptable(s) ==
  LET n == shell[s].name
      m == shell[s].want
  IN  /\ mapping[scenario.runtime[s]] = m
      /\ entry[n] # None /\ entry[m] # None
      /\ record[s] = n /\ s \in lease /\ members[n] = {s}
      /\ ~Occupied(m)
      /\ Quiet(n)

\* adoptIdentity, its effects: the session moves to the mapped name and its own is retired.
AdoptIdentity(s) ==
  LET n == shell[s].name
      m == shell[s].want
  IN  /\ record' = [record EXCEPT ![s] = m]
      /\ members' = [members EXCEPT ![n] = @ \ {s}, ![m] = @ \cup {s}]
      /\ entry' = [entry EXCEPT ![m] = s, ![n] = None]

\* The adoption is done, or refused; or it is done and its answer is lost: sent again it is
\* refused, the bind fails and the client goes on under the name that was retired.
BindAdopts(s) ==
  LET n == shell[s].name
      m == shell[s].want
  IN  /\ shell[s].bind = "adopt" /\ ~shell[s].cut
      /\ \/ /\ Adoptable(s) /\ AdoptIdentity(s)
            /\ heartbeat' = (heartbeat \ {n}) \cup {m}
            /\ Becomes(s, [shell[s] EXCEPT !.bind = "attach", !.name = m, !.want = None])
         \/ /\ "fail" \in scenario.events
            /\ Adoptable(s) /\ AdoptIdentity(s)
            /\ heartbeat' = heartbeat \ {n}
            /\ Becomes(s, [shell[s] EXCEPT !.bind = "idle", !.want = None])
         \/ /\ ~Adoptable(s)
            /\ Becomes(s, [shell[s] EXCEPT !.bind = "idle", !.want = None])
            /\ UNCHANGED <<entry, record, members, heartbeat>>
      /\ UNCHANGED <<scenario, mapping, lease, binding, inbox, outbound, plan, history>>

\* startInboxDispatcher: attach with SET NX, or refused.
BindAttaches(s) ==
  LET n == shell[s].name
  IN  /\ shell[s].bind = "attach" /\ ~shell[s].cut
      /\ binding' = [binding EXCEPT ![n] = IF @ = None THEN s ELSE @]
      /\ Becomes(s, [shell[s] EXCEPT !.bind = "idle", !.want = None,
                                     !.ready = (binding[n] = None)])
      /\ UNCHANGED <<scenario, entry, mapping, record, lease, members, heartbeat, inbox, outbound, plan, history>>

\* The adapter or the store fails: the adapter is closed and the error returned.  If the
\* SET NX of attach has run all the same, nothing will delete or refresh its binding.
BindFails(s) ==
  LET n == shell[s].name
  IN  /\ shell[s].bind # "idle"
      /\ "fail" \in scenario.events \/ shell[s].cut
      /\ Becomes(s, [shell[s] EXCEPT !.bind = "idle", !.want = None])
      /\ \/ UNCHANGED <<binding, stray>>
         \/ /\ shell[s].bind = "attach" /\ binding[n] = None
            /\ binding' = [binding EXCEPT ![n] = s]
            /\ stray' = stray \cup {n}
      /\ UNCHANGED <<scenario, entry, mapping, record, lease, members, heartbeat, inbox, outbound, plan, spoken, silent>>

-----------------------------------------------------------------------------
(***************************************************************************)
(* Cleanup: once, whoever asks first, and within its time limit.           *)
(***************************************************************************)

\* The caller aborts, the transport closes, or close() is called.
AskClose(s) ==
  /\ shell[s].pc \in {"describe", "up"} /\ shell[s].clean = "no"
  /\ Becomes(s, [shell[s] EXCEPT !.clean = "runtime"])
  /\ UNCHANGED <<scenario, store, plan, history>>

\* Mutant: the controller closes without waiting for a bind in progress.
CloseRuntime_NoWait(s) ==
  /\ shell[s].clean = "runtime"
  /\ Detached(s)
  /\ Becomes(s, [shell[s] EXCEPT !.clean = "retire", !.ready = FALSE,
                                 !.transport = IF @ = "open" THEN "closed" ELSE @])
  /\ UNCHANGED <<scenario, entry, mapping, record, lease, members, heartbeat, inbox, outbound, plan, spoken, silent>>

\* runtime.close: the bind in progress first, then the dispatcher, whose detach may fail
\* without stopping the cleanup.  server.close is called right after, with the session's
\* retirement under way beside it.
CloseRuntime(s) ==
  /\ shell[s].clean = "runtime" /\ shell[s].bind = "idle"
  /\ Detached(s)
  /\ Becomes(s, [shell[s] EXCEPT !.clean = "retire", !.ready = FALSE,
                                 !.transport = IF @ = "open" THEN "closed" ELSE @])
  /\ UNCHANGED <<scenario, entry, mapping, record, lease, members, heartbeat, inbox, outbound, plan, spoken, silent>>

\* closeCurrentSession: the session goes, from the set of the name its record bears, and
\* the client's heartbeat; the registry entry and the mailbox stay.  Then the connections
\* are broken.
Retire(s) ==
  LET n == shell[s].name
  IN  /\ shell[s].clean = "retire"
      /\ IF n = None
         THEN UNCHANGED <<record, lease, members, heartbeat>>
         ELSE /\ ~shell[s].cut
              /\ record' = [record EXCEPT ![s] = None]
              /\ lease' = lease \ {s}
              /\ members' = [members EXCEPT ![record[s]] = @ \ {s}]
              /\ heartbeat' = heartbeat \ {n}
      /\ Becomes(s, [shell[s] EXCEPT !.clean = "done", !.cut = TRUE, !.retired = (n # None),
                                     !.name = None])
      /\ UNCHANGED <<scenario, entry, mapping, binding, inbox, outbound, plan, history>>

\* Mutant: a cleanup that gave up leaves the connections and the timers running.
GiveUp_KeepsConnections(s) ==
  /\ "fail" \in scenario.events
  /\ shell[s].clean \in {"runtime", "retire"}
  /\ Becomes(s, [shell[s] EXCEPT !.clean = "done"])
  /\ UNCHANGED <<scenario, store, plan, history>>

\* The time limit passes while a bind or a store hangs, or the session's retirement fails:
\* the connections are broken.
GiveUp(s) ==
  /\ "fail" \in scenario.events
  /\ shell[s].clean \in {"runtime", "retire"}
  /\ Becomes(s, [shell[s] EXCEPT !.clean = "done", !.cut = TRUE])
  /\ UNCHANGED <<scenario, store, plan, history>>

-----------------------------------------------------------------------------
(***************************************************************************)
(* The tools and the other parties.                                        *)
(***************************************************************************)

Serving(s) == shell[s].pc = "up" /\ shell[s].transport = "open" /\ shell[s].name # None

\* Mutant: the marker is written after the message was sent.
SendMarks_Later(s) ==
  /\ "send" \in scenario.events /\ Serving(s) /\ ~shell[s].sending
  /\ Becomes(s, [shell[s] EXCEPT !.sending = TRUE])
  /\ UNCHANGED <<scenario, store, plan, history>>

\* send_message of the bridge: the outbound marker of the name, for a day, then the send.
SendMarks(s) ==
  /\ "send" \in scenario.events /\ Serving(s) /\ ~shell[s].sending
  /\ outbound' = outbound \cup {shell[s].name}
  /\ Becomes(s, [shell[s] EXCEPT !.sending = TRUE])
  /\ UNCHANGED <<scenario, entry, mapping, record, lease, members, heartbeat, binding, inbox, plan, history>>

Sends(s) ==
  /\ shell[s].sending /\ shell[s].name # None /\ ~shell[s].cut
  /\ spoken' = spoken \cup {shell[s].name}
  /\ silent' = silent \ {shell[s].name}
  /\ Becomes(s, [shell[s] EXCEPT !.sending = FALSE])
  /\ UNCHANGED <<scenario, store, plan, stray>>

\* A day after the last send the marker expires; no send takes that long.
MarkerLapses(n) ==
  /\ n \in outbound
  /\ \A s \in Shells : shell[s].sending /\ ~shell[s].cut => shell[s].name # n
  /\ outbound' = outbound \ {n}
  /\ silent' = silent \cup {n}
  /\ UNCHANGED <<scenario, entry, mapping, record, lease, members, heartbeat, binding, inbox, shell, plan, spoken, stray>>

\* A peer sends to a registered name; a shell claims its messages; it acknowledges them,
\* or they are recovered and acknowledged by somebody else.
Deliver(n) ==
  /\ "mail" \in scenario.events
  /\ entry[n] # None /\ inbox[n] = "empty"
  /\ inbox' = [inbox EXCEPT ![n] = "queued"]
  /\ UNCHANGED <<scenario, entry, mapping, record, lease, members, heartbeat, binding, outbound, shell, plan, history>>

ClaimTasks(s) ==
  /\ Serving(s) /\ ~shell[s].cut /\ inbox[shell[s].name] = "queued"
  /\ inbox' = [inbox EXCEPT ![shell[s].name] = "claimed"]
  /\ UNCHANGED <<scenario, entry, mapping, record, lease, members, heartbeat, binding, outbound, shell, plan, history>>

Acknowledge(n) ==
  /\ inbox[n] = "claimed"
  /\ inbox' = [inbox EXCEPT ![n] = "empty"]
  /\ UNCHANGED <<scenario, entry, mapping, record, lease, members, heartbeat, binding, outbound, shell, plan, history>>

\* The operator: prepareContinuity records what it saw; without a mapping only as an
\* explicit legacy adoption.
PrepareContinuity(r, t) ==
  LET source == mapping[r]
  IN  /\ "operator" \in scenario.events /\ plan = None
      /\ \E s \in Shells : scenario.runtime[s] = r
      /\ entry[t] # None
      /\ source # None => entry[source] # None
      /\ plan' = [runtime |-> r, source |-> source, target |-> t, targetEntry |-> entry[t],
                  sourceEntry |-> IF source = None THEN None ELSE entry[source]]
      /\ UNCHANGED <<scenario, store, shell, history>>

\* Mutant: only the target is examined for a live owner.
Applicable_TargetOnly(p) ==
  /\ mapping[p.runtime] = p.source
  /\ entry[p.target] = p.targetEntry
  /\ p.source # None => entry[p.source] = p.sourceEntry
  /\ ~Occupied(p.target)

\* applyContinuity: the same mapping and the same registry values, nobody at the target,
\* and a replaced name both unoccupied and quiet.
Applicable(p) ==
  /\ mapping[p.runtime] = p.source
  /\ entry[p.target] = p.targetEntry
  /\ p.source # None => entry[p.source] = p.sourceEntry
  /\ ~Occupied(p.target)
  /\ p.source \notin {None, p.target} => ~Occupied(p.source) /\ Quiet(p.source)

ApplyContinuity ==
  /\ plan # None
  /\ mapping' = IF Applicable(plan) THEN [mapping EXCEPT ![plan.runtime] = plan.target] ELSE mapping
  /\ plan' = None
  /\ UNCHANGED <<scenario, entry, record, lease, members, heartbeat, binding, inbox, outbound, shell, history>>

Crash(s) ==
  /\ "crash" \in scenario.events
  /\ shell[s].pc # "crashed"
  /\ Becomes(s, [shell[s] EXCEPT !.pc = "crashed", !.cut = TRUE, !.bind = "idle", !.want = None,
                                 !.ready = FALSE, !.clean = "done", !.transport = "closed",
                                 !.sending = FALSE])
  /\ UNCHANGED <<scenario, store, plan, history>>

\* Keys whose owner no longer refreshes them, or refreshes them too late, expire.
Gone(s) == shell[s].cut \/ "stall" \in scenario.events

LeaseLapses(s) ==
  /\ s \in lease /\ Gone(s)
  /\ lease' = lease \ {s}
  /\ UNCHANGED <<scenario, entry, mapping, record, members, heartbeat, binding, inbox, outbound, shell, plan, history>>

HeartbeatLapses(n) ==
  /\ n \in heartbeat
  /\ \A s \in Shells : shell[s].name = n => Gone(s)
  /\ heartbeat' = heartbeat \ {n}
  /\ UNCHANGED <<scenario, entry, mapping, record, lease, members, binding, inbox, outbound, shell, plan, history>>

\* Only the dispatcher that holds a binding refreshes it.
BindingLapses(n) ==
  /\ binding[n] # None
  /\ \A s \in Shells : binding[n] = s /\ shell[s].ready /\ shell[s].name = n => Gone(s)
  /\ binding' = [binding EXCEPT ![n] = None]
  /\ stray' = stray \ {n}
  /\ UNCHANGED <<scenario, entry, mapping, record, lease, members, heartbeat, inbox, outbound, shell, plan, spoken, silent>>

\* The timers of a shell: its lease while its record exists, its heartbeat.
Refresh(s) ==
  /\ "stall" \in scenario.events \/ shell[s].clean = "done" \/ shell[s].name \notin heartbeat
  /\ ~shell[s].cut /\ shell[s].name # None /\ record[s] # None
  /\ lease' = lease \cup {s}
  /\ heartbeat' = heartbeat \cup {shell[s].name}
  /\ UNCHANGED <<scenario, entry, mapping, record, members, binding, inbox, outbound, shell, plan, history>>

Next ==
  \/ \E s \in Shells :
       \/ Register(s) \/ RegisterFails(s) \/ Connect(s) \/ ConnectFails(s)
       \/ Bind(s) \/ BindAdapter(s) \/ BindCloses(s) \/ BindMaps(s) \/ BindLooks(s)
       \/ BindAdopts(s) \/ BindAttaches(s) \/ BindFails(s)
       \/ AskClose(s) \/ CloseRuntime(s) \/ Retire(s) \/ GiveUp(s)
       \/ SendMarks(s) \/ Sends(s) \/ ClaimTasks(s)
       \/ Crash(s) \/ LeaseLapses(s) \/ Refresh(s)
  \/ \E n \in Names : Deliver(n) \/ Acknowledge(n) \/ MarkerLapses(n)
  \/ \E n \in Names : HeartbeatLapses(n) \/ BindingLapses(n)
  \/ \E r \in Runtimes, n \in Names : PrepareContinuity(r, n)
  \/ ApplyContinuity

Spec == Init /\ [][Next]_vars

\* A startup that goes on, the cleanup and its time limit, and the expiry of keys nobody
\* refreshes; a bind may hang in its adapter for ever.
FairSpec ==
  /\ Spec
  /\ \A s \in Shells :
       /\ WF_vars(Connect(s) \/ ConnectFails(s)) /\ WF_vars(CloseRuntime(s))
       /\ WF_vars(Retire(s)) /\ WF_vars(GiveUp(s)) /\ WF_vars(LeaseLapses(s))
  /\ \A n \in Names : WF_vars(BindingLapses(n))

-----------------------------------------------------------------------------
(***************************************************************************)
(* Properties.                                                             *)
(***************************************************************************)

\* The operator acts only while shells renew their keys in time.  A shell that stalls in
\* the middle of a bind looks dead to the operator's plan, and then attaches to the
\* mailbox it had read.
Timely == ~({"stall", "operator"} \subseteq scenario.events)

\* A runtime whose dispatcher is attached serves the mailbox it is mapped to: neither a
\* second shell of the runtime, nor the operator's plan, nor a bind that overlaps them
\* changes the mapping of a live owner.
BoundRuntimeKeepsMailbox ==
  Timely => \A s \in Shells : shell[s].ready /\ binding[shell[s].name] = s =>
                                mapping[scenario.runtime[s]] = shell[s].name

\* A name is not given up by an adoption within a day of a message sent from it, whatever
\* binds, sends and adoptions overlap: replies still find a registered agent (bridge.ts,
\* "cannot be silently renamed on bind").
ReplyAddressKept ==
  [][\A n \in spoken \ silent : entry[n] # None => entry'[n] # None]_vars

\* Once its session is retired nothing of the shell is left, even if a bind was in progress
\* when it was closed: no dispatcher, no session in any name's set, no lease, and no runtime
\* binding but one whose attach or detach had failed, which nobody refreshes.
ClosedMeansRetired ==
  \A s \in Shells : shell[s].retired =>
    /\ ~shell[s].ready
    /\ record[s] = None /\ s \notin lease /\ \A n \in Names : s \notin members[n]
    /\ \A n \in Names : binding[n] = s => n \in stray

\* A shell that was told to close goes offline, by its retirement or, when a hanging bind
\* or store makes the cleanup give up, because nothing renews its keys any more.
ClosedGoesOffline ==
  \A s \in Shells :
    shell[s].clean # "no" ~> s \notin lease /\ \A n \in Names : binding[n] # s

\* A retired shell has left no runtime binding: the key is a "Live runtime binding record for
\* an agent" (keys.ts).  (Refuted: a failing detach is swallowed, and the binding stays for
\* up to 30 s.)
RetiredIsUnbound ==
  \A s \in Shells : shell[s].retired => \A n \in Names : binding[n] # s

\* A name that was sent from is never given up (bridge.ts: "A provisional mailbox with
\* outbound correlations cannot be silently renamed on bind").  (Refuted: the marker
\* expires after a day.)
AddressNeverGivenUp ==
  [][\A n \in spoken : entry[n] # None => entry'[n] # None]_vars

\* A shell that has cleaned up serves nobody: its transport is not open.  (Refuted: a
\* close during the last read of the startup finds no transport, and the startup then
\* connects one.)
ClosedServesNobody ==
  \A s \in Shells : shell[s].clean = "done" => shell[s].transport # "open"
=============================================================================
