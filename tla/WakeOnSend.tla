----------------------------- MODULE WakeOnSend -----------------------------
(***************************************************************************)
(* Waking one durable actor: what send_message does after its message is   *)
(* persisted, the wake lease that keeps concurrent sends to one launch,    *)
(* the processes they spawn, and the registration that ends an activation  *)
(* (src/mcp-server/tools/send-message.ts, presence-input.ts,               *)
(* reconcile-wake-lease.ts, register-agent.ts, src/core/wake-lease.ts,     *)
(* actor-presence.ts and lua/wake-lease-*.lua).                            *)
(*                                                                         *)
(* Every await of a call is a step of its own: what it read of the         *)
(* directory, of the sessions and of the lease may be old when it acts.    *)
(***************************************************************************)
EXTENDS Integers, FiniteSets

CONSTANTS
  Calls,         \* send_message and actor_status calls that may be in flight
  Pids,          \* processes; a pid is not reused
  LeaseIds,      \* wake lease uuids
  None,          \* no lease, no process
  LeasesExpire   \* whether the 60 second TTL may end before the runtime registers

ASSUME WakeAssumption ==
  /\ None \notin Pids \cup LeaseIds
  /\ LeasesExpire \in BOOLEAN

VARIABLES
  profile,   \* the actor's directory record
  lease,     \* gptq:wake:<actor>: the outstanding lease and its spawn evidence
  proc,      \* what each process is doing
  online,    \* processes whose runtime session has a live lease
  read,      \* the lease a registering runtime found
  call,      \* the calls in flight
  issued,    \* history: lease ids handed out
  launchOf   \* history: the lease each process was launched under

vars == <<profile, lease, proc, online, read, call, issued, launchOf>>

\* No directory record; store_only; wake_if_offline with a launch contract, and without
\* one, as an older record may be.
Profiles == {"plain", "store_only", "launchable", "not_runnable"}

Lease == [id: LeaseIds \cup {None}, pid: Pids \cup {None}]
NoLease == [id |-> None, pid |-> None]

Call == [op: {"none", "send", "status"},
         step: {"idle", "push", "directory", "presence", "reconcile", "clear",
                "lease", "acquire", "launch", "attach"},
         profile: Profiles,             \* the directory record it works from
         seen: LeaseIds \cup {None},    \* the lease it will clear or owns
         pid: Pids \cup {None},         \* the process it launched
         \* History: whether the actor was launchable at some time since the message
         \* was persisted; the lease that was already dead when presence was read,
         \* unless the store failed the reconciliation.
         eligible: BOOLEAN,
         doomed: LeaseIds \cup {None}]

TypeOK ==
  /\ profile \in Profiles
  /\ lease \in Lease
  /\ proc \in [Pids -> {"unused", "starting", "registering", "clearing", "ready", "dead"}]
  /\ online \subseteq Pids
  /\ read \in [Pids -> LeaseIds \cup {None}]
  /\ call \in [Calls -> Call]
  /\ issued \subseteq LeaseIds
  /\ launchOf \in [Pids -> LeaseIds \cup {None}]

Idle == [op |-> "none", step |-> "idle", profile |-> "plain", seen |-> None,
         pid |-> None, eligible |-> FALSE, doomed |-> None]

Init ==
  /\ profile \in Profiles
  /\ lease = NoLease
  /\ proc = [p \in Pids |-> "unused"]
  /\ online = {}
  /\ read = [p \in Pids |-> None]
  /\ call = [k \in Calls |-> Idle]
  /\ issued = {}
  /\ launchOf = [p \in Pids |-> None]

-----------------------------------------------------------------------------
(***************************************************************************)
(* Helpers.                                                                *)
(***************************************************************************)

\* The call k goes on as c.
Becomes(k, c) == call' = [call EXCEPT ![k] = c]

\* The call k moves to a step, or returns.
Goes(k, step) == Becomes(k, [call[k] EXCEPT !.step = step])
Returns(k) == Becomes(k, Idle)

\* wakeEligible: only a wake_if_offline record.
wakeEligible(p) == p \in {"launchable", "not_runnable"}

\* isPidAlive of the lease's spawn evidence says no.
SpawnDead == lease.pid # None /\ proc[lease.pid] = "dead"

\* Mutant: the lease id is not compared.
ClearLease_Any(id) == lease' = NoLease

\* wake-lease-clear.lua: delete only the lease with the given id.
ClearLease(id) == lease' = IF lease.id = id THEN NoLease ELSE lease

\* What a call does once presence says there is no runtime and no lease: a send to a
\* runnable actor, offline_launchable, goes on to acquire; every other call returns.
ActOnOffline(k) ==
  IF call[k].op = "send" /\ call[k].profile = "launchable"
  THEN Goes(k, "acquire")
  ELSE Returns(k)

-----------------------------------------------------------------------------
(***************************************************************************)
(* send_message and actor_status.                                          *)
(***************************************************************************)

\* resolveRecipient reads the directory.
Resolve(k) ==
  /\ call[k].step = "idle"
  /\ Becomes(k, [Idle EXCEPT !.op = "send", !.step = "push", !.profile = profile])
  /\ UNCHANGED <<profile, lease, proc, online, read, issued, launchOf>>

\* The message is persisted, or the queue is full; a plain agent is never woken.
Push(k) ==
  /\ call[k].step = "push"
  /\ \/ /\ call[k].profile # "plain"
        /\ Becomes(k, [call[k] EXCEPT !.step = "directory",
                                      !.eligible = (profile = "launchable")])
     \/ Returns(k)
  /\ UNCHANGED <<profile, lease, proc, online, read, issued, launchOf>>

\* Mutant: the record resolved before the push decides.
Directory_Stale(k) ==
  /\ call[k].step = "directory"
  /\ IF wakeEligible(call[k].profile) THEN Goes(k, "presence") ELSE Returns(k)
  /\ UNCHANGED <<profile, lease, proc, online, read, issued, launchOf>>

\* maybeWake reads the directory again, so that a change of policy made during the
\* send is honoured.
Directory(k) ==
  /\ call[k].step = "directory"
  /\ IF wakeEligible(profile)
     THEN Becomes(k, [call[k] EXCEPT !.step = "presence", !.profile = profile])
     ELSE Returns(k)
  /\ UNCHANGED <<profile, lease, proc, online, read, issued, launchOf>>

\* actor_status reads the directory and assembles presence the same way.
Status(k) ==
  /\ call[k].step = "idle"
  /\ profile # "plain"
  /\ Becomes(k, [Idle EXCEPT !.op = "status", !.step = "presence", !.profile = profile])
  /\ UNCHANGED <<profile, lease, proc, online, read, issued, launchOf>>

\* assemblePresenceInput: a live session outranks any lease, and nobody is woken.
Presence(k) ==
  /\ call[k].step = "presence"
  /\ IF online # {}
     THEN Returns(k)
     ELSE Becomes(k, [call[k] EXCEPT !.step = "reconcile",
                                     !.doomed = IF SpawnDead THEN lease.id ELSE None])
  /\ UNCHANGED <<profile, lease, proc, online, read, issued, launchOf>>

\* Mutant: presence is assembled without reconciling the lease.
Reconcile_Skipped(k) ==
  /\ call[k].step = "reconcile"
  /\ Goes(k, "lease")
  /\ UNCHANGED <<profile, lease, proc, online, read, issued, launchOf>>

\* reconcileWakeLease: read the lease and probe its process.
Reconcile(k) ==
  /\ call[k].step = "reconcile"
  /\ IF SpawnDead
     THEN Becomes(k, [call[k] EXCEPT !.step = "clear", !.seen = lease.id])
     ELSE Goes(k, "lease")
  /\ UNCHANGED <<profile, lease, proc, online, read, issued, launchOf>>

\* Clear the lease of the dead process; only when nothing was cleared is it read again.
ClearDead(k) ==
  /\ call[k].step = "clear"
  /\ ClearLease(call[k].seen)
  /\ IF lease.id = call[k].seen THEN ActOnOffline(k) ELSE Goes(k, "lease")
  /\ UNCHANGED <<profile, proc, online, read, issued, launchOf>>

\* reconcileWakeLease swallows a failed read or a failed clear: nothing was cleared,
\* and the lease is read again as it is.
ReconcileFails(k) ==
  /\ call[k].step \in {"reconcile", "clear"}
  /\ Becomes(k, [call[k] EXCEPT !.step = "lease", !.doomed = None])
  /\ UNCHANGED <<profile, lease, proc, online, read, issued, launchOf>>

\* Read the lease again: an activation in flight is coalesced with.
ReadLease(k) ==
  /\ call[k].step = "lease"
  /\ IF lease # NoLease THEN Returns(k) ELSE ActOnOffline(k)
  /\ UNCHANGED <<profile, lease, proc, online, read, issued, launchOf>>

\* Mutant: the coalesced flag of the script's answer is ignored.
Acquire_IgnoresFlag(k) ==
  /\ call[k].step = "acquire"
  /\ \/ /\ lease # NoLease
        /\ Becomes(k, [call[k] EXCEPT !.step = "launch", !.seen = lease.id])
        /\ UNCHANGED <<lease, issued>>
     \/ \E id \in LeaseIds \ issued :
          /\ lease = NoLease
          /\ lease' = [id |-> id, pid |-> None]
          /\ issued' = issued \cup {id}
          /\ Becomes(k, [call[k] EXCEPT !.step = "launch", !.seen = id])
  /\ UNCHANGED <<profile, proc, online, read, launchOf>>

\* wake-lease-acquire.lua: an existing lease is coalesced with, else it is ours.
Acquire(k) ==
  /\ call[k].step = "acquire"
  /\ \/ /\ lease # NoLease
        /\ Returns(k)
        /\ UNCHANGED <<lease, issued>>
     \/ \E id \in LeaseIds \ issued :
          /\ lease = NoLease
          /\ lease' = [id |-> id, pid |-> None]
          /\ issued' = issued \cup {id}
          /\ Becomes(k, [call[k] EXCEPT !.step = "launch", !.seen = id])
  /\ UNCHANGED <<profile, proc, online, read, launchOf>>

\* dispatchLaunch: the runtime is spawned, or policy or spawn fails and the lease is
\* left to its TTL.
Launch(k) ==
  /\ call[k].step = "launch"
  /\ \/ \E p \in Pids :
          /\ proc[p] = "unused"
          /\ proc' = [proc EXCEPT ![p] = "starting"]
          /\ launchOf' = [launchOf EXCEPT ![p] = call[k].seen]
          /\ Becomes(k, [call[k] EXCEPT !.step = "attach", !.pid = p])
     \/ Returns(k) /\ UNCHANGED <<proc, launchOf>>
  /\ UNCHANGED <<profile, lease, online, read, issued>>

\* Mutant: the pid is written on whatever lease is there.
AttachSpawn_AnyLease(k) ==
  /\ call[k].step = "attach"
  /\ lease' = IF lease # NoLease THEN [lease EXCEPT !.pid = call[k].pid] ELSE lease
  /\ Returns(k)
  /\ UNCHANGED <<profile, proc, online, read, issued, launchOf>>

\* wake-lease-attach-spawn.lua: the pid is recorded on the lease it belongs to.
AttachSpawn(k) ==
  /\ call[k].step = "attach"
  /\ lease' = IF lease.id = call[k].seen THEN [lease EXCEPT !.pid = call[k].pid] ELSE lease
  /\ Returns(k)
  /\ UNCHANGED <<profile, proc, online, read, issued, launchOf>>

\* The server dies in the middle of a call, or a store error ends its wake attempt.
CrashCall(k) ==
  /\ call[k].step # "idle"
  /\ Returns(k)
  /\ UNCHANGED <<profile, lease, proc, online, read, issued, launchOf>>

-----------------------------------------------------------------------------
(***************************************************************************)
(* The directory, the runtimes and the store around the calls.             *)
(***************************************************************************)

\* actor_register stores another activation policy; a wake_if_offline record needs a
\* launch contract.
ActorRegister ==
  /\ profile' \in {"store_only", "launchable"} \ {profile}
  /\ call' = [k \in Calls |->
       IF call[k].op = "send" /\ call[k].step # "push" /\ profile' = "launchable"
       THEN [call[k] EXCEPT !.eligible = TRUE] ELSE call[k]]
  /\ UNCHANGED <<lease, proc, online, read, issued, launchOf>>

\* A person starts the actor's runtime by hand.
StartByHand(p) ==
  /\ proc[p] = "unused"
  /\ proc' = [proc EXCEPT ![p] = "starting"]
  /\ UNCHANGED <<profile, lease, online, read, call, issued, launchOf>>

\* register_agent: the runtime's session becomes live.
Register(p) ==
  /\ proc[p] = "starting"
  /\ proc' = [proc EXCEPT ![p] = "registering"]
  /\ online' = online \cup {p}
  /\ UNCHANGED <<profile, lease, read, call, issued, launchOf>>

\* clearOutstandingWakeLease, first half: read the lease.
FindLease(p) ==
  /\ proc[p] = "registering"
  /\ read' = [read EXCEPT ![p] = lease.id]
  /\ proc' = [proc EXCEPT ![p] = IF lease = NoLease THEN "ready" ELSE "clearing"]
  /\ UNCHANGED <<profile, lease, online, call, issued, launchOf>>

\* clearOutstandingWakeLease, second half: clear the lease that was read.
RuntimeReady(p) ==
  /\ proc[p] = "clearing"
  /\ ClearLease(read[p])
  /\ read' = [read EXCEPT ![p] = None]
  /\ proc' = [proc EXCEPT ![p] = "ready"]
  /\ UNCHANGED <<profile, online, call, issued, launchOf>>

\* A store error while clearing is swallowed: the runtime is registered all the same.
ReadyAnyway(p) ==
  /\ proc[p] \in {"registering", "clearing"}
  /\ read' = [read EXCEPT ![p] = None]
  /\ proc' = [proc EXCEPT ![p] = "ready"]
  /\ UNCHANGED <<profile, lease, online, call, issued, launchOf>>

\* A process ends, at any point of its life; its session lease is still there.
Die(p) ==
  /\ proc[p] \notin {"unused", "dead"}
  /\ proc' = [proc EXCEPT ![p] = "dead"]
  /\ read' = [read EXCEPT ![p] = None]
  /\ UNCHANGED <<profile, lease, online, call, issued, launchOf>>

\* Without its process the session lease runs out.
SessionLapses(p) ==
  /\ p \in online
  /\ proc[p] = "dead"
  /\ online' = online \ {p}
  /\ UNCHANGED <<profile, lease, proc, read, call, issued, launchOf>>

\* The wake lease's TTL runs out.
LeaseExpires ==
  /\ LeasesExpire
  /\ lease # NoLease
  /\ lease' = NoLease
  /\ UNCHANGED <<profile, proc, online, read, call, issued, launchOf>>

Next ==
  \/ \E k \in Calls :
       \/ Resolve(k) \/ Push(k) \/ Directory(k) \/ Status(k) \/ Presence(k)
       \/ Reconcile(k) \/ ClearDead(k) \/ ReconcileFails(k) \/ ReadLease(k)
       \/ Acquire(k) \/ Launch(k) \/ AttachSpawn(k) \/ CrashCall(k)
  \/ \E p \in Pids :
       \/ StartByHand(p) \/ Register(p) \/ FindLease(p) \/ RuntimeReady(p)
       \/ ReadyAnyway(p) \/ Die(p) \/ SessionLapses(p)
  \/ ActorRegister
  \/ LeaseExpires

Spec == Init /\ [][Next]_vars

-----------------------------------------------------------------------------
(***************************************************************************)
(* Properties.                                                             *)
(***************************************************************************)

\* One lease, one launch: however sends, expiries and registrations interleave, no
\* two processes are launched under the same wake lease.
OneLaunchPerLease ==
  \A p, q \in Pids : p # q /\ launchOf[p] # None => launchOf[p] # launchOf[q]

\* The spawn evidence on a lease is that of its own launch, even when the lease a
\* slow sender owned has been replaced by the time it reports its pid.
EvidenceIsOwn == lease.pid # None => launchOf[lease.pid] = lease.id

\* Reconciliation never ends an activation whose process may still come up: the lease
\* it deletes, after an await, is one whose spawned process is dead.
ReconcileSparesReplacement ==
  [][\A k \in Calls :
       /\ call[k].step = "clear" /\ call'[k].step # "clear"
       /\ lease # NoLease /\ lease' = NoLease
       => SpawnDead]_vars

\* No call coalesces with an activation that had visibly failed before the call read
\* the actor's presence: by the time it looks at the lease again that lease is gone,
\* unless a store error kept the call from clearing it.
NeverCoalescesWithDead ==
  \A k \in Calls :
    call[k].step \in {"lease", "acquire"} /\ call[k].doomed # None =>
      lease.id # call[k].doomed

\* A change of policy made while a send was under way is honoured: no runtime is
\* launched for an actor that was never launchable after the message was persisted.
PolicyChangeHonoured ==
  \A k \in Calls : call[k].step \in {"acquire", "launch", "attach"} => call[k].eligible

\* OPERATING_RULES 7: concurrent sends coalesce onto a single launch, so no send
\* launches a runtime while the one already launched is up and registered.
SingleLaunch ==
  [][\A p \in Pids : launchOf[p] = None /\ launchOf'[p] # None
       => \A q \in Pids : launchOf[q] # None => proc[q] # "ready"]_vars
=============================================================================
