-------------------------- MODULE WakeOnSend_proofs --------------------------
(***************************************************************************)
(* Proofs about WakeOnSend for any number of calls, processes and leases.  *)
(*                                                                         *)
(* The invariant ties the three places a lease id lives in together: the   *)
(* store, the call that owns it until it has launched, and the process     *)
(* that was launched under it.                                             *)
(***************************************************************************)
EXTENDS WakeOnSend, TLAPS

\* The lease a call owns before its launch is its alone, and no process has it.
OwnsLease(k) ==
  /\ call[k].seen # None
  /\ \A p \in Pids : launchOf[p] # call[k].seen
  /\ \A j \in Calls \ {k} : call[j].step = "launch" => call[j].seen # call[k].seen

\* Ids in circulation were issued; a process has at most one launch and one lease.
LeaseInv ==
  /\ lease.id = None => lease.pid = None
  /\ lease.id \in issued \cup {None}
  /\ \A p \in Pids : launchOf[p] \in issued \cup {None}
  /\ \A p \in Pids : proc[p] = "unused" => launchOf[p] = None
  /\ \A k \in Calls :
       /\ {call[k].seen, call[k].doomed} \subseteq issued \cup {None}
       /\ call[k].step = "launch" => OwnsLease(k)
       /\ call[k].step = "attach" =>
            call[k].seen # None /\ call[k].pid # None /\ launchOf[call[k].pid] = call[k].seen

\* A lease found dead stays dead, and is cleared before the lease is read again.
DoomedInv ==
  \A k \in Calls :
    /\ call[k].doomed # None /\ lease.id = call[k].doomed =>
         /\ SpawnDead
         /\ call[k].step \notin {"lease", "acquire"}
         /\ call[k].step = "clear" => call[k].seen = lease.id
    /\ call[k].step = "clear" /\ lease.id # None /\ lease.id = call[k].seen => SpawnDead

\* A send that may still launch, and works from a launchable record, is eligible.
EligibleInv ==
  \A k \in Calls :
    /\ call[k].step \in {"presence", "reconcile", "clear", "lease"}
         /\ call[k].op = "send" /\ call[k].profile = "launchable" => call[k].eligible
    /\ call[k].step \in {"acquire", "launch", "attach"} => call[k].eligible
    /\ call[k].step = "directory" /\ profile = "launchable" => call[k].eligible
    /\ call[k].step \in {"push", "directory"} => call[k].op = "send"

WakeInv == TypeOK /\ LeaseInv /\ OneLaunchPerLease /\ EvidenceIsOwn /\ DoomedInv /\ EligibleInv

\* An idle call, and no lease, have their types; a moved call keeps its other fields.
LEMMA Blanks ==
  /\ Idle \in Call /\ NoLease \in Lease
  /\ Idle.step = "idle" /\ Idle.seen = None /\ Idle.doomed = None /\ Idle.pid = None
  /\ Idle.op = "none"
  BY WakeAssumption DEF Idle, Call, NoLease, Lease, Profiles

\* The fields a step of a call leaves alone.
Keeps(c, d) ==
  d \in Call /\ d.op = c.op /\ d.seen = c.seen /\ d.doomed = c.doomed /\ d.eligible = c.eligible

\* What a call looks like when only its step changes.
LEMMA MoveStep ==
  ASSUME NEW c \in Call, NEW st \in {"presence", "reconcile", "clear", "lease", "acquire"}
  PROVE  LET d == [c EXCEPT !.step = st]
         IN  Keeps(c, d) /\ d.step = st /\ d.profile = c.profile
  BY DEF Call, Keeps

\* A call that has just begun.
LEMMA MoveStart ==
  ASSUME NEW pr \in Profiles, NEW o \in {"send", "status"}, NEW st \in {"push", "presence"}
  PROVE  LET d == [Idle EXCEPT !.op = o, !.step = st, !.profile = pr]
         IN  d \in Call /\ d.step = st /\ d.op = o /\ d.seen = None /\ d.doomed = None
  BY Blanks DEF Call

\* A send whose message was persisted.
LEMMA MovePushed ==
  ASSUME NEW c \in Call, NEW e \in BOOLEAN
  PROVE  LET d == [c EXCEPT !.step = "directory", !.eligible = e]
         IN  /\ d \in Call /\ d.step = "directory" /\ d.op = c.op
             /\ d.seen = c.seen /\ d.doomed = c.doomed /\ d.eligible = e
  <1>1. CASE e = TRUE
    BY <1>1 DEF Call
  <1>2. CASE e = FALSE
    BY <1>2 DEF Call
  <1> QED BY <1>1, <1>2

\* A send that read the directory again.
LEMMA MoveProfile ==
  ASSUME NEW c \in Call, NEW pr \in Profiles
  PROVE  LET d == [c EXCEPT !.step = "presence", !.profile = pr]
         IN  Keeps(c, d) /\ d.step = "presence" /\ d.profile = pr
  BY DEF Call, Keeps

\* A call that noted which lease is already dead.
LEMMA MoveDoomed ==
  ASSUME NEW c \in Call, NEW id \in LeaseIds \cup {None}
  PROVE  LET d == [c EXCEPT !.step = "reconcile", !.doomed = id]
         IN  /\ d \in Call /\ d.step = "reconcile" /\ d.op = c.op /\ d.profile = c.profile
             /\ d.seen = c.seen /\ d.doomed = id /\ d.eligible = c.eligible
  BY DEF Call

\* A call that will clear a lease, or owns one.
LEMMA MoveSeen ==
  ASSUME NEW c \in Call, NEW id \in LeaseIds \cup {None}, NEW st \in {"clear", "launch"}
  PROVE  LET d == [c EXCEPT !.step = st, !.seen = id]
         IN  /\ d \in Call /\ d.step = st /\ d.op = c.op /\ d.profile = c.profile
             /\ d.seen = id /\ d.doomed = c.doomed /\ d.eligible = c.eligible
  BY DEF Call

\* A call that launched a process.
LEMMA MoveLaunched ==
  ASSUME NEW c \in Call, NEW p \in Pids
  PROVE  LET d == [c EXCEPT !.step = "attach", !.pid = p]
         IN  Keeps(c, d) /\ d.step = "attach" /\ d.pid = p
  BY DEF Call, Keeps

\* A step of the call k to c that at most deletes the lease keeps the invariant when c
\* itself fits it.
LEMMA QuietCall ==
  ASSUME WakeInv, NEW k \in Calls, NEW c \in Call, Becomes(k, c),
         lease' \in {lease, NoLease},
         UNCHANGED <<profile, proc, online, read, issued, launchOf>>,
         c.step \notin {"launch", "attach"},
         c.seen \in issued \cup {None},
         c.doomed \in issued \cup {None},
         lease' = lease /\ c.doomed # None /\ lease.id = c.doomed =>
           /\ SpawnDead
           /\ c.step \notin {"lease", "acquire"}
           /\ c.step = "clear" => c.seen = lease.id,
         c.step = "clear" => SpawnDead,
         c.step \in {"presence", "reconcile", "clear", "lease"}
           /\ c.op = "send" /\ c.profile = "launchable" => c.eligible,
         c.step = "acquire" => c.eligible,
         c.step = "directory" /\ profile = "launchable" => c.eligible,
         c.step \in {"push", "directory"} => c.op = "send"
  PROVE  WakeInv'
  <1>1. /\ call' \in [Calls -> Call] /\ call'[k] = c
        /\ \A j \in Calls \ {k} : call'[j] = call[j]
    BY DEF Becomes, WakeInv, TypeOK
  <1>2. TypeOK'
    BY <1>1, Blanks DEF WakeInv, TypeOK
  <1>n. lease' = lease \/ (lease'.id = None /\ lease'.pid = None)
    BY DEF NoLease
  <1>3. LeaseInv'
    BY <1>1, <1>n DEF WakeInv, LeaseInv, OwnsLease
  <1>4. OneLaunchPerLease' /\ EvidenceIsOwn'
    BY <1>n DEF WakeInv, OneLaunchPerLease, EvidenceIsOwn
  <1>5. DoomedInv'
    BY <1>1, <1>n DEF WakeInv, DoomedInv, SpawnDead
  <1>6. EligibleInv'
    BY <1>1 DEF WakeInv, EligibleInv
  <1> QED BY <1>2, <1>3, <1>4, <1>5, <1>6 DEF WakeInv

\* A call that returns fits the invariant.
LEMMA ReturnCall ==
  ASSUME WakeInv, NEW k \in Calls, Returns(k),
         UNCHANGED <<profile, lease, proc, online, read, issued, launchOf>>
  PROVE  WakeInv'
  BY Blanks, QuietCall DEF Returns

\* Deleting the lease, with no other effect, keeps the invariant.
LEMMA LeaseGone ==
  ASSUME WakeInv, lease' = NoLease, UNCHANGED <<profile, call, issued, launchOf>>,
         proc' \in [Pids -> {"unused", "starting", "registering", "clearing", "ready", "dead"}],
         online' \subseteq Pids, read' \in [Pids -> LeaseIds \cup {None}],
         \A p \in Pids : proc'[p] = "unused" => proc[p] = "unused"
  PROVE  WakeInv'
  <1>1. TypeOK'
    BY Blanks DEF WakeInv, TypeOK
  <1>2. lease'.id = None /\ lease'.pid = None
    BY DEF NoLease
  <1>3. LeaseInv'
    BY <1>2 DEF WakeInv, LeaseInv, OwnsLease
  <1>4. OneLaunchPerLease' /\ EvidenceIsOwn'
    BY <1>2 DEF WakeInv, OneLaunchPerLease, EvidenceIsOwn
  <1>5. DoomedInv'
    BY <1>2 DEF WakeInv, DoomedInv
  <1>6. EligibleInv'
    BY DEF WakeInv, EligibleInv
  <1> QED BY <1>1, <1>3, <1>4, <1>5, <1>6 DEF WakeInv

\* A process that moves on without touching the lease keeps the invariant.
LEMMA ProcessMoves ==
  ASSUME WakeInv, UNCHANGED <<profile, lease, call, issued, launchOf>>,
         proc' \in [Pids -> {"unused", "starting", "registering", "clearing", "ready", "dead"}],
         online' \subseteq Pids, read' \in [Pids -> LeaseIds \cup {None}],
         \A p \in Pids : proc'[p] = "unused" => proc[p] = "unused",
         \A p \in Pids : proc[p] = "dead" => proc'[p] = "dead"
  PROVE  WakeInv'
  <1>1. TypeOK'
    BY DEF WakeInv, TypeOK
  <1>3. LeaseInv'
    BY DEF WakeInv, LeaseInv, OwnsLease
  <1>4. OneLaunchPerLease' /\ EvidenceIsOwn'
    BY DEF WakeInv, OneLaunchPerLease, EvidenceIsOwn
  <1>5. DoomedInv'
    <2>1. SpawnDead => SpawnDead'
      BY DEF WakeInv, TypeOK, Lease, SpawnDead
    <2> QED BY <2>1 DEF WakeInv, DoomedInv
  <1>6. EligibleInv'
    BY DEF WakeInv, EligibleInv
  <1> QED BY <1>1, <1>3, <1>4, <1>5, <1>6 DEF WakeInv

\* One case per action; the four that write the lease or launch are proved in place.
LEMMA WakeStep == WakeInv /\ [Next]_vars => WakeInv'
  <1> SUFFICES ASSUME WakeInv, [Next]_vars PROVE WakeInv'
    OBVIOUS
  <1>t. /\ profile \in Profiles /\ lease \in Lease /\ lease.id \in issued \cup {None}
        /\ issued \subseteq LeaseIds
    BY DEF WakeInv, TypeOK, LeaseInv
  <1>c. ASSUME NEW k \in Calls
        PROVE  /\ call[k] \in Call
               /\ {call[k].seen, call[k].doomed} \subseteq issued \cup {None}
    BY DEF WakeInv, TypeOK, LeaseInv
  <1>1. ASSUME NEW k \in Calls, Resolve(k) \/ Status(k) PROVE WakeInv'
    <2> DEFINE d(o, st) == [Idle EXCEPT !.op = o, !.step = st, !.profile = profile]
    <2>1. CASE Resolve(k)
      <3>1. /\ d("send", "push") \in Call /\ d("send", "push").step = "push"
            /\ d("send", "push").op = "send"
            /\ d("send", "push").seen = None /\ d("send", "push").doomed = None
        BY ZenonT(60), <1>t, MoveStart
      <3>2. Becomes(k, d("send", "push"))
            /\ UNCHANGED <<profile, lease, proc, online, read, issued, launchOf>>
        BY <2>1 DEF Resolve
      <3> HIDE DEF d
      <3> QED BY SMTT(40), <3>1, <3>2, QuietCall
    <2>2. CASE Status(k)
      <3>1. /\ d("status", "presence") \in Call /\ d("status", "presence").step = "presence"
            /\ d("status", "presence").op = "status"
            /\ d("status", "presence").seen = None /\ d("status", "presence").doomed = None
        BY <1>t, MoveStart
      <3>2. Becomes(k, d("status", "presence"))
            /\ UNCHANGED <<profile, lease, proc, online, read, issued, launchOf>>
        BY <2>2 DEF Status
      <3> HIDE DEF d
      <3> QED BY <3>1, <3>2, QuietCall
    <2> QED BY <1>1, <2>1, <2>2
  <1>2. ASSUME NEW k \in Calls, Push(k) PROVE WakeInv'
    <2>1. CASE Returns(k)
      BY <1>2, <2>1, ReturnCall DEF Push
    <2>2. CASE ~Returns(k)
      <3> DEFINE c == [call[k] EXCEPT !.step = "directory", !.eligible = (profile = "launchable")]
      <3>1. /\ c \in Call /\ c.step = "directory" /\ c.op = call[k].op /\ c.seen = call[k].seen
            /\ c.doomed = call[k].doomed /\ c.eligible = (profile = "launchable")
        <4>1. call[k] \in Call /\ (profile = "launchable") \in BOOLEAN
          BY <1>c
        <4> QED BY <4>1, MovePushed, Zenon
      <3>2. Becomes(k, c) /\ UNCHANGED <<profile, lease, proc, online, read, issued, launchOf>>
        BY <1>2, <2>2 DEF Push
      <3>3. call[k].op = "send" /\ (call[k].doomed # None /\ lease.id = call[k].doomed => SpawnDead)
        BY <1>2 DEF Push, WakeInv, DoomedInv, EligibleInv
      <3> HIDE DEF c
      <3> QED BY <3>1, <3>2, <3>3, <1>c, QuietCall
    <2> QED BY <2>1, <2>2
  <1>3. ASSUME NEW k \in Calls, Directory(k) PROVE WakeInv'
    <2>1. CASE ~wakeEligible(profile)
      BY <1>3, <2>1, ReturnCall DEF Directory
    <2>2. CASE wakeEligible(profile)
      <3> DEFINE c == [call[k] EXCEPT !.step = "presence", !.profile = profile]
      <3>1. Keeps(call[k], c) /\ c.step = "presence" /\ c.profile = profile
        BY <1>c, <1>t, MoveProfile
      <3>2. Becomes(k, c) /\ UNCHANGED <<profile, lease, proc, online, read, issued, launchOf>>
        BY <1>3, <2>2 DEF Directory
      <3>3. /\ profile = "launchable" => call[k].eligible
            /\ call[k].doomed # None /\ lease.id = call[k].doomed => SpawnDead
        BY <1>3 DEF Directory, WakeInv, EligibleInv, DoomedInv
      <3> HIDE DEF c
      <3> QED BY <3>1, <3>2, <3>3, <1>c, QuietCall DEF Keeps
    <2> QED BY <2>1, <2>2
  <1>4. ASSUME NEW k \in Calls, Presence(k) PROVE WakeInv'
    <2>1. CASE online # {}
      BY <1>4, <2>1, ReturnCall DEF Presence
    <2>2. CASE online = {}
      <3> DEFINE id == IF SpawnDead THEN lease.id ELSE None
                 c == [call[k] EXCEPT !.step = "reconcile", !.doomed = id]
      <3>1. id \in LeaseIds \cup {None} /\ id \in issued \cup {None} /\ (id # None => SpawnDead)
        BY <1>t
      <3>2. Becomes(k, c) /\ UNCHANGED <<profile, lease, proc, online, read, issued, launchOf>>
        BY <1>4, <2>2 DEF Presence
      <3> HIDE DEF id
      <3>3. /\ c \in Call /\ c.step = "reconcile" /\ c.op = call[k].op
            /\ c.profile = call[k].profile /\ c.seen = call[k].seen
            /\ c.doomed = id /\ c.eligible = call[k].eligible
        BY ZenonT(60), <1>c, <3>1, MoveDoomed
      <3>4. call[k].op = "send" /\ call[k].profile = "launchable" => call[k].eligible
        BY <1>4 DEF Presence, WakeInv, EligibleInv
      <3> HIDE DEF c
      <3> QED BY <3>1, <3>2, <3>3, <3>4, <1>c, QuietCall
    <2> QED BY <2>1, <2>2
  <1>5. ASSUME NEW k \in Calls, Reconcile(k) PROVE WakeInv'
    <2>e. /\ call[k].op = "send" /\ call[k].profile = "launchable" => call[k].eligible
          /\ call[k].doomed # None /\ lease.id = call[k].doomed => SpawnDead
      BY <1>5 DEF Reconcile, WakeInv, EligibleInv, DoomedInv
    <2>1. CASE SpawnDead
      <3> DEFINE c == [call[k] EXCEPT !.step = "clear", !.seen = lease.id]
      <3>1. /\ c \in Call /\ c.step = "clear" /\ c.op = call[k].op
            /\ c.profile = call[k].profile /\ c.seen = lease.id
            /\ c.doomed = call[k].doomed /\ c.eligible = call[k].eligible
        <4>1. call[k] \in Call /\ lease.id \in LeaseIds \cup {None}
          BY <1>c, <1>t
        <4> QED BY <4>1 DEF Call
      <3>2. Becomes(k, c) /\ UNCHANGED <<profile, lease, proc, online, read, issued, launchOf>>
        BY <1>5, <2>1 DEF Reconcile
      <3> HIDE DEF c
      <3> QED BY <2>1, <2>e, <3>1, <3>2, <1>c, <1>t, QuietCall
    <2>2. CASE ~SpawnDead
      <3> DEFINE c == [call[k] EXCEPT !.step = "lease"]
      <3>1. Keeps(call[k], c) /\ c.step = "lease" /\ c.profile = call[k].profile
        BY <1>c, MoveStep
      <3>2. Becomes(k, c) /\ UNCHANGED <<profile, lease, proc, online, read, issued, launchOf>>
        BY <1>5, <2>2 DEF Reconcile, Goes
      <3> HIDE DEF c
      <3> QED BY <2>2, <2>e, <3>1, <3>2, <1>c, QuietCall DEF Keeps
    <2> QED BY <2>1, <2>2
  <1>6. ASSUME NEW k \in Calls, ClearDead(k) \/ ReadLease(k) PROVE WakeInv'
    <2>e. /\ call[k].op = "send" /\ call[k].profile = "launchable" => call[k].eligible
          /\ ClearDead(k) /\ call[k].doomed # None /\ lease.id = call[k].doomed =>
               call[k].seen = lease.id
      BY <1>6 DEF ClearDead, ReadLease, WakeInv, EligibleInv, DoomedInv
    <2>u. UNCHANGED <<profile, proc, online, read, issued, launchOf>> /\ lease' \in {lease, NoLease}
      BY <1>6 DEF ClearDead, ReadLease, ClearLease
    <2>n. NoLease.id = None
      BY DEF NoLease
    <2>1. CASE Returns(k)
      BY <2>1, <2>u, Blanks, QuietCall DEF Returns
    <2>2. CASE Goes(k, "lease") /\ ClearDead(k) /\ lease.id # call[k].seen
      <3> DEFINE c == [call[k] EXCEPT !.step = "lease"]
      <3>1. Keeps(call[k], c) /\ c.step = "lease" /\ c.profile = call[k].profile
        BY <1>c, MoveStep
      <3>2. Becomes(k, c)
        BY <2>2 DEF Goes
      <3> HIDE DEF c
      <3> QED BY <2>2, <2>e, <2>u, <3>1, <3>2, <1>c, QuietCall DEF Keeps
    <2>3. CASE Goes(k, "acquire") /\ call[k].op = "send" /\ call[k].profile = "launchable"
               /\ lease' = NoLease
      <3> DEFINE c == [call[k] EXCEPT !.step = "acquire"]
      <3>1. Keeps(call[k], c) /\ c.step = "acquire" /\ c.profile = call[k].profile
        BY <1>c, MoveStep
      <3>2. Becomes(k, c)
        BY <2>3 DEF Goes
      <3>3. ~(lease' = lease /\ c.doomed # None /\ lease.id = c.doomed)
        BY <2>3, <2>n
      <3> HIDE DEF c
      <3> QED BY <2>3, <2>e, <2>u, <3>1, <3>2, <3>3, <1>c, QuietCall DEF Keeps
    <2>4. CASE ClearDead(k)
      <3>1. CASE lease.id = call[k].seen
        BY <2>1, <2>3, <2>4, <3>1 DEF ClearDead, ClearLease, ActOnOffline
      <3>2. CASE lease.id # call[k].seen
        BY <2>2, <2>4, <3>2 DEF ClearDead
      <3> QED BY <3>1, <3>2
    <2>5. CASE ReadLease(k)
      BY <2>1, <2>3, <2>5 DEF ReadLease, ActOnOffline
    <2> QED BY <1>6, <2>4, <2>5
  <1>f. ASSUME NEW k \in Calls, ReconcileFails(k) PROVE WakeInv'
    <2> DEFINE c == [call[k] EXCEPT !.step = "lease", !.doomed = None]
    <2>1. /\ c \in Call /\ c.step = "lease" /\ c.op = call[k].op
          /\ c.profile = call[k].profile /\ c.seen = call[k].seen
          /\ c.doomed = None /\ c.eligible = call[k].eligible
      BY <1>c DEF Call
    <2>2. Becomes(k, c) /\ UNCHANGED <<profile, lease, proc, online, read, issued, launchOf>>
      BY <1>f DEF ReconcileFails
    <2>3. call[k].op = "send" /\ call[k].profile = "launchable" => call[k].eligible
      BY <1>f DEF ReconcileFails, WakeInv, EligibleInv
    <2> HIDE DEF c
    <2> QED BY <2>1, <2>2, <2>3, <1>c, QuietCall
  <1>7. ASSUME NEW k \in Calls, Acquire(k) PROVE WakeInv'
    <2>1. CASE Returns(k) /\ UNCHANGED <<lease, issued>>
      BY <1>7, <2>1, ReturnCall DEF Acquire
    <2>2. ASSUME NEW id \in LeaseIds \ issued, lease = NoLease,
                 lease' = [id |-> id, pid |-> None], issued' = issued \cup {id},
                 Becomes(k, [call[k] EXCEPT !.step = "launch", !.seen = id])
          PROVE  WakeInv'
      <3> DEFINE c == [call[k] EXCEPT !.step = "launch", !.seen = id]
      <3>1. /\ c \in Call /\ c.step = "launch" /\ c.seen = id
            /\ c.doomed = call[k].doomed /\ c.eligible = call[k].eligible
        <4>1. call[k] \in Call /\ id \in LeaseIds \cup {None}
          BY <1>c
        <4> QED BY ZenonT(60), <4>1, MoveSeen
      <3>2. Becomes(k, c) /\ UNCHANGED <<profile, proc, online, read, launchOf>>
        BY <1>7, <2>2 DEF Acquire
      <3> HIDE DEF c
      <3>3. /\ call' \in [Calls -> Call] /\ call'[k] = c
            /\ \A j \in Calls \ {k} : call'[j] = call[j]
        BY <3>1, <3>2 DEF Becomes, WakeInv, TypeOK
      <3>4. lease'.id = id /\ lease'.pid = None /\ lease' \in Lease /\ id # None /\ id \notin issued
        BY <2>2, WakeAssumption DEF Lease
      <3>5. TypeOK'
        BY <2>2, <3>2, <3>3, <3>4 DEF WakeInv, TypeOK
      <3>6. LeaseInv'
        BY <2>2, <3>1, <3>2, <3>3, <3>4 DEF WakeInv, LeaseInv, OwnsLease
      <3>7. OneLaunchPerLease' /\ EvidenceIsOwn'
        BY <3>2, <3>4 DEF WakeInv, OneLaunchPerLease, EvidenceIsOwn
      <3>8. DoomedInv'
        BY <3>1, <3>3, <3>4 DEF WakeInv, LeaseInv, DoomedInv
      <3>9. EligibleInv'
        BY <1>7, <3>1, <3>2, <3>3 DEF WakeInv, EligibleInv, Acquire
      <3> QED BY <3>5, <3>6, <3>7, <3>8, <3>9 DEF WakeInv
    <2> QED BY <1>7, <2>1, <2>2 DEF Acquire
  <1>8. ASSUME NEW k \in Calls, Launch(k) PROVE WakeInv'
    <2>1. CASE Returns(k) /\ UNCHANGED <<proc, launchOf>>
      BY <1>8, <2>1, ReturnCall DEF Launch
    <2>2. ASSUME NEW p \in Pids, proc[p] = "unused", proc' = [proc EXCEPT ![p] = "starting"],
                 launchOf' = [launchOf EXCEPT ![p] = call[k].seen],
                 Becomes(k, [call[k] EXCEPT !.step = "attach", !.pid = p])
          PROVE  WakeInv'
      <3> DEFINE c == [call[k] EXCEPT !.step = "attach", !.pid = p]
      <3>1. Keeps(call[k], c) /\ c.step = "attach" /\ c.pid = p
        BY <1>c, MoveLaunched
      <3>2. Becomes(k, c) /\ UNCHANGED <<profile, lease, online, read, issued>>
        BY <1>8, <2>2 DEF Launch
      <3> HIDE DEF c
      <3>3. /\ call' \in [Calls -> Call] /\ call'[k] = c
            /\ \A j \in Calls \ {k} : call'[j] = call[j]
        BY <3>1, <3>2 DEF Becomes, WakeInv, TypeOK, Keeps
      <3>4. OwnsLease(k) /\ call[k].step = "launch" /\ call[k].eligible
            /\ call[k].seen \in issued /\ p # None
        BY <1>8, <1>c, WakeAssumption DEF Launch, WakeInv, LeaseInv, EligibleInv, OwnsLease
      <3>5. \A q \in Pids : /\ launchOf'[q] = IF q = p THEN call[k].seen ELSE launchOf[q]
                            /\ proc'[q] = IF q = p THEN "starting" ELSE proc[q]
        BY <2>2 DEF WakeInv, TypeOK
      <3>6. TypeOK'
        BY <2>2, <1>t, <3>2, <3>3, <3>4 DEF WakeInv, TypeOK
      <3>7. LeaseInv'
        <4>1. /\ (lease.id = None => lease.pid = None)' /\ (lease.id \in issued \cup {None})'
              /\ \A q \in Pids : /\ launchOf'[q] \in issued' \cup {None}
                                 /\ proc'[q] = "unused" => launchOf'[q] = None
          BY <3>2, <3>4, <3>5 DEF WakeInv, LeaseInv
        <4>2. ASSUME NEW j \in Calls, j # k
              PROVE  /\ {call'[j].seen, call'[j].doomed} \subseteq issued' \cup {None}
                     /\ call'[j].step = "launch" => OwnsLease(j)'
                     /\ call'[j].step = "attach" =>
                          /\ call'[j].seen # None /\ call'[j].pid # None
                          /\ launchOf'[call'[j].pid] = call'[j].seen
          <5>1. call'[j] = call[j]
            BY <3>3, <4>2
          <5>2. call[j].step = "launch" => OwnsLease(j)'
            BY <5>1, <3>1, <3>3, <3>4, <3>5, <4>2 DEF WakeInv, LeaseInv, OwnsLease
          <5>3. call[j].step = "attach" =>
                  /\ call[j].seen # None /\ call[j].pid # None
                  /\ launchOf'[call[j].pid] = call[j].seen
            <6>1. call[j].pid \in Pids \cup {None}
              BY <1>c DEF Call
            <6>2. launchOf[p] = None
              BY <2>2 DEF WakeInv, LeaseInv
            <6> QED BY <3>5, <6>1, <6>2 DEF WakeInv, LeaseInv
          <5> QED BY <5>1, <5>2, <5>3, <3>2, <1>c
        <4>3. /\ {call'[k].seen, call'[k].doomed} \subseteq issued' \cup {None}
              /\ call'[k].step = "attach"
              /\ call'[k].seen # None /\ call'[k].pid # None
              /\ launchOf'[call'[k].pid] = call'[k].seen
          BY <3>1, <3>2, <3>3, <3>4, <3>5, <1>c DEF Keeps, OwnsLease
        <4> QED BY <4>1, <4>2, <4>3 DEF LeaseInv
      <3>8. OneLaunchPerLease' /\ EvidenceIsOwn'
        <4>1. launchOf[p] = None
          BY <2>2 DEF WakeInv, LeaseInv
        <4>2. OneLaunchPerLease'
          BY <3>4, <3>5 DEF WakeInv, OneLaunchPerLease, OwnsLease
        <4>3. EvidenceIsOwn'
          BY <3>2, <3>5, <4>1, <1>t DEF WakeInv, EvidenceIsOwn, LeaseInv, Lease
        <4> QED BY <4>2, <4>3
      <3>9. DoomedInv'
        <4>1. SpawnDead => SpawnDead'
          BY <2>2, <3>2, <3>5, <1>t DEF SpawnDead, Lease
        <4> QED BY <4>1, <3>1, <3>2, <3>3 DEF WakeInv, DoomedInv, Keeps
      <3>10. EligibleInv'
        BY ZenonT(60), <3>1, <3>2, <3>3, <3>4 DEF WakeInv, EligibleInv, Keeps
      <3> QED BY <3>6, <3>7, <3>8, <3>9, <3>10 DEF WakeInv
    <2> QED BY <1>8, <2>1, <2>2 DEF Launch
  <1>9. ASSUME NEW k \in Calls, AttachSpawn(k) PROVE WakeInv'
    <2>1. CASE lease.id # call[k].seen
      BY <1>9, <2>1, ReturnCall DEF AttachSpawn
    <2>2. CASE lease.id = call[k].seen
      <3>1. /\ call[k].step = "attach" /\ call[k].pid \in Pids /\ call[k].pid # None
            /\ launchOf[call[k].pid] = lease.id /\ lease.id # None
        BY <1>9, <2>2, <1>c DEF AttachSpawn, WakeInv, LeaseInv, Call
      <3>2. /\ lease' = [lease EXCEPT !.pid = call[k].pid]
            /\ UNCHANGED <<profile, proc, online, read, issued, launchOf>>
            /\ Becomes(k, Idle)
        BY <1>9, <2>2 DEF AttachSpawn, Returns
      <3>3. lease'.id = lease.id /\ lease'.pid = call[k].pid /\ lease' \in Lease
        BY <1>t, <3>1, <3>2 DEF Lease
      <3>4. /\ call' \in [Calls -> Call] /\ call'[k] = Idle
            /\ \A j \in Calls \ {k} : call'[j] = call[j]
        BY <3>2, Blanks DEF Becomes, WakeInv, TypeOK
      <3>5. TypeOK'
        BY <3>2, <3>3, <3>4 DEF WakeInv, TypeOK
      <3>6. LeaseInv'
        BY <3>1, <3>2, <3>3, <3>4, Blanks DEF WakeInv, LeaseInv, OwnsLease
      <3>7. OneLaunchPerLease' /\ EvidenceIsOwn'
        BY <3>1, <3>2, <3>3 DEF WakeInv, OneLaunchPerLease, EvidenceIsOwn
      <3>8. SpawnDead => SpawnDead'
        <4>1. lease.pid # None => lease.pid = call[k].pid
          BY <3>1, <1>t DEF WakeInv, OneLaunchPerLease, EvidenceIsOwn, Lease
        <4> QED BY <4>1, <3>1, <3>2, <3>3 DEF SpawnDead
      <3>9. DoomedInv'
        BY <3>2, <3>3, <3>4, <3>8, Blanks DEF WakeInv, DoomedInv
      <3>10. EligibleInv'
        BY <3>2, <3>4, Blanks DEF WakeInv, EligibleInv
      <3> QED BY <3>5, <3>6, <3>7, <3>9, <3>10 DEF WakeInv
    <2> QED BY <2>1, <2>2
  <1>10. ASSUME NEW k \in Calls, CrashCall(k) PROVE WakeInv'
    BY <1>10, ReturnCall DEF CrashCall
  <1>11. ASSUME NEW p \in Pids,
                StartByHand(p) \/ Register(p) \/ FindLease(p) \/ ReadyAnyway(p)
                  \/ Die(p) \/ SessionLapses(p)
         PROVE  WakeInv'
    BY <1>11, <1>t, ProcessMoves, WakeAssumption
       DEF StartByHand, Register, FindLease, ReadyAnyway, Die, SessionLapses, WakeInv, TypeOK, Lease
  <1>12. ASSUME NEW p \in Pids, RuntimeReady(p) PROVE WakeInv'
    <2>1. CASE lease.id = read[p]
      BY <1>12, <2>1, LeaseGone DEF RuntimeReady, ClearLease, WakeInv, TypeOK
    <2>2. CASE lease.id # read[p]
      BY <1>12, <2>2, ProcessMoves DEF RuntimeReady, ClearLease, WakeInv, TypeOK
    <2> QED BY <2>1, <2>2
  <1>13. CASE LeaseExpires
    BY <1>13, LeaseGone DEF LeaseExpires, WakeInv, TypeOK
  <1>14. CASE ActorRegister
    <2>1. UNCHANGED <<lease, proc, online, read, issued, launchOf>> /\ profile' \in Profiles
      BY <1>14 DEF ActorRegister, Profiles
    <2>2. ASSUME NEW k \in Calls
          PROVE  /\ call'[k] \in Call
                 /\ call'[k].step = call[k].step /\ call'[k].op = call[k].op
                 /\ call'[k].profile = call[k].profile /\ call'[k].seen = call[k].seen
                 /\ call'[k].pid = call[k].pid /\ call'[k].doomed = call[k].doomed
                 /\ call[k].eligible => call'[k].eligible
                 /\ call[k].op = "send" /\ call[k].step # "push" /\ profile' = "launchable"
                      => call'[k].eligible
      BY <1>14, <1>c DEF ActorRegister, Call
    <2>3. call' \in [Calls -> Call]
      BY <1>14, <2>2 DEF ActorRegister
    <2>4. TypeOK'
      BY <2>1, <2>3 DEF WakeInv, TypeOK
    <2>5. LeaseInv'
      BY <2>1, <2>2 DEF WakeInv, LeaseInv, OwnsLease
    <2>6. OneLaunchPerLease' /\ EvidenceIsOwn'
      BY <2>1 DEF WakeInv, OneLaunchPerLease, EvidenceIsOwn
    <2>7. DoomedInv'
      BY <2>1, <2>2 DEF WakeInv, DoomedInv, SpawnDead
    <2>8. EligibleInv'
      BY <2>2 DEF WakeInv, EligibleInv
    <2> QED BY <2>4, <2>5, <2>6, <2>7, <2>8 DEF WakeInv
  <1>15. CASE UNCHANGED vars
    BY <1>15 DEF vars, WakeInv, TypeOK, LeaseInv, OwnsLease, OneLaunchPerLease,
                 EvidenceIsOwn, DoomedInv, SpawnDead, EligibleInv
  <1> QED BY <1>1, <1>2, <1>3, <1>4, <1>5, <1>6, <1>f, <1>7, <1>8, <1>9, <1>10,
             <1>11, <1>12, <1>13, <1>14, <1>15 DEF Next

\* The invariant holds initially, and so always.
LEMMA WakeInvariant == Spec => []WakeInv
  <1>1. Init => WakeInv
    <2> SUFFICES ASSUME Init PROVE WakeInv
      OBVIOUS
    <2>1. \A k \in Calls : call[k] = Idle
      BY DEF Init
    <2>2. lease.id = None /\ lease.pid = None
      BY DEF Init, NoLease
    <2>3. TypeOK
      BY Blanks DEF Init, TypeOK
    <2>4. LeaseInv /\ DoomedInv /\ EligibleInv
      BY <2>1, <2>2, Blanks DEF Init, LeaseInv, DoomedInv, EligibleInv
    <2>5. OneLaunchPerLease /\ EvidenceIsOwn
      BY <2>2 DEF Init, OneLaunchPerLease, EvidenceIsOwn
    <2> QED BY <2>3, <2>4, <2>5 DEF WakeInv
  <1> QED BY <1>1, WakeStep, PTL DEF Spec

\* The lease, its evidence and every call keep their types under any interleaving.
THEOREM WakeTypeCorrect == Spec => []TypeOK
  BY WakeInvariant, PTL DEF WakeInv

\* No two processes are ever launched under one wake lease.
THEOREM LaunchesAreSingle == Spec => []OneLaunchPerLease
  BY WakeInvariant, PTL DEF WakeInv

\* The spawn evidence of a lease is always that of its own launch, so a slow sender
\* never marks a newer activation with an older process.
THEOREM EvidenceIsAlwaysOwn == Spec => []EvidenceIsOwn
  BY WakeInvariant, PTL DEF WakeInv

\* A call never coalesces with an activation that had visibly failed before it read
\* the actor's presence.
THEOREM DeadLeaseIsNeverJoined == Spec => []NeverCoalescesWithDead
  <1>1. WakeInv => NeverCoalescesWithDead
    BY DEF WakeInv, DoomedInv, NeverCoalescesWithDead
  <1> QED BY <1>1, WakeInvariant, PTL

\* No runtime is launched for an actor that was never launchable after the message
\* was persisted.
THEOREM PolicyIsHonoured == Spec => []PolicyChangeHonoured
  <1>1. WakeInv => PolicyChangeHonoured
    BY DEF WakeInv, EligibleInv, PolicyChangeHonoured
  <1> QED BY <1>1, WakeInvariant, PTL

\* Reconciliation deletes only a lease whose spawned process is dead: a replacement
\* stored after the dead one was read is spared.
THEOREM ReplacementIsSpared == Spec => ReconcileSparesReplacement
  <1> DEFINE P == \A k \in Calls :
                    /\ call[k].step = "clear" /\ call'[k].step # "clear"
                    /\ lease # NoLease /\ lease' = NoLease
                    => SpawnDead
  <1>1. WakeInv /\ [Next]_vars => [P]_vars
    <2> SUFFICES ASSUME WakeInv, Next, NEW k \in Calls, call[k].step = "clear",
                        call'[k].step # "clear", lease # NoLease, lease' = NoLease
                 PROVE  SpawnDead
      BY DEF vars
    <2>1. call \in [Calls -> Call] /\ call' # call /\ lease' # lease
      BY DEF WakeInv, TypeOK
    <2>2. ClearDead(k)
      <3>1. ASSUME NEW j \in Calls, NEW c, Becomes(j, c) PROVE j = k
        BY <2>1, <3>1 DEF Becomes
      <3>2. ASSUME NEW j \in Calls, Resolve(j) \/ Push(j) \/ Directory(j) \/ Status(j)
                     \/ Presence(j) \/ Reconcile(j) \/ ReconcileFails(j) \/ ReadLease(j)
                     \/ Launch(j) \/ CrashCall(j)
            PROVE  FALSE
        BY <2>1, <3>2 DEF Resolve, Push, Directory, Status, Presence, Reconcile,
                          ReconcileFails, ReadLease, Launch, CrashCall
      <3>3. ASSUME NEW j \in Calls, Acquire(j) \/ AttachSpawn(j) PROVE FALSE
        <4>1. j = k
          BY <2>1, <3>3, <3>1 DEF Acquire, AttachSpawn, Returns
        <4> QED BY <3>3, <4>1 DEF Acquire, AttachSpawn
      <3>4. ASSUME NEW p \in Pids, StartByHand(p) \/ Register(p) \/ FindLease(p)
                     \/ RuntimeReady(p) \/ ReadyAnyway(p) \/ Die(p) \/ SessionLapses(p)
            PROVE  FALSE
        BY <2>1, <3>4 DEF StartByHand, Register, FindLease, RuntimeReady, ReadyAnyway,
                          Die, SessionLapses
      <3>5. ASSUME NEW j \in Calls, ClearDead(j) PROVE j = k
        BY <3>5, <3>1 DEF ClearDead, ActOnOffline, Goes, Returns
      <3> QED BY <2>1, <3>2, <3>3, <3>4, <3>5 DEF Next, ActorRegister, LeaseExpires
    <2>3. lease.id = call[k].seen
      BY <2>1, <2>2 DEF ClearDead, ClearLease
    <2>4. lease.id # None
      BY DEF WakeInv, TypeOK, LeaseInv, Lease, NoLease
    <2> QED BY <2>3, <2>4 DEF WakeInv, DoomedInv
  <1> QED BY <1>1, WakeInvariant, PTL DEF Spec, ReconcileSparesReplacement
=============================================================================
