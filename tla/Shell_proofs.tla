---------------------------- MODULE Shell_proofs ----------------------------
(***************************************************************************)
(* Proofs about Shell: an attached dispatcher serves the mailbox its       *)
(* runtime is mapped to; a retired shell leaves nothing; a name that was   *)
(* sent from is not given up.  And, in the second half, about the inbox    *)
(* dispatcher a shell starts (Activation): each record leads to at most    *)
(* one submission, and doubt about a submission is kept.                   *)
(***************************************************************************)
EXTENDS Shell, MCActivation, FiniteSetTheorems, TLAPS

-----------------------------------------------------------------------------
(***************************************************************************)
(* The inductive invariant.                                                *)
(***************************************************************************)

Target(s) == mapping[scenario.runtime[s]]

\* What its steps leave of a shell: one that has not started has nothing in the store; it
\* binds under a name, with no dispatcher once the old one is closed; a cleanup that is past
\* the runtime found no bind; one that is over has cut the connections.
LifeInv(s) ==
  LET x == shell[s]
  IN  /\ x.pc = "new" => x = Fresh /\ entry[s] = None /\ record[s] = None
      /\ x.clean = "no" /\ x.pc \in {"describe", "up"} => x.name \in Names
      /\ x.pc = "describe" /\ ~x.cut => x.name = s
      /\ x.bind # "idle" => x.pc = "up"
      /\ x.bind # "idle" \/ x.ready => x.name \in Names
      /\ x.bind \in {"map", "look", "adopt", "attach"} => ~x.ready
      /\ x.clean = "retire" => x.bind = "idle" /\ ~x.ready
      /\ x.clean = "done" => x.cut
      /\ x.pc = "crashed" => x.clean = "done"

\* A session is in no set but that of its record's name.  A binding is its dispatcher's, or
\* it is astray; a crash leaves its own behind.
HeldInv(s) ==
  /\ \A n \in Names : s \in members[n] => record[s] = n
  /\ \A n \in Names : binding[n] = s /\ shell[s].pc # "crashed" =>
                        n \in stray \/ (shell[s].ready /\ shell[s].name = n)

\* A retired shell has no name, no bind, no session, and no binding that is not astray.
RetiredInv(s) ==
  LET x == shell[s]
  IN  x.retired => /\ x.pc # "new" /\ x.clean = "done" /\ x.name = None
                   /\ x.bind = "idle" /\ ~x.ready
                   /\ record[s] = None /\ s \notin lease
                   /\ \A n \in Names : binding[n] = s => n \in stray

\* A bind looks at a mapping that exists and stays.
LookInv(s) ==
  /\ shell[s].bind \in {"look", "adopt"} => Target(s) # None
  /\ shell[s].bind = "adopt" => shell[s].want \in Names

NoStall == "stall" \notin scenario.events

\* A shell whose adoption succeeded without its knowing: the name it goes by is off the
\* registry and its runtime is mapped to another, so it cannot bind again.
Astray(s) ==
  /\ shell[s].pc = "up" /\ entry[shell[s].name] = None
  /\ Target(s) # shell[s].name /\ Target(s) # None
  /\ shell[s].bind # "attach" /\ ~shell[s].ready

\* Where nothing stalls, the session of a connected shell lives, under the shell's name
\* unless an adoption's answer was lost.
AliveInv(s) ==
  NoStall /\ shell[s].name \in Names /\ ~shell[s].cut =>
    /\ s \in lease /\ record[s] \in Names /\ s \in members[record[s]]
    /\ record[s] = shell[s].name \/ Astray(s)

\* A shell about to attach, and one that has, serves the name its runtime is mapped to.
BoundInv(s) ==
  LET x == shell[s]
  IN  Timely => /\ x.bind = "attach" /\ ~x.cut => Target(s) = x.name
                /\ x.ready /\ binding[x.name] = s => Target(s) = x.name

\* The marker is there before the message.
SpeakInv(s) ==
  shell[s].sending /\ ~shell[s].cut /\ shell[s].name \in Names => shell[s].name \in outbound

OwnInv(s) ==
  /\ LifeInv(s) /\ HeldInv(s) /\ RetiredInv(s) /\ LookInv(s) /\ AliveInv(s) /\ BoundInv(s)
  /\ SpeakInv(s)

\* Only an operator has a plan.
PlanInv == plan # None => "operator" \in scenario.events

\* A shell that goes by the name of another will not see that one register or publish it.
NamedInv ==
  NoStall => \A s, t \in Shells : s # t /\ shell[s].name = t =>
                /\ shell[t].pc # "new"
                /\ shell[t].pc = "describe" => shell[t].cut

ShellInv ==
  /\ TypeOK
  /\ PlanInv
  /\ NamedInv
  /\ spoken \subseteq outbound \cup silent
  /\ \A s \in Shells : OwnInv(s)

-----------------------------------------------------------------------------
(***************************************************************************)
(* Types.                                                                  *)
(***************************************************************************)

\* What a shell becomes is a shell.
LEMMA ShellTyped ==
  ASSUME TypeOK, NEW s \in Shells, NEW v \in Shell, Becomes(s, v)
  PROVE  shell' \in [Shells -> Shell] /\ shell'[s] = v
         /\ \A t \in Shells : t # s => shell'[t] = shell[t]
BY DEF TypeOK, Becomes

\* The steps of one shell.
StartMoves(s) == Register(s) \/ RegisterFails(s) \/ Connect(s) \/ ConnectFails(s)
BindMoves(s) ==
  \/ Bind(s) \/ BindAdapter(s) \/ BindCloses(s) \/ BindMaps(s) \/ BindLooks(s)
  \/ BindAdopts(s) \/ BindAttaches(s) \/ BindFails(s)
CloseMoves(s) == AskClose(s) \/ CloseRuntime(s) \/ Retire(s) \/ GiveUp(s) \/ Crash(s)
ToolMoves(s) ==
  SendMarks(s) \/ Sends(s) \/ ClaimTasks(s) \/ LeaseLapses(s) \/ Refresh(s)

\* The steps around one name.
PeerMoves(n) ==
  Deliver(n) \/ Acknowledge(n) \/ MarkerLapses(n) \/ HeartbeatLapses(n) \/ BindingLapses(n)

LEMMA StartBecomes ==
  ASSUME TypeOK, NEW s \in Shells, StartMoves(s)
  PROVE  \E v \in Shell : Becomes(s, v)
<1> DEFINE x == shell[s]
<1>1. x \in Shell /\ s \in Names
  BY DEF TypeOK, Names
<1> HIDE DEF x
<1>2. [x EXCEPT !.pc = "describe", !.name = s] \in Shell
  BY <1>1 DEF Shell
<1>3. [x EXCEPT !.pc = "failed", !.cut = TRUE, !.clean = "runtime"] \in Shell
  BY <1>1 DEF Shell
<1>4. [x EXCEPT !.transport = "open", !.pc = IF x.clean = "no" THEN "up" ELSE "failed"] \in Shell
  BY <1>1 DEF Shell
<1>5. [x EXCEPT !.pc = "failed", !.clean = IF @ = "no" THEN "runtime" ELSE @] \in Shell
  BY ZenonT(60), <1>1 DEF Shell
<1> QED BY <1>2, <1>3, <1>4, <1>5
        DEF StartMoves, Register, RegisterFails, Connect, ConnectFails, x

LEMMA BindBecomes ==
  ASSUME TypeOK, NEW s \in Shells, BindMoves(s)
  PROVE  \E v \in Shell : Becomes(s, v)
<1> DEFINE x == shell[s]
           m == Target(s)
<1>1. x \in Shell /\ m \in Names \cup {None} /\ x.want \in Names \cup {None}
  <2>1. scenario.runtime[s] \in Runtimes
    BY ShellAssumption DEF TypeOK
  <2> QED BY <2>1 DEF TypeOK, Target, Shell
<1> HIDE DEF x, m
<1>2. [x EXCEPT !.bind = "adapter", !.binds = @ + 1] \in Shell
  <2>1. x.binds \in Nat /\ x.binds + 1 \in Nat
    BY <1>1 DEF Shell
  <2> DEFINE k == x.binds + 1
  <2> HIDE DEF k
  <2>2. [x EXCEPT !.bind = "adapter", !.binds = k] \in Shell
    BY <1>1, <2>1 DEF Shell, k
  <2> QED BY <2>2 DEF k
<1>3. [x EXCEPT !.bind = IF x.clean = "no" THEN "unbind" ELSE "idle"] \in Shell
  BY <1>1 DEF Shell
<1>4. [x EXCEPT !.bind = "map", !.ready = FALSE] \in Shell
  BY <1>1 DEF Shell
<1>5. [x EXCEPT !.bind = "look"] \in Shell
  BY <1>1 DEF Shell
<1>6. [x EXCEPT !.want = m, !.bind = IF m = x.name THEN "attach" ELSE "adopt"] \in Shell
  BY <1>1 DEF Shell
<1>7. [x EXCEPT !.bind = "attach", !.name = x.want, !.want = None] \in Shell
  BY <1>1 DEF Shell
<1>8. [x EXCEPT !.bind = "idle", !.want = None] \in Shell
  BY <1>1 DEF Shell
<1>9. [x EXCEPT !.bind = "idle", !.want = None, !.ready = (binding[x.name] = None)] \in Shell
  BY <1>1 DEF Shell
<1> QED BY <1>2, <1>3, <1>4, <1>5, <1>6, <1>7, <1>8, <1>9
        DEF BindMoves, Bind, BindAdapter, BindCloses, BindMaps, BindLooks, BindAdopts,
            BindAttaches, BindFails, x, m, Target

LEMMA CloseBecomes ==
  ASSUME TypeOK, NEW s \in Shells, CloseMoves(s)
  PROVE  \E v \in Shell : Becomes(s, v)
<1> DEFINE x == shell[s]
<1>1. x \in Shell
  BY DEF TypeOK
<1> HIDE DEF x
<1>2. [x EXCEPT !.clean = "runtime"] \in Shell
  BY <1>1 DEF Shell
<1>3. [x EXCEPT !.clean = "retire", !.ready = FALSE,
                !.transport = IF @ = "open" THEN "closed" ELSE @] \in Shell
  BY ZenonT(60), <1>1 DEF Shell
<1>4. [x EXCEPT !.clean = "done", !.cut = TRUE, !.retired = (x.name # None), !.name = None] \in Shell
  BY ZenonT(60), <1>1 DEF Shell
<1>5. [x EXCEPT !.clean = "done", !.cut = TRUE] \in Shell
  BY ZenonT(60), <1>1 DEF Shell
<1>6. [x EXCEPT !.pc = "crashed", !.cut = TRUE, !.bind = "idle", !.want = None,
                !.ready = FALSE, !.clean = "done", !.transport = "closed",
                !.sending = FALSE] \in Shell
  BY ZenonT(60), <1>1 DEF Shell
<1> QED BY <1>2, <1>3, <1>4, <1>5, <1>6
        DEF CloseMoves, AskClose, CloseRuntime, Retire, GiveUp, Crash, x

LEMMA ToolBecomes ==
  ASSUME TypeOK, NEW s \in Shells, ToolMoves(s)
  PROVE  \E v \in Shell : Becomes(s, v)
<1> DEFINE x == shell[s]
<1>1. x \in Shell /\ shell = [shell EXCEPT ![s] = x]
  BY DEF TypeOK
<1> HIDE DEF x
<1>2. [x EXCEPT !.sending = TRUE] \in Shell /\ [x EXCEPT !.sending = FALSE] \in Shell
  BY <1>1 DEF Shell
<1>3. CASE SendMarks(s) \/ Sends(s)
  BY <1>2, <1>3 DEF SendMarks, Sends, x
<1>4. CASE ClaimTasks(s) \/ LeaseLapses(s) \/ Refresh(s)
  <2>1. shell' = shell
    BY <1>4 DEF ClaimTasks, LeaseLapses, Refresh
  <2> QED BY <1>1, <2>1 DEF Becomes
<1> QED BY <1>3, <1>4 DEF ToolMoves

\* dispatcher.close takes away no binding but the shell's own; where it fails, the binding
\* is astray.
LEMMA DetachedOwn ==
  ASSUME TypeOK, NEW s \in Shells, Detached(s)
  PROVE  /\ binding' \in [Names -> Shells \cup {None}]
         /\ stray \subseteq stray' /\ stray' \subseteq Names
         /\ \A n \in Names : binding'[n] # None => binding'[n] = binding[n]
         /\ \A n \in Names : binding'[n] = s /\ shell[s].ready /\ shell[s].name = n => n \in stray'
<1>1. s # None
  BY ShellAssumption DEF Names
<1> QED BY <1>1 DEF Detached, TypeOK

LEMMA TypeStep ==
  ASSUME ShellInv, [Next]_vars
  PROVE  TypeOK'
<1>0. TypeOK
  BY DEF ShellInv
<1>1. \A s \in Shells : shell[s] \in Shell /\ s \in Names /\ scenario.runtime[s] \in Runtimes
  BY <1>0, ShellAssumption DEF TypeOK, Names
<1>2. \A s \in Shells : shell[s].name \in Names \cup {None} /\ shell[s].want \in Names \cup {None}
  BY <1>0, <1>1 DEF Shell
<1>3. ASSUME NEW s \in Shells, StartMoves(s) PROVE TypeOK'
  <2>1. shell' \in [Shells -> Shell]
    BY <1>0, <1>3, StartBecomes, ShellTyped
  <2>2. CASE Registered(s)
    <3>1. /\ entry' \in [Names -> Names \cup {None}] /\ record' \in [Shells -> Names \cup {None}]
          /\ lease' \subseteq Shells /\ members' \in [Names -> SUBSET Shells]
      BY <1>0, <1>1, <2>2 DEF Registered, TypeOK
    <3> QED BY <1>0, <1>1, <1>3, <2>1, <3>1
            DEF StartMoves, Register, RegisterFails, Connect, ConnectFails, store, history, TypeOK
  <2>3. CASE ~Registered(s)
    <3>1. entry' \in [Names -> Names \cup {None}]
      BY <1>0, <1>1, <1>3, <2>3 DEF StartMoves, Register, RegisterFails, Connect, ConnectFails, store, TypeOK
    <3> QED BY <1>0, <1>1, <1>3, <2>1, <2>3, <3>1
            DEF StartMoves, Register, RegisterFails, Connect, ConnectFails, store, history, TypeOK
  <2> QED BY <1>0, <2>2, <2>3
<1>4. ASSUME NEW s \in Shells, BindMoves(s) PROVE TypeOK'
  <2>1. shell' \in [Shells -> Shell]
    BY <1>0, <1>4, BindBecomes, ShellTyped
  <2>2. CASE BindCloses(s)
    <3>1. binding' \in [Names -> Shells \cup {None}] /\ stray' \subseteq Names
      BY <1>0, <2>2, DetachedOwn DEF BindCloses
    <3> QED BY <1>0, <2>1, <2>2, <3>1 DEF BindCloses, TypeOK
  <2>3. CASE BindMaps(s)
    <3>1. mapping' \in [Runtimes -> Names \cup {None}]
      BY <1>0, <1>1, <1>2, <2>3 DEF BindMaps, TypeOK
    <3> QED BY <1>0, <2>1, <2>3, <3>1 DEF BindMaps, history, TypeOK
  <2>4. CASE BindAdopts(s)
    <3>1. shell[s].name \in Names /\ shell[s].want \in Names
      BY <1>0, <1>4, <2>4 DEF ShellInv, OwnInv, LifeInv, LookInv, BindAdopts
    <3>2. entry' \in [Names -> Names \cup {None}]
      BY <1>0, <1>1, <2>4 DEF BindAdopts, AdoptIdentity, TypeOK
    <3>3. record' \in [Shells -> Names \cup {None}] /\ heartbeat' \subseteq Names
      BY <1>0, <2>4, <3>1 DEF BindAdopts, AdoptIdentity, TypeOK
    <3>4. members' \in [Names -> SUBSET Shells]
      BY <1>0, <2>4, <3>1 DEF BindAdopts, AdoptIdentity, TypeOK
    <3> QED BY <1>0, <2>1, <2>4, <3>2, <3>3, <3>4 DEF BindAdopts, history, TypeOK
  <2>5. CASE BindAttaches(s)
    <3>1. binding' \in [Names -> Shells \cup {None}]
      BY <1>0, <2>5 DEF BindAttaches, TypeOK
    <3> QED BY <1>0, <2>1, <2>5, <3>1 DEF BindAttaches, history, TypeOK
  <2>6. CASE Bind(s) \/ BindAdapter(s) \/ BindLooks(s)
    BY <1>0, <2>1, <2>6 DEF Bind, BindAdapter, BindLooks, store, history, TypeOK
  <2>7. CASE BindFails(s)
    <3>1. shell[s].name \in Names
      BY <2>7 DEF ShellInv, OwnInv, LifeInv, BindFails
    <3>2. binding' \in [Names -> Shells \cup {None}] /\ stray' \subseteq Names
      BY <1>0, <2>7, <3>1 DEF BindFails, TypeOK
    <3> QED BY <1>0, <2>1, <2>7, <3>2 DEF BindFails, TypeOK
  <2> QED BY <1>0, <1>4, <2>2, <2>3, <2>4, <2>5, <2>6, <2>7 DEF BindMoves
<1>5. ASSUME NEW s \in Shells, CloseMoves(s) PROVE TypeOK'
  <2>1. shell' \in [Shells -> Shell]
    BY <1>0, <1>5, CloseBecomes, ShellTyped
  <2>2. CASE CloseRuntime(s)
    <3>1. binding' \in [Names -> Shells \cup {None}] /\ stray' \subseteq Names
      BY <1>0, <2>2, DetachedOwn DEF CloseRuntime
    <3> QED BY <1>0, <2>1, <2>2, <3>1 DEF CloseRuntime, TypeOK
  <2>3. CASE Retire(s)
    <3>1. record' \in [Shells -> Names \cup {None}] /\ lease' \subseteq Shells /\ heartbeat' \subseteq Names
      BY <1>0, <2>3 DEF Retire, TypeOK
    <3>2. members' \in [Names -> SUBSET Shells]
      BY <1>0, <2>3 DEF Retire, TypeOK
    <3> QED BY <1>0, <2>1, <2>3, <3>1, <3>2 DEF Retire, history, TypeOK
  <2>4. CASE AskClose(s) \/ GiveUp(s) \/ Crash(s)
    BY <1>0, <2>1, <2>4 DEF AskClose, GiveUp, Crash, store, history, TypeOK
  <2> QED BY <1>0, <1>5, <2>2, <2>3, <2>4 DEF CloseMoves
<1>6. ASSUME NEW s \in Shells, ToolMoves(s) PROVE TypeOK'
  <2>1. shell' \in [Shells -> Shell]
    BY <1>0, <1>6, ToolBecomes, ShellTyped
  <2>2. CASE SendMarks(s) \/ Sends(s)
    BY <1>0, <1>2, <2>1, <2>2 DEF SendMarks, Sends, Serving, store, history, TypeOK
  <2>3. CASE ClaimTasks(s) \/ LeaseLapses(s) \/ Refresh(s)
    BY <1>0, <1>2, <2>1, <2>3 DEF ClaimTasks, Serving, LeaseLapses, Refresh, history, TypeOK
  <2> QED BY <1>0, <1>6, <2>2, <2>3 DEF ToolMoves
<1>7. ASSUME NEW n \in Names, PeerMoves(n) PROVE TypeOK'
  <2>1. CASE Deliver(n) \/ Acknowledge(n) \/ HeartbeatLapses(n)
    BY <1>0, <2>1 DEF Deliver, Acknowledge, HeartbeatLapses, history, TypeOK
  <2>2. CASE MarkerLapses(n)
    BY <1>0, <2>2 DEF MarkerLapses, TypeOK
  <2>3. CASE BindingLapses(n)
    BY <1>0, <2>3 DEF BindingLapses, TypeOK
  <2> QED BY <1>7, <2>1, <2>2, <2>3 DEF PeerMoves
<1>8. ASSUME NEW r \in Runtimes, NEW n \in Names, PrepareContinuity(r, n) PROVE TypeOK'
  <2> DEFINE source == mapping[r]
             e == IF source = None THEN None ELSE entry[source]
  <2>1. plan' = [runtime |-> r, source |-> source, target |-> n, targetEntry |-> entry[n],
                 sourceEntry |-> e]
    BY <1>0, <1>8 DEF PrepareContinuity
  <2>2. /\ source \in Names \cup {None} /\ entry[n] \in Names
        /\ e \in Names \cup {None}
    BY <1>0, <1>8 DEF PrepareContinuity, TypeOK
  <2> HIDE DEF source, e
  <2>3. plan' \in Plan
    BY <1>0, <2>1, <2>2 DEF Plan
  <2> QED BY <1>0, <1>8, <2>3 DEF PrepareContinuity, store, history, TypeOK
<1>9. CASE ApplyContinuity
  <2>1. plan \in Plan /\ plan.target \in Names
    BY <1>0, <1>9 DEF ApplyContinuity, TypeOK, Plan
  <2>2. mapping' \in [Runtimes -> Names \cup {None}]
    BY <1>0, <1>9, <2>1 DEF ApplyContinuity, TypeOK
  <2> QED BY <1>0, <1>9, <2>2 DEF ApplyContinuity, history, TypeOK
<1>10. CASE UNCHANGED vars
  BY <1>0, <1>10 DEF vars, store, history, TypeOK
<1> QED BY <1>3, <1>4, <1>5, <1>6, <1>7, <1>8, <1>9, <1>10
        DEF Next, StartMoves, BindMoves, CloseMoves, ToolMoves, PeerMoves

-----------------------------------------------------------------------------
(***************************************************************************)
(* What a step does to the shell that takes it, and to the others.         *)
(***************************************************************************)

\* A shell whose own state, session, binding and name are left alone, under a mapping that
\* only gains entries.
LEMMA OthersKeep ==
  ASSUME ShellInv, NEW t \in Shells, scenario' = scenario,
         shell'[t] = shell[t], record'[t] = record[t], t \in lease' <=> t \in lease,
         entry[t] = None => entry'[t] = None,
         NoStall /\ shell[t].name \in Names /\ entry[shell[t].name] = None =>
           entry'[shell[t].name] = None,
         \A n \in Names : t \in members'[n] <=> t \in members[n],
         \A n \in Names : binding'[n] = t => binding[n] = t /\ (n \in stray => n \in stray'),
         \A r \in Runtimes : mapping[r] # None => mapping'[r] = mapping[r],
         shell[t].sending /\ ~shell[t].cut /\ shell[t].name \in outbound => shell[t].name \in outbound'
  PROVE  OwnInv(t)'
<1> DEFINE x == shell[t]
           r == scenario.runtime[t]
<1>1. OwnInv(t) /\ x \in Shell /\ r \in Runtimes /\ None \notin Names
  BY ShellAssumption DEF ShellInv, TypeOK
<1>2. x.name \in Names \cup {None}
  BY <1>1 DEF Shell
<1>3. LifeInv(t)'
  BY <1>1 DEF OwnInv, LifeInv
<1>4. RetiredInv(t)'
  BY <1>1 DEF OwnInv, RetiredInv
<1>5. LookInv(t)'
  BY <1>1 DEF OwnInv, LookInv, Target
<1>6. AliveInv(t)'
  BY <1>1 DEF OwnInv, AliveInv, Astray, Target, NoStall
<1>7. BoundInv(t)'
  <2>1. x.bind = "attach" \/ x.ready => x.name \in Names
    BY <1>1 DEF OwnInv, LifeInv
  <2>2. CASE Timely /\ x.bind = "attach" /\ ~x.cut
    <3>1. mapping[r] = x.name /\ x.name \in Names /\ ~x.ready
      BY <1>1, <2>1, <2>2 DEF OwnInv, BoundInv, Target, LifeInv
    <3>2. mapping'[r] = x.name
      BY <1>1, <3>1
    <3> QED BY <3>1, <3>2 DEF BoundInv, Target
  <2>3. CASE Timely /\ x.ready /\ binding'[x.name] = t
    <3>1. mapping[r] = x.name /\ x.name \in Names
      BY <1>1, <2>1, <2>3 DEF OwnInv, BoundInv, Target
    <3>2. mapping'[r] = x.name
      BY <1>1, <3>1
    <3> QED BY <3>1, <3>2 DEF BoundInv, Target
  <2> QED BY <2>2, <2>3 DEF BoundInv, Timely
<1>8. SpeakInv(t)'
  BY <1>1 DEF OwnInv, SpeakInv
<1>9. HeldInv(t)'
  BY <1>1 DEF OwnInv, HeldInv
<1> QED BY <1>3, <1>4, <1>5, <1>6, <1>7, <1>8, <1>9 DEF OwnInv

LEMMA StartOwn ==
  ASSUME ShellInv, NEW s \in Shells, StartMoves(s)
  PROVE  OwnInv(s)'
<1> DEFINE x == shell[s]
           y == shell'[s]
<1>1. /\ OwnInv(s) /\ x \in Shell /\ s \in Names /\ None \notin Names /\ TypeOK
      /\ shell \in [Shells -> Shell]
  BY ShellAssumption DEF ShellInv, TypeOK, Names
<1>2. CASE Register(s)
  <2>1. x = Fresh /\ record[s] = None
    BY <1>1, <1>2 DEF OwnInv, LifeInv, Register
  <2>2. y = [Fresh EXCEPT !.pc = "describe", !.name = s]
    BY <1>1, <1>2, <2>1 DEF Register, Becomes
  <2>3. /\ y.pc = "describe" /\ y.name = s /\ y.bind = "idle" /\ ~y.ready /\ y.clean = "no"
        /\ ~y.retired /\ ~y.sending
    BY <2>2 DEF Fresh
  <2>4. s \in lease' /\ s \in members'[s] /\ record'[s] = s
    BY <1>1, <1>2 DEF Register, Registered, TypeOK
  <2>5. HeldInv(s)'
    <3>1. ~x.ready /\ x.pc = "new"
      BY <2>1 DEF Fresh
    <3>2. \A n \in Names : s \notin members[n] /\ (binding[n] = s => n \in stray)
      BY <1>1, <2>1, <3>1 DEF OwnInv, HeldInv
    <3>3. \A n \in Names : s \in members'[n] => n = s
      BY <1>1, <1>2, <3>2 DEF Register, Registered, TypeOK
    <3>4. UNCHANGED <<binding, stray>>
      BY <1>2 DEF Register, history
    <3> QED BY <2>4, <3>2, <3>3, <3>4 DEF HeldInv
  <2> HIDE DEF x, y
  <2> QED BY <1>1, <2>3, <2>4, <2>5
          DEF OwnInv, LifeInv, RetiredInv, LookInv, AliveInv, BoundInv, SpeakInv, y
<1>3. CASE RegisterFails(s)
  <2>1. x = Fresh /\ record[s] = None
    BY <1>1, <1>3 DEF OwnInv, LifeInv, RegisterFails
  <2>2. y = [Fresh EXCEPT !.pc = "failed", !.cut = TRUE, !.clean = "runtime"]
    BY <1>1, <1>3, <2>1 DEF RegisterFails, Becomes
  <2>3. /\ y.pc = "failed" /\ y.name = None /\ y.bind = "idle" /\ ~y.ready /\ y.clean = "runtime"
        /\ ~y.retired /\ ~y.sending /\ y.cut
    BY <2>2 DEF Fresh
  <2>4. HeldInv(s)'
    <3>1. ~x.ready /\ x.pc = "new"
      BY <2>1 DEF Fresh
    <3>2. \A n \in Names : s \notin members[n] /\ (binding[n] = s => n \in stray)
      BY <1>1, <2>1, <3>1 DEF OwnInv, HeldInv
    <3>3. \A n \in Names : s \in members'[n] => n = record'[s]
      BY <1>1, <1>3, <3>2 DEF RegisterFails, Registered, TypeOK
    <3>4. UNCHANGED <<binding, stray>>
      BY <1>3 DEF RegisterFails, history
    <3> QED BY <3>2, <3>3, <3>4 DEF HeldInv
  <2> HIDE DEF x, y
  <2> QED BY <1>1, <2>3, <2>4
          DEF OwnInv, LifeInv, RetiredInv, LookInv, AliveInv, BoundInv, SpeakInv, y
<1>4. CASE Connect(s) \/ ConnectFails(s)
  <2>1. /\ y.pc \notin {"new", "describe", "crashed"} /\ x.pc = "describe" /\ y.name = x.name /\ y.bind = x.bind /\ y.want = x.want
        /\ y.ready = x.ready /\ y.cut = x.cut
        /\ y.retired = x.retired /\ y.sending = x.sending
        /\ \/ y.clean = x.clean
           \/ x.clean = "no" /\ y.clean = "runtime"
        /\ y.clean = "no" => x.clean = "no" /\ x.pc = "describe"
    <3>1. CASE Connect(s)
      <4>1. y = [x EXCEPT !.transport = "open", !.pc = IF x.clean = "no" THEN "up" ELSE "failed"]
        BY <1>1, <3>1 DEF Connect, Becomes
      <4> QED BY <1>1, <3>1, <4>1 DEF Shell, Connect
    <3>2. CASE ConnectFails(s)
      <4>1. y = [x EXCEPT !.pc = "failed", !.clean = IF @ = "no" THEN "runtime" ELSE @]
        BY <1>1, <3>2 DEF ConnectFails, Becomes
      <4> QED BY <1>1, <3>2, <4>1 DEF Shell, ConnectFails
    <3> QED BY <1>4, <3>1, <3>2
  <2>2. /\ UNCHANGED <<scenario, mapping, record, lease, members, binding, outbound, stray>>
        /\ x.bind = "idle"
    BY <1>1, <1>4 DEF Connect, ConnectFails, store, history, OwnInv, LifeInv
  <2>3. LifeInv(s)'
    BY <1>1, <2>1, <2>2 DEF OwnInv, LifeInv
  <2>4. RetiredInv(s)'
    BY <1>1, <2>1, <2>2 DEF OwnInv, RetiredInv
  <2>5. LookInv(s)' /\ AliveInv(s)' /\ SpeakInv(s)' /\ HeldInv(s)'
    BY <1>1, <2>1, <2>2 DEF OwnInv, LookInv, AliveInv, Astray, NoStall, SpeakInv, HeldInv, Target
  <2>6. BoundInv(s)'
    BY <1>1, <2>1, <2>2 DEF OwnInv, BoundInv, Target, Timely
  <2> QED BY <2>3, <2>4, <2>5, <2>6 DEF OwnInv
<1> QED BY <1>2, <1>3, <1>4 DEF StartMoves

\* A bind that goes on, or is dropped, without touching the store.
LEMMA BindQuiet ==
  ASSUME ShellInv, NEW s \in Shells, Bind(s) \/ BindAdapter(s) \/ BindLooks(s)
  PROVE  OwnInv(s)'
<1> DEFINE x == shell[s]
           y == shell'[s]
<1>1. /\ OwnInv(s) /\ x \in Shell /\ None \notin Names /\ shell \in [Shells -> Shell]
      /\ scenario.runtime[s] \in Runtimes /\ Target(s) \in Names \cup {None}
  BY ShellAssumption DEF ShellInv, TypeOK, Target
<1>2. UNCHANGED <<scenario, entry, mapping, record, lease, members, binding, outbound, stray>>
  BY DEF Bind, BindAdapter, BindLooks, store, history
<1>3. /\ y.pc = x.pc /\ y.name = x.name /\ y.ready = x.ready /\ y.cut = x.cut
      /\ y.retired = x.retired /\ y.sending = x.sending /\ y.clean = x.clean
      /\ \/ x.pc = "up" /\ x.clean = "no" /\ y.bind = "adapter"
         \/ x.bind = "adapter" /\ y.bind = "unbind" /\ x.clean = "no"
         \/ x.bind # "idle" /\ y.bind = "idle"
         \/ x.bind = "look" /\ y.want = Target(s) /\ y.want = x.name /\ y.bind = "attach"
         \/ x.bind = "look" /\ y.want = Target(s) /\ y.bind = "adopt"
  <2>1. CASE Bind(s)
    <3>1. y = [x EXCEPT !.bind = "adapter", !.binds = @ + 1]
      BY <1>1, <2>1 DEF Bind, Becomes
    <3> QED BY <1>1, <2>1, <3>1 DEF Shell, Bind
  <2>2. CASE BindAdapter(s)
    <3>1. y = [x EXCEPT !.bind = IF x.clean = "no" THEN "unbind" ELSE "idle"]
      BY <1>1, <2>2 DEF BindAdapter, Becomes
    <3> QED BY <1>1, <2>2, <3>1 DEF Shell, BindAdapter
  <2>3. CASE BindLooks(s)
    <3>1. y = [x EXCEPT !.want = Target(s), !.bind = IF Target(s) = x.name THEN "attach" ELSE "adopt"]
      BY <1>1, <2>3 DEF BindLooks, Becomes, Target
    <3>2. x.bind = "look"
      BY <2>3 DEF BindLooks
    <3> QED BY <1>1, <3>1, <3>2 DEF Shell
  <2> QED BY <2>1, <2>2, <2>3
<1>4. x.pc = "up"
  BY <1>1, <1>3 DEF OwnInv, LifeInv
<1> HIDE DEF x, y
<1>5. LifeInv(s)'
  BY <1>1, <1>2, <1>3, <1>4 DEF OwnInv, LifeInv, x, y
<1>6. RetiredInv(s)'
  BY <1>1, <1>2, <1>3 DEF OwnInv, RetiredInv, x, y
<1>7. LookInv(s)'
  BY <1>1, <1>2, <1>3 DEF OwnInv, LookInv, Target, x, y
<1>8. AliveInv(s)' /\ SpeakInv(s)' /\ HeldInv(s)'
  BY <1>1, <1>2, <1>3 DEF OwnInv, AliveInv, Astray, Target, NoStall, SpeakInv, HeldInv, x, y
<1>9. BoundInv(s)'
  BY <1>1, <1>2, <1>3 DEF OwnInv, BoundInv, Target, Timely, x, y
<1> QED BY <1>5, <1>6, <1>7, <1>8, <1>9 DEF OwnInv

LEMMA BindOwn ==
  ASSUME ShellInv, NEW s \in Shells, BindMoves(s)
  PROVE  OwnInv(s)'
<1> DEFINE x == shell[s]
           y == shell'[s]
           r == scenario.runtime[s]
<1>1. /\ OwnInv(s) /\ x \in Shell /\ None \notin Names /\ s \in Names /\ shell \in [Shells -> Shell]
      /\ r \in Runtimes /\ TypeOK
  BY ShellAssumption DEF ShellInv, TypeOK, Names
<1>2. CASE BindCloses(s)
  <2>1. y = [x EXCEPT !.bind = "map", !.ready = FALSE] /\ x.bind = "unbind"
    BY <1>1, <1>2 DEF BindCloses, Becomes
  <2>2. /\ y.pc = x.pc /\ y.name = x.name /\ ~y.ready /\ y.cut = x.cut /\ y.bind = "map"
        /\ y.retired = x.retired /\ y.sending = x.sending /\ y.clean = x.clean
    BY <1>1, <2>1 DEF Shell
  <2>3. UNCHANGED <<scenario, entry, mapping, record, lease, members, outbound>>
    BY <1>2 DEF BindCloses
  <2>4. x.pc = "up" /\ x.clean # "retire" /\ ~x.retired /\ x.name \in Names
    BY <1>1, <2>1 DEF OwnInv, LifeInv, RetiredInv
  <2>8. ASSUME NEW n \in Names, binding'[n] = s PROVE n \in stray'
    <3>1. s # None /\ Detached(s)
      BY <1>1, <1>2 DEF BindCloses
    <3>2. binding[n] = s /\ stray \subseteq stray' /\ (x.ready /\ x.name = n => n \in stray')
      BY <1>1, <2>8, <3>1, DetachedOwn
    <3> QED BY <1>1, <2>4, <3>2 DEF OwnInv, HeldInv
  <2> HIDE DEF x, y
  <2>5. LifeInv(s)'
    BY <1>1, <2>1, <2>2, <2>3, <2>4 DEF OwnInv, LifeInv, x, y
  <2>6. RetiredInv(s)' /\ LookInv(s)' /\ BoundInv(s)'
    BY <2>2, <2>4 DEF RetiredInv, LookInv, BoundInv, x, y
  <2>7. AliveInv(s)' /\ SpeakInv(s)'
    BY <1>1, <2>2, <2>3 DEF OwnInv, AliveInv, Astray, Target, NoStall, SpeakInv, x, y
  <2>9. HeldInv(s)'
    BY <1>1, <2>3, <2>8 DEF OwnInv, HeldInv
  <2> QED BY <2>5, <2>6, <2>7, <2>9 DEF OwnInv
<1>3. CASE BindMaps(s)
  <2>1. y = [x EXCEPT !.bind = "look"] /\ x.bind = "map"
    BY <1>1, <1>3 DEF BindMaps, Becomes
  <2>2. /\ y.pc = x.pc /\ y.name = x.name /\ y.ready = x.ready /\ y.cut = x.cut /\ y.bind = "look"
        /\ y.retired = x.retired /\ y.sending = x.sending /\ y.clean = x.clean
    BY <1>1, <2>1 DEF Shell
  <2>3. UNCHANGED <<scenario, entry, record, lease, members, binding, outbound, stray>>
    BY <1>3 DEF BindMaps, history
  <2>4. x.pc = "up" /\ x.clean # "retire" /\ ~x.retired /\ x.name \in Names /\ ~x.ready
    BY <1>1, <2>1 DEF OwnInv, LifeInv, RetiredInv
  <2>5. mapping'[r] # None /\ (mapping[r] # None => mapping'[r] = mapping[r])
    BY <1>1, <1>3, <2>4 DEF BindMaps, TypeOK
  <2> HIDE DEF x, y
  <2>6. LifeInv(s)'
    BY <1>1, <2>1, <2>2, <2>3, <2>4 DEF OwnInv, LifeInv, x, y
  <2>7. RetiredInv(s)' /\ BoundInv(s)'
    BY <2>2, <2>4 DEF RetiredInv, BoundInv, x, y
  <2>8. LookInv(s)'
    BY <2>2, <2>3, <2>5 DEF LookInv, Target, x, y
  <2>9. AliveInv(s)' /\ SpeakInv(s)' /\ HeldInv(s)'
    BY <1>1, <2>2, <2>3, <2>5 DEF OwnInv, AliveInv, Astray, Target, NoStall, SpeakInv, HeldInv, x, y
  <2> QED BY <2>6, <2>7, <2>8, <2>9 DEF OwnInv
<1>4. CASE BindAdopts(s) /\ Adoptable(s)
  <2> DEFINE n == x.name
             m == x.want
  <2>1. x.bind = "adopt" /\ ~x.cut /\ AdoptIdentity(s)
    BY <1>4 DEF BindAdopts
  <2>2. /\ UNCHANGED <<scenario, mapping, lease, binding, outbound, stray>>
    BY <1>4 DEF BindAdopts, history
  <2>3. /\ x.pc = "up" /\ x.clean \notin {"retire", "done"} /\ ~x.retired /\ ~x.ready
        /\ n \in Names /\ m \in Names
    BY <1>1, <2>1 DEF OwnInv, LifeInv, RetiredInv, LookInv
  <2>4. /\ mapping[r] = m /\ n \notin outbound /\ s \in lease /\ record[s] = n
        /\ m # n
    BY <1>4, <2>3 DEF Adoptable, Quiet, Occupied
  <2>5. record'[s] = m /\ s \in members'[m] /\ entry'[n] = None
    BY <1>1, <2>1, <2>3, <2>4 DEF AdoptIdentity, TypeOK
  <2>6. ~x.sending
    BY <1>1, <2>1, <2>3, <2>4 DEF OwnInv, SpeakInv
  <2>7. HeldInv(s)'
    <3>1. \A k \in Names : s \in members[k] => k = n
      BY <1>1, <2>4 DEF OwnInv, HeldInv
    <3>2. \A k \in Names : s \in members'[k] => k = m
      BY <1>1, <2>1, <2>3, <2>4, <3>1 DEF AdoptIdentity, TypeOK
    <3>3. \A k \in Names : binding[k] = s => k \in stray
      BY <1>1, <2>3 DEF OwnInv, HeldInv
    <3> QED BY <2>2, <2>5, <3>2, <3>3 DEF HeldInv
  <2>8. \/ y = [x EXCEPT !.bind = "attach", !.name = m, !.want = None]
        \/ y = [x EXCEPT !.bind = "idle", !.want = None]
    BY <1>1, <1>4 DEF BindAdopts, Becomes
  <2>9. CASE y = [x EXCEPT !.bind = "attach", !.name = m, !.want = None]
    <3>1. /\ y.pc = x.pc /\ y.name = m /\ y.ready = x.ready /\ y.cut = x.cut /\ y.bind = "attach"
          /\ y.retired = x.retired /\ y.sending = x.sending /\ y.clean = x.clean
      BY <1>1, <2>9 DEF Shell
    <3> HIDE DEF x, y, n, m
    <3>2. LifeInv(s)'
      BY <2>3, <3>1 DEF LifeInv, y
    <3>3. RetiredInv(s)' /\ LookInv(s)' /\ SpeakInv(s)'
      BY <2>3, <2>6, <3>1 DEF RetiredInv, LookInv, SpeakInv, y
    <3>4. AliveInv(s)'
      BY <2>2, <2>3, <2>4, <2>5, <3>1 DEF AliveInv, y
    <3>5. BoundInv(s)'
      BY <2>2, <2>3, <2>4, <3>1 DEF BoundInv, Target, y
    <3> QED BY <2>7, <3>2, <3>3, <3>4, <3>5 DEF OwnInv
  <2>10. CASE y = [x EXCEPT !.bind = "idle", !.want = None]
    <3>1. /\ y.pc = x.pc /\ y.name = n /\ y.ready = x.ready /\ y.cut = x.cut /\ y.bind = "idle"
          /\ y.retired = x.retired /\ y.sending = x.sending /\ y.clean = x.clean
      BY <1>1, <2>10 DEF Shell
    <3> HIDE DEF x, y, n, m
    <3>2. LifeInv(s)'
      BY <2>3, <3>1 DEF LifeInv, y
    <3>3. RetiredInv(s)' /\ LookInv(s)' /\ SpeakInv(s)' /\ BoundInv(s)'
      BY <2>3, <2>6, <3>1 DEF RetiredInv, LookInv, SpeakInv, BoundInv, y
    <3>4. AliveInv(s)'
      BY <1>1, <2>2, <2>3, <2>4, <2>5, <3>1 DEF AliveInv, Astray, Target, y
    <3> QED BY <2>7, <3>2, <3>3, <3>4 DEF OwnInv
  <2> QED BY <2>8, <2>9, <2>10
<1>5. CASE BindAdopts(s) /\ ~Adoptable(s)
  <2>1. y = [x EXCEPT !.bind = "idle", !.want = None] /\ x.bind = "adopt"
    BY <1>1, <1>5 DEF BindAdopts, Becomes
  <2>2. /\ y.pc = x.pc /\ y.name = x.name /\ y.ready = x.ready /\ y.cut = x.cut /\ y.bind = "idle"
        /\ y.retired = x.retired /\ y.sending = x.sending /\ y.clean = x.clean
    BY <1>1, <2>1 DEF Shell
  <2>3. UNCHANGED <<scenario, entry, mapping, record, lease, members, binding, outbound, stray>>
    BY <1>5 DEF BindAdopts, history
  <2>4. x.pc = "up" /\ x.clean # "retire" /\ ~x.retired /\ ~x.ready /\ x.name \in Names
    BY <1>1, <2>1 DEF OwnInv, LifeInv, RetiredInv
  <2> HIDE DEF x, y
  <2>5. LifeInv(s)'
    BY <1>1, <2>1, <2>2, <2>3, <2>4 DEF OwnInv, LifeInv, x, y
  <2>6. RetiredInv(s)' /\ LookInv(s)' /\ BoundInv(s)'
    BY <2>2, <2>4 DEF RetiredInv, LookInv, BoundInv, x, y
  <2>7. AliveInv(s)' /\ SpeakInv(s)' /\ HeldInv(s)'
    BY <1>1, <2>2, <2>3 DEF OwnInv, AliveInv, Astray, Target, NoStall, SpeakInv, HeldInv, x, y
  <2> QED BY <2>5, <2>6, <2>7 DEF OwnInv
<1>6. CASE BindAttaches(s)
  <2>1. /\ y = [x EXCEPT !.bind = "idle", !.want = None, !.ready = (binding[x.name] = None)]
        /\ x.bind = "attach" /\ ~x.cut
    BY <1>1, <1>6 DEF BindAttaches, Becomes
  <2>2. /\ y.pc = x.pc /\ y.name = x.name /\ y.cut = x.cut /\ y.bind = "idle"
        /\ y.retired = x.retired /\ y.sending = x.sending /\ y.clean = x.clean
    BY <1>1, <2>1 DEF Shell
  <2>3. UNCHANGED <<scenario, entry, mapping, record, lease, members, outbound, stray>>
    BY <1>6 DEF BindAttaches, history
  <2>4. x.pc = "up" /\ x.clean \notin {"retire", "done"} /\ ~x.retired /\ ~x.ready /\ x.name \in Names
    BY <1>1, <2>1 DEF OwnInv, LifeInv, RetiredInv
  <2>10. HeldInv(s)'
    <3>1. \A k \in Names : binding[k] = s => k \in stray
      BY <1>1, <2>4 DEF OwnInv, HeldInv
    <3>2. binding' = [binding EXCEPT ![x.name] = IF @ = None THEN s ELSE @]
      BY <1>6 DEF BindAttaches
    <3>3. y.ready = (binding[x.name] = None)
      BY <1>1, <2>1 DEF Shell
    <3>4. \A k \in Names : binding'[k] = s => binding[k] = s \/ (k = x.name /\ binding[x.name] = None)
      BY <1>1, <2>4, <3>2 DEF TypeOK
    <3> QED BY <1>1, <2>2, <2>3, <3>1, <3>3, <3>4 DEF OwnInv, HeldInv
  <2>5. Timely => mapping[r] = x.name
    BY <1>1, <2>1 DEF OwnInv, BoundInv, Target
  <2> HIDE DEF x, y
  <2>6. LifeInv(s)'
    BY <1>1, <2>1, <2>2, <2>3, <2>4 DEF OwnInv, LifeInv, x, y
  <2>7. RetiredInv(s)' /\ LookInv(s)'
    BY <2>2, <2>4 DEF RetiredInv, LookInv, x, y
  <2>8. BoundInv(s)'
    BY <2>2, <2>3, <2>5 DEF BoundInv, Target, Timely, x, y
  <2>9. AliveInv(s)' /\ SpeakInv(s)'
    BY <1>1, <2>1, <2>2, <2>3 DEF OwnInv, AliveInv, Astray, NoStall, SpeakInv, x, y
  <2> QED BY <2>6, <2>7, <2>8, <2>9, <2>10 DEF OwnInv
<1>7. CASE BindFails(s)
  <2>1. y = [x EXCEPT !.bind = "idle", !.want = None] /\ x.bind # "idle"
    BY <1>1, <1>7 DEF BindFails, Becomes
  <2>2. /\ y.pc = x.pc /\ y.name = x.name /\ y.ready = x.ready /\ y.cut = x.cut /\ y.bind = "idle"
        /\ y.retired = x.retired /\ y.sending = x.sending /\ y.clean = x.clean
    BY <1>1, <2>1 DEF Shell
  <2>3. UNCHANGED <<scenario, entry, mapping, record, lease, members, outbound>>
    BY <1>7 DEF BindFails
  <2>4. x.pc = "up" /\ x.clean # "retire" /\ ~x.retired /\ x.name \in Names
    BY <1>1, <2>1 DEF OwnInv, LifeInv, RetiredInv
  <2>5. \/ UNCHANGED <<binding, stray>>
        \/ ~x.ready /\ binding' = [binding EXCEPT ![x.name] = s] /\ stray' = stray \cup {x.name}
    BY <1>1, <1>7 DEF BindFails, OwnInv, LifeInv
  <2>6. HeldInv(s)'
    BY <1>1, <2>2, <2>3, <2>4, <2>5 DEF OwnInv, HeldInv, TypeOK
  <2> HIDE DEF x, y
  <2>7. LifeInv(s)'
    BY <1>1, <2>1, <2>2, <2>3, <2>4 DEF OwnInv, LifeInv, x, y
  <2>8. RetiredInv(s)' /\ LookInv(s)'
    BY <2>2, <2>4 DEF RetiredInv, LookInv, x, y
  <2>9. BoundInv(s)'
    BY <1>1, <2>2, <2>3, <2>5 DEF OwnInv, BoundInv, Target, Timely, x, y
  <2>10. AliveInv(s)' /\ SpeakInv(s)'
    BY <1>1, <2>2, <2>3 DEF OwnInv, AliveInv, Astray, Target, NoStall, SpeakInv, x, y
  <2> QED BY <2>6, <2>7, <2>8, <2>9, <2>10 DEF OwnInv
<1> QED BY <1>2, <1>3, <1>4, <1>5, <1>6, <1>7, BindQuiet DEF BindMoves

LEMMA CloseOwn ==
  ASSUME ShellInv, NEW s \in Shells, CloseMoves(s)
  PROVE  OwnInv(s)'
<1> DEFINE x == shell[s]
           y == shell'[s]
<1>1. /\ OwnInv(s) /\ x \in Shell /\ None \notin Names /\ s \in Names /\ shell \in [Shells -> Shell]
      /\ TypeOK
  BY ShellAssumption DEF ShellInv, TypeOK, Names
<1>2. CASE AskClose(s) \/ GiveUp(s)
  <2>1. /\ y.pc = x.pc /\ y.name = x.name /\ y.ready = x.ready /\ y.bind = x.bind /\ y.want = x.want
        /\ y.retired = x.retired /\ y.sending = x.sending
        /\ \/ y.clean = "runtime" /\ y.cut = x.cut /\ x.clean = "no" /\ x.pc # "new"
           \/ y.clean = "done" /\ y.cut /\ x.clean # "no"
    <3>1. CASE AskClose(s)
      <4>1. y = [x EXCEPT !.clean = "runtime"] /\ x.clean = "no" /\ x.pc # "new"
        BY <1>1, <3>1 DEF AskClose, Becomes
      <4> QED BY <1>1, <4>1 DEF Shell
    <3>2. CASE GiveUp(s)
      <4>1. y = [x EXCEPT !.clean = "done", !.cut = TRUE] /\ x.clean # "no"
        BY <1>1, <3>2 DEF GiveUp, Becomes
      <4> QED BY <1>1, <4>1 DEF Shell
    <3> QED BY <1>2, <3>1, <3>2
  <2>2. UNCHANGED <<scenario, entry, mapping, record, lease, members, binding, outbound, stray>>
    BY <1>2 DEF AskClose, GiveUp, store, history
  <2>3. x.pc # "new"
    BY <1>1, <2>1 DEF OwnInv, LifeInv, Fresh
  <2> HIDE DEF x, y
  <2>4. LifeInv(s)'
    BY <1>1, <2>1, <2>2, <2>3 DEF OwnInv, LifeInv, x, y
  <2>5. RetiredInv(s)' /\ LookInv(s)'
    BY <1>1, <2>1, <2>2 DEF OwnInv, RetiredInv, LookInv, Target, x, y
  <2>6. AliveInv(s)' /\ SpeakInv(s)' /\ HeldInv(s)'
    BY <1>1, <2>1, <2>2 DEF OwnInv, AliveInv, Astray, Target, NoStall, SpeakInv, HeldInv, x, y
  <2>7. BoundInv(s)'
    BY <1>1, <2>1, <2>2 DEF OwnInv, BoundInv, Target, Timely, x, y
  <2> QED BY <2>4, <2>5, <2>6, <2>7 DEF OwnInv
<1>3. CASE CloseRuntime(s)
  <2>1. /\ y = [x EXCEPT !.clean = "retire", !.ready = FALSE,
                         !.transport = IF @ = "open" THEN "closed" ELSE @]
        /\ x.clean = "runtime" /\ x.bind = "idle"
    BY <1>1, <1>3 DEF CloseRuntime, Becomes
  <2>2. /\ y.pc = x.pc /\ y.name = x.name /\ ~y.ready /\ y.bind = "idle" /\ y.clean = "retire"
        /\ y.retired = x.retired /\ y.sending = x.sending /\ y.cut = x.cut
    BY <1>1, <2>1 DEF Shell
  <2>3. UNCHANGED <<scenario, entry, mapping, record, lease, members, outbound>>
    BY <1>3 DEF CloseRuntime
  <2>4. x.pc # "new" /\ ~x.retired
    BY <1>1, <2>1 DEF OwnInv, LifeInv, RetiredInv, Fresh
  <2>8. HeldInv(s)'
    <3>1. s # None /\ Detached(s)
      BY <1>1, <1>3 DEF CloseRuntime
    <3>2. ASSUME NEW n \in Names, binding'[n] = s, y.pc # "crashed" PROVE n \in stray'
      <4>1. binding[n] = s /\ stray \subseteq stray' /\ (x.ready /\ x.name = n => n \in stray')
        BY <1>1, <3>1, <3>2, DetachedOwn
      <4> QED BY <1>1, <2>2, <3>2, <4>1 DEF OwnInv, HeldInv
    <3> QED BY <1>1, <2>3, <3>2 DEF OwnInv, HeldInv
  <2> HIDE DEF x, y
  <2>5. LifeInv(s)'
    BY <1>1, <2>1, <2>2, <2>3, <2>4 DEF OwnInv, LifeInv, x, y
  <2>6. RetiredInv(s)' /\ LookInv(s)' /\ BoundInv(s)'
    BY <2>2, <2>4 DEF RetiredInv, LookInv, BoundInv, x, y
  <2>7. AliveInv(s)' /\ SpeakInv(s)'
    BY <1>1, <2>2, <2>3 DEF OwnInv, AliveInv, Astray, Target, NoStall, SpeakInv, x, y
  <2> QED BY <2>5, <2>6, <2>7, <2>8 DEF OwnInv
<1>4. CASE Retire(s)
  <2>1. /\ y = [x EXCEPT !.clean = "done", !.cut = TRUE, !.retired = (x.name # None), !.name = None]
        /\ x.clean = "retire"
    BY <1>1, <1>4 DEF Retire, Becomes
  <2>2. /\ y.pc = x.pc /\ y.name = None /\ y.ready = x.ready /\ y.bind = x.bind /\ y.clean = "done"
        /\ y.cut /\ y.retired = (x.name # None)
    BY <1>1, <2>1 DEF Shell
  <2>3. /\ UNCHANGED <<binding, stray>>
        /\ x.name # None => ~x.cut /\ record'[s] = None /\ s \notin lease'
    BY <1>1, <1>4 DEF Retire, history, TypeOK
  <2>4. x.pc # "new" /\ x.bind = "idle" /\ ~x.ready
    BY <1>1, <2>1 DEF OwnInv, LifeInv, Fresh
  <2>7. x.pc # "crashed"
    BY <1>1, <2>1 DEF OwnInv, LifeInv
  <2>8. \A n \in Names : binding[n] = s => n \in stray
    BY <1>1, <2>4, <2>7 DEF OwnInv, HeldInv
  <2>9. HeldInv(s)'
    <3>1. \A n \in Names : s \in members'[n] => s \in members[n] /\ (x.name = None \/ n # record[s])
      BY <1>1, <1>4 DEF Retire, TypeOK
    <3>2. x.name = None => record'[s] = record[s]
      BY <1>4 DEF Retire
    <3> QED BY <1>1, <2>3, <2>8, <3>1, <3>2 DEF OwnInv, HeldInv
  <2> HIDE DEF x, y
  <2>5. LifeInv(s)' /\ LookInv(s)' /\ AliveInv(s)' /\ BoundInv(s)' /\ SpeakInv(s)'
    BY <1>1, <2>2, <2>4 DEF LifeInv, LookInv, AliveInv, BoundInv, SpeakInv, y
  <2>6. RetiredInv(s)'
    BY <2>2, <2>3, <2>4, <2>8 DEF RetiredInv, y
  <2> QED BY <2>5, <2>6, <2>9 DEF OwnInv
<1>5. CASE Crash(s)
  <2>1. y = [x EXCEPT !.pc = "crashed", !.cut = TRUE, !.bind = "idle", !.want = None,
                      !.ready = FALSE, !.clean = "done", !.transport = "closed",
                      !.sending = FALSE]
    BY <1>1, <1>5 DEF Crash, Becomes
  <2>2. /\ y.pc = "crashed" /\ y.name = x.name /\ ~y.ready /\ y.bind = "idle" /\ y.clean = "done"
        /\ y.cut /\ y.retired = x.retired /\ ~y.sending
    BY <1>1, <2>1 DEF Shell
  <2>3. UNCHANGED <<record, lease, members, binding, stray>>
    BY <1>5 DEF Crash, store, history
  <2> HIDE DEF x, y
  <2>4. LifeInv(s)' /\ LookInv(s)' /\ AliveInv(s)' /\ BoundInv(s)' /\ SpeakInv(s)'
    BY <1>1, <2>2 DEF LifeInv, LookInv, AliveInv, BoundInv, SpeakInv, y
  <2>5. RetiredInv(s)' /\ HeldInv(s)'
    BY <1>1, <2>2, <2>3 DEF OwnInv, RetiredInv, HeldInv, x, y
  <2> QED BY <2>4, <2>5 DEF OwnInv
<1> QED BY <1>2, <1>3, <1>4, <1>5 DEF CloseMoves

LEMMA ToolOwn ==
  ASSUME ShellInv, NEW s \in Shells, ToolMoves(s)
  PROVE  OwnInv(s)'
<1> DEFINE x == shell[s]
           y == shell'[s]
<1>1. /\ OwnInv(s) /\ x \in Shell /\ None \notin Names /\ shell \in [Shells -> Shell] /\ TypeOK
  BY ShellAssumption DEF ShellInv, TypeOK
<1>2. /\ y.pc = x.pc /\ y.name = x.name /\ y.ready = x.ready /\ y.bind = x.bind /\ y.want = x.want
      /\ y.retired = x.retired /\ y.clean = x.clean /\ y.cut = x.cut
      /\ y.pc = "new" => y = x
      /\ y.sending => x.sending \/ x.name \in outbound'
  <2>1. CASE SendMarks(s)
    <3>1. /\ y = [x EXCEPT !.sending = TRUE] /\ x.pc = "up" /\ x.name \in outbound'
      BY <1>1, <2>1 DEF SendMarks, Serving, Becomes
    <3> QED BY <1>1, <3>1 DEF Shell
  <2>2. CASE Sends(s)
    <3>1. y = [x EXCEPT !.sending = FALSE] /\ x.sending
      BY <1>1, <2>2 DEF Sends, Becomes
    <3>2. x.pc # "new"
      BY <1>1, <3>1 DEF OwnInv, LifeInv, Fresh
    <3> QED BY <1>1, <3>1, <3>2 DEF Shell
  <2>3. CASE ClaimTasks(s) \/ LeaseLapses(s) \/ Refresh(s)
    BY <2>3 DEF ClaimTasks, LeaseLapses, Refresh
  <2> QED BY <2>1, <2>2, <2>3 DEF ToolMoves
<1>3. /\ UNCHANGED <<scenario, entry, mapping, record, members, binding, stray>>
      /\ outbound \subseteq outbound'
  BY DEF ToolMoves, SendMarks, Sends, ClaimTasks, LeaseLapses, Refresh, store, history
<1>4. /\ s \in lease' /\ s \notin lease => ~x.cut
      /\ s \in lease /\ s \notin lease' => x.cut \/ "stall" \in scenario.events
  BY DEF ToolMoves, SendMarks, Sends, ClaimTasks, LeaseLapses, Refresh, store, Gone
<1> HIDE DEF x, y
<1>5. LifeInv(s)'
  BY <1>1, <1>2, <1>3 DEF OwnInv, LifeInv, x, y
<1>6. RetiredInv(s)'
  BY <1>1, <1>2, <1>3, <1>4 DEF OwnInv, RetiredInv, LifeInv, x, y
<1>7. LookInv(s)' /\ BoundInv(s)'
  BY <1>1, <1>2, <1>3 DEF OwnInv, LookInv, BoundInv, Target, Timely, x, y
<1>8. AliveInv(s)' /\ HeldInv(s)'
  BY <1>1, <1>2, <1>3, <1>4 DEF OwnInv, AliveInv, Astray, Target, NoStall, HeldInv, x, y
<1>9. SpeakInv(s)'
  BY <1>1, <1>2, <1>3 DEF OwnInv, SpeakInv, x, y
<1> QED BY <1>5, <1>6, <1>7, <1>8, <1>9 DEF OwnInv

\* The steps of one shell are no concern of the invariants of another.
LEMMA OthersStep ==
  ASSUME ShellInv, NEW s \in Shells, NEW t \in Shells, t # s,
         StartMoves(s) \/ BindMoves(s) \/ CloseMoves(s) \/ ToolMoves(s)
  PROVE  OwnInv(t)'
<1>1. /\ TypeOK /\ None \notin Names /\ s \in Names /\ scenario.runtime[s] \in Runtimes
      /\ shell[s].name \in Names \cup {None} /\ shell[s].want \in Names \cup {None}
  <2>1. TypeOK /\ None \notin Names /\ s \in Names /\ scenario.runtime[s] \in Runtimes
    BY ShellAssumption DEF ShellInv, TypeOK, Names
  <2> QED BY <2>1 DEF TypeOK, Shell
<1>2. shell'[t] = shell[t]
  BY <1>1, StartBecomes, BindBecomes, CloseBecomes, ToolBecomes, ShellTyped
<1>3. scenario' = scenario /\ outbound \subseteq outbound' /\ stray \subseteq stray'
  BY DEF StartMoves, BindMoves, CloseMoves, ToolMoves, Register, RegisterFails, Connect,
         ConnectFails, Bind, BindAdapter, BindCloses, BindMaps, BindLooks, BindAdopts,
         BindAttaches, BindFails, AskClose, CloseRuntime, Retire, GiveUp, SendMarks, Sends,
         ClaimTasks, Crash, LeaseLapses, Refresh, Detached, store, history
<1>4. record'[t] = record[t] /\ (t \in lease' <=> t \in lease)
  BY <1>1 DEF StartMoves, BindMoves, CloseMoves, ToolMoves, Register, RegisterFails, Connect,
         ConnectFails, Bind, BindAdapter, BindCloses, BindMaps, BindLooks, BindAdopts,
         BindAttaches, BindFails, AskClose, CloseRuntime, Retire, GiveUp, SendMarks, Sends,
         ClaimTasks, Crash, LeaseLapses, Refresh, store, Registered, AdoptIdentity, TypeOK
<1>5. ASSUME NEW n \in Names PROVE t \in members'[n] <=> t \in members[n]
  <2>1. CASE BindAdopts(s)
    BY <1>1, <2>1 DEF BindAdopts, AdoptIdentity, TypeOK
  <2>2. CASE Retire(s)
    BY <1>1, <2>2 DEF Retire, TypeOK
  <2>3. CASE Register(s) \/ RegisterFails(s)
    BY <1>1, <2>3 DEF Register, RegisterFails, Registered, TypeOK
  <2> QED BY <2>1, <2>2, <2>3
          DEF StartMoves, BindMoves, CloseMoves, ToolMoves, Connect,
              ConnectFails, Bind, BindAdapter, BindCloses, BindMaps, BindLooks,
              BindAttaches, BindFails, AskClose, CloseRuntime, GiveUp, SendMarks, Sends,
              ClaimTasks, Crash, LeaseLapses, Refresh, store
<1>6. ASSUME NEW n \in Names, binding'[n] = t PROVE binding[n] = t
  <2>1. t # None
    BY <1>1 DEF Names
  <2>2. CASE BindCloses(s) \/ CloseRuntime(s)
    BY <1>6, <2>1, <2>2 DEF BindCloses, CloseRuntime, Detached
  <2>3. CASE BindAttaches(s) \/ BindFails(s)
    BY <1>1, <1>6, <2>1, <2>3 DEF BindAttaches, BindFails, TypeOK
  <2> QED BY <1>6, <2>2, <2>3
          DEF StartMoves, BindMoves, CloseMoves, ToolMoves, Register, RegisterFails, Connect,
              ConnectFails, Bind, BindAdapter, BindMaps, BindLooks, BindAdopts,
              AskClose, Retire, GiveUp, SendMarks, Sends,
              ClaimTasks, Crash, LeaseLapses, Refresh, store
<1>7. ASSUME NEW r \in Runtimes, mapping[r] # None PROVE mapping'[r] = mapping[r]
  <2>1. CASE BindMaps(s)
    BY <1>1, <1>7, <2>1 DEF BindMaps, TypeOK
  <2> QED BY <2>1
          DEF StartMoves, BindMoves, CloseMoves, ToolMoves, Register, RegisterFails, Connect,
              ConnectFails, Bind, BindAdapter, BindCloses, BindLooks, BindAdopts,
              BindAttaches, BindFails, AskClose, CloseRuntime, Retire, GiveUp, SendMarks, Sends,
              ClaimTasks, Crash, LeaseLapses, Refresh, store
<1>8. ASSUME NEW n \in Names, entry[n] = None, n # s \/ (NoStall /\ n = shell[t].name)
      PROVE  entry'[n] = None
  <2>1. CASE n = s
    <3>1. shell[s].pc # "new" /\ (shell[s].pc = "describe" => shell[s].cut)
      BY <1>8, <2>1 DEF ShellInv, NamedInv
    <3>2. ~(Register(s) \/ RegisterFails(s) \/ Connect(s))
      BY <3>1 DEF Register, RegisterFails, Connect
    <3>3. CASE BindAdopts(s)
      BY <1>1, <1>8, <3>3 DEF BindAdopts, AdoptIdentity, Adoptable, TypeOK
    <3> QED BY <1>8, <3>2, <3>3
            DEF StartMoves, BindMoves, CloseMoves, ToolMoves,
                ConnectFails, Bind, BindAdapter, BindCloses, BindMaps, BindLooks,
                BindAttaches, BindFails, AskClose, CloseRuntime, Retire, GiveUp, SendMarks, Sends,
                ClaimTasks, Crash, LeaseLapses, Refresh, store
  <2>2. CASE n # s
    <3>1. CASE BindAdopts(s)
      BY <1>1, <1>8, <3>1 DEF BindAdopts, AdoptIdentity, Adoptable, TypeOK
    <3>2. CASE Register(s) \/ RegisterFails(s) \/ Connect(s)
      BY <1>1, <1>8, <2>2, <3>2 DEF Register, RegisterFails, Registered, Connect, TypeOK
    <3> QED BY <1>8, <3>1, <3>2
            DEF StartMoves, BindMoves, CloseMoves, ToolMoves,
                ConnectFails, Bind, BindAdapter, BindCloses, BindMaps, BindLooks,
                BindAttaches, BindFails, AskClose, CloseRuntime, Retire, GiveUp, SendMarks, Sends,
                ClaimTasks, Crash, LeaseLapses, Refresh, store
  <2> QED BY <2>1, <2>2
<1>9. t \in Names
  BY DEF Names
<1>10. /\ entry[t] = None => entry'[t] = None
       /\ NoStall /\ shell[t].name \in Names /\ entry[shell[t].name] = None =>
            entry'[shell[t].name] = None
  BY <1>8, <1>9
<1> QED BY <1>2, <1>3, <1>4, <1>5, <1>6, <1>7, <1>10, OthersKeep

-----------------------------------------------------------------------------
(***************************************************************************)
(* The steps that are no shell's own.                                      *)
(***************************************************************************)

LEMMA PeerStep ==
  ASSUME ShellInv, NEW n \in Names, PeerMoves(n), NEW t \in Shells
  PROVE  OwnInv(t)'
<1>1. /\ UNCHANGED <<scenario, shell, entry, record, lease, members, mapping>>
  BY DEF PeerMoves, Deliver, Acknowledge, MarkerLapses, HeartbeatLapses, BindingLapses
<1>2. ASSUME NEW k \in Names, binding'[k] = t PROVE binding[k] = t /\ (k \in stray => k \in stray')
  <2>1. t # None /\ binding \in [Names -> Shells \cup {None}]
    BY ShellAssumption DEF ShellInv, TypeOK, Names
  <2> QED BY <1>2, <2>1
          DEF PeerMoves, Deliver, Acknowledge, MarkerLapses, HeartbeatLapses, BindingLapses, history
<1>3. shell[t].sending /\ ~shell[t].cut /\ shell[t].name \in outbound => shell[t].name \in outbound'
  BY DEF PeerMoves, Deliver, Acknowledge, MarkerLapses, HeartbeatLapses, BindingLapses
<1> QED BY <1>1, <1>2, <1>3, OthersKeep

LEMMA PrepareStep ==
  ASSUME ShellInv, NEW r \in Runtimes, NEW n \in Names, PrepareContinuity(r, n), NEW t \in Shells
  PROVE  OwnInv(t)'
<1>1. UNCHANGED <<scenario, shell, entry, record, lease, members, binding, mapping, outbound, stray>>
  BY DEF PrepareContinuity, store, history
<1> QED BY <1>1, OthersKeep

\* A plan is not applied to a name a live shell serves or is about to attach to.
LEMMA ApplyStep ==
  ASSUME ShellInv, ApplyContinuity, NEW t \in Shells
  PROVE  OwnInv(t)'
<1> DEFINE x == shell[t]
           r == scenario.runtime[t]
<1>1. /\ UNCHANGED <<scenario, entry, record, lease, members, heartbeat, binding, inbox, outbound, shell, stray>>
      /\ plan # None
  BY DEF ApplyContinuity, history
<1>2. /\ OwnInv(t) /\ x \in Shell /\ r \in Runtimes /\ None \notin Names /\ t # None
      /\ plan \in Plan /\ "operator" \in scenario.events /\ mapping \in [Runtimes -> Names \cup {None}]
      /\ binding \in [Names -> Shells \cup {None}]
  BY <1>1, ShellAssumption DEF ShellInv, PlanInv, TypeOK, Names
<1>3. plan.target \in Names /\ plan.runtime \in Runtimes /\ plan.targetEntry # None
  BY <1>2 DEF Plan
<1>4. \/ mapping'[r] = mapping[r]
      \/ mapping'[r] = plan.target /\ mapping[r] = plan.source /\ Applicable(plan)
  BY <1>2, <1>3 DEF ApplyContinuity, Applicable
<1>5. LifeInv(t)' /\ HeldInv(t)' /\ RetiredInv(t)' /\ SpeakInv(t)'
  BY <1>1, <1>2 DEF OwnInv, LifeInv, HeldInv, RetiredInv, SpeakInv
<1>9. AliveInv(t)'
  <2>1. Astray(t) => Astray(t)'
    <3>1. ASSUME Astray(t) PROVE mapping'[r] # x.name /\ mapping'[r] # None
      BY <1>2, <1>3, <1>4, <3>1 DEF Astray, Target, Applicable
    <3> QED BY <1>1, <3>1 DEF Astray, Target
  <2> QED BY <1>1, <1>2, <2>1 DEF OwnInv, AliveInv, NoStall
<1>6. LookInv(t)'
  BY <1>1, <1>2, <1>3, <1>4 DEF OwnInv, LookInv, Target
<1>7. ASSUME mapping[r] = x.name, x.name \in Names, Occupied(x.name)
      PROVE  mapping'[r] = x.name
  <2>1. CASE mapping'[r] = mapping[r]
    BY <1>7, <2>1
  <2>2. CASE mapping'[r] = plan.target /\ mapping[r] = plan.source /\ Applicable(plan)
    <3>1. plan.source # None /\ plan.source = x.name
      BY <1>2, <1>7, <2>2
    <3>2. plan.source # plan.target => ~Occupied(x.name)
      BY <2>2, <3>1 DEF Applicable
    <3> QED BY <1>7, <2>2, <3>1, <3>2
  <2> QED BY <1>4, <2>1, <2>2
<1>8. BoundInv(t)'
  <2>1. ASSUME Timely, x.bind = "attach", ~x.cut PROVE mapping'[r] = x.name
    <3>1. mapping[r] = x.name /\ x.name \in Names
      BY <1>2, <2>1 DEF OwnInv, BoundInv, LifeInv, Target
    <3>2. t \in lease /\ t \in members[x.name]
      BY <1>2, <2>1, <3>1 DEF OwnInv, AliveInv, Astray, NoStall, Timely
    <3>3. Occupied(x.name)
      BY <3>2 DEF Occupied
    <3> QED BY <1>7, <3>1, <3>3
  <2>2. ASSUME Timely, x.ready, binding[x.name] = t PROVE mapping'[r] = x.name
    <3>1. mapping[r] = x.name /\ x.name \in Names
      BY <1>2, <2>2 DEF OwnInv, BoundInv, LifeInv, Target
    <3>2. Occupied(x.name)
      BY <1>2, <2>2 DEF Occupied
    <3> QED BY <1>7, <3>1, <3>2
  <2> QED BY <1>1, <2>1, <2>2 DEF BoundInv, Target, Timely
<1> QED BY <1>5, <1>6, <1>8, <1>9 DEF OwnInv

-----------------------------------------------------------------------------
(***************************************************************************)
(* The invariant is inductive.                                             *)
(***************************************************************************)

LEMMA ShellInit == Init => ShellInv
<1> SUFFICES ASSUME Init PROVE ShellInv
  OBVIOUS
<1>1. /\ Shells \subseteq Names /\ Legacy \subseteq Names /\ None \notin Names
  BY ShellAssumption DEF Names
<1>2. Fresh \in Shell
  BY DEF Fresh, Shell
<1>3. TypeOK
  BY <1>1, <1>2 DEF Init, TypeOK
<1>4. ASSUME NEW s \in Shells PROVE OwnInv(s)
  <2>1. /\ shell[s] = Fresh /\ entry[s] = None /\ record[s] = None
        /\ \A n \in Names : s \notin members[n] /\ binding[n] # s
    <3>1. s \in Names /\ s \notin Legacy /\ s # None
      BY <1>1, ShellAssumption
    <3> QED BY <3>1 DEF Init
  <2>2. /\ Fresh.clean = "no" /\ Fresh.pc = "new" /\ Fresh.bind = "idle" /\ ~Fresh.ready
        /\ ~Fresh.retired /\ Fresh.name = None /\ ~Fresh.sending
    BY DEF Fresh
  <2> HIDE DEF Fresh
  <2> QED BY <1>1, <2>1, <2>2
          DEF OwnInv, LifeInv, HeldInv, RetiredInv, LookInv, AliveInv, BoundInv, SpeakInv
<1>5. NamedInv
  <2>1. \A s \in Shells : shell[s].name = None
    BY SMTT(40) DEF Init, Fresh
  <2> QED BY <1>1, <2>1 DEF NamedInv
<1> QED BY <1>3, <1>4, <1>5 DEF Init, ShellInv, PlanInv

\* Every message is preceded by its marker, and a marker that goes makes its name silent.
LEMMA SpokenStep ==
  ASSUME ShellInv, [Next]_vars
  PROVE  spoken' \subseteq outbound' \cup silent'
<1>1. spoken \subseteq outbound \cup silent
  BY DEF ShellInv
<1>2. ASSUME NEW s \in Shells, Sends(s) PROVE spoken' \subseteq outbound' \cup silent'
  <2>1. shell[s] \in Shell /\ SpeakInv(s)
    BY DEF ShellInv, TypeOK, OwnInv
  <2>2. shell[s].name \in Names
    BY <1>2, <2>1 DEF Shell, Sends
  <2> QED BY <1>1, <1>2, <2>1, <2>2 DEF Sends, SpeakInv, store
<1>3. ASSUME NEW s \in Shells, SendMarks(s) PROVE spoken' \subseteq outbound' \cup silent'
  BY <1>1, <1>3 DEF SendMarks, history
<1>4. ASSUME NEW n \in Names, MarkerLapses(n) PROVE spoken' \subseteq outbound' \cup silent'
  BY <1>1, <1>4 DEF MarkerLapses
<1> QED BY ZenonT(60), <1>1, <1>2, <1>3, <1>4
        DEF Next, vars, store, history, Register, RegisterFails, Connect,
            ConnectFails, Bind, BindAdapter, BindCloses, BindMaps, BindLooks, BindAdopts,
            BindAttaches, BindFails, AskClose, CloseRuntime, Retire, GiveUp,
            ClaimTasks, Crash, LeaseLapses, Refresh, Deliver, Acknowledge, HeartbeatLapses,
            BindingLapses, PrepareContinuity, ApplyContinuity

\* What a step does to a shell's name and to how far it has started.
LEMMA StartedStays ==
  ASSUME ShellInv, NEW s \in Shells,
         StartMoves(s) \/ BindMoves(s) \/ CloseMoves(s) \/ ToolMoves(s)
  PROVE  /\ shell[s].pc # "new" =>
              /\ shell'[s].pc # "new"
              /\ shell'[s].pc = "describe" => shell[s].pc = "describe"
              /\ shell[s].cut => shell'[s].cut
         /\ \/ shell'[s].name \in {shell[s].name, None, s}
            \/ BindAdopts(s) /\ Adoptable(s) /\ shell'[s].name = shell[s].want
<1> DEFINE x == shell[s]
           y == shell'[s]
<1>1. x \in Shell /\ shell \in [Shells -> Shell] /\ LifeInv(s)
  BY DEF ShellInv, TypeOK, OwnInv
<1>2. CASE Register(s) \/ RegisterFails(s)
  <2>1. x.pc = "new" /\ x.name = None
    BY <1>1, <1>2 DEF Register, RegisterFails, LifeInv, Fresh
  <2>2. y = [x EXCEPT !.pc = "describe", !.name = s] \/
        y = [x EXCEPT !.pc = "failed", !.cut = TRUE, !.clean = "runtime"]
    BY <1>1, <1>2 DEF Register, RegisterFails, Becomes
  <2>3. y.name \in {s, None}
    BY <1>1, <2>1, <2>2 DEF Shell
  <2> QED BY <2>1, <2>3
<1>3. CASE Connect(s) \/ ConnectFails(s)
  <2>1. y = [x EXCEPT !.transport = "open", !.pc = IF x.clean = "no" THEN "up" ELSE "failed"] \/
        y = [x EXCEPT !.pc = "failed", !.clean = IF @ = "no" THEN "runtime" ELSE @]
    BY <1>1, <1>3 DEF Connect, ConnectFails, Becomes
  <2>2. y.name = x.name /\ y.pc \in {"up", "failed"} /\ y.cut = x.cut
    BY <1>1, <2>1 DEF Shell
  <2> QED BY <2>2
<1>4. CASE BindMoves(s) /\ ~(BindAdopts(s) /\ Adoptable(s))
  <2>1. y.name = x.name /\ y.pc = x.pc /\ y.cut = x.cut
    <3>1. CASE Bind(s)
      <4>1. y = [x EXCEPT !.bind = "adapter", !.binds = @ + 1]
        BY <1>1, <3>1 DEF Bind, Becomes
      <4> QED BY <1>1, <4>1 DEF Shell
    <3>2. CASE ~Bind(s)
      <4> DEFINE m == Target(s)
                 free == binding[x.name] = None
      <4>1. \/ y = [x EXCEPT !.bind = IF x.clean = "no" THEN "unbind" ELSE "idle"]
            \/ y = [x EXCEPT !.bind = "map", !.ready = FALSE]
            \/ y = [x EXCEPT !.bind = "look"]
            \/ y = [x EXCEPT !.want = m, !.bind = IF m = x.name THEN "attach" ELSE "adopt"]
            \/ y = [x EXCEPT !.bind = "idle", !.want = None]
            \/ y = [x EXCEPT !.bind = "idle", !.want = None, !.ready = free]
        BY <1>1, <1>4, <3>2 DEF BindMoves, BindAdapter, BindCloses, BindMaps, BindLooks,
               BindAdopts, BindAttaches, BindFails, Becomes, Target
      <4> HIDE DEF m, free
      <4> QED BY ZenonT(60), <1>1, <4>1 DEF Shell
    <3> QED BY <3>1, <3>2
  <2> QED BY <2>1
<1>5. CASE BindAdopts(s) /\ Adoptable(s)
  <2>1. y = [x EXCEPT !.bind = "attach", !.name = x.want, !.want = None] \/
        y = [x EXCEPT !.bind = "idle", !.want = None]
    BY <1>1, <1>5 DEF BindAdopts, Becomes
  <2>2. y.name \in {x.name, x.want} /\ y.pc = x.pc /\ y.cut = x.cut
    BY <1>1, <2>1 DEF Shell
  <2> QED BY <1>5, <2>2
<1>6. CASE CloseMoves(s)
  <2>1. y.name \in {x.name, None} /\ y.pc \in {x.pc, "crashed"} /\ (x.cut => y.cut)
    <3>1. CASE AskClose(s)
      <4>1. y = [x EXCEPT !.clean = "runtime"]
        BY <1>1, <3>1 DEF AskClose, Becomes
      <4> QED BY <1>1, <4>1 DEF Shell
    <3>2. CASE CloseRuntime(s)
      <4>1. y = [x EXCEPT !.clean = "retire", !.ready = FALSE,
                          !.transport = IF @ = "open" THEN "closed" ELSE @]
        BY <1>1, <3>2 DEF CloseRuntime, Becomes
      <4> QED BY <1>1, <4>1 DEF Shell
    <3>3. CASE Retire(s)
      <4>1. y = [x EXCEPT !.clean = "done", !.cut = TRUE, !.retired = (x.name # None), !.name = None]
        BY <1>1, <3>3 DEF Retire, Becomes
      <4> QED BY <1>1, <4>1 DEF Shell
    <3>4. CASE GiveUp(s)
      <4>1. y = [x EXCEPT !.clean = "done", !.cut = TRUE]
        BY <1>1, <3>4 DEF GiveUp, Becomes
      <4> QED BY <1>1, <4>1 DEF Shell
    <3>5. CASE Crash(s)
      <4>1. y = [x EXCEPT !.pc = "crashed", !.cut = TRUE, !.bind = "idle", !.want = None,
                          !.ready = FALSE, !.clean = "done", !.transport = "closed",
                          !.sending = FALSE]
        BY <1>1, <3>5 DEF Crash, Becomes
      <4> QED BY <1>1, <4>1 DEF Shell
    <3> QED BY <1>6, <3>1, <3>2, <3>3, <3>4, <3>5 DEF CloseMoves
  <2> QED BY <2>1
<1>7. CASE ToolMoves(s)
  <2>1. y = x \/ y = [x EXCEPT !.sending = TRUE] \/ y = [x EXCEPT !.sending = FALSE]
    BY <1>1, <1>7 DEF ToolMoves, SendMarks, Sends, ClaimTasks, LeaseLapses, Refresh, Becomes
  <2>2. y.name = x.name /\ y.pc = x.pc /\ y.cut = x.cut
    BY <1>1, <2>1 DEF Shell
  <2> QED BY <2>2
<1> QED BY <1>2, <1>3, <1>4, <1>5, <1>6, <1>7 DEF StartMoves

LEMMA PlanStep ==
  ASSUME ShellInv, [Next]_vars
  PROVE  PlanInv'
<1>1. PlanInv
  BY DEF ShellInv
<1> QED BY ZenonT(60), <1>1
        DEF PlanInv, Next, vars, store, Register, RegisterFails, Connect,
            ConnectFails, Bind, BindAdapter, BindCloses, BindMaps, BindLooks, BindAdopts,
            BindAttaches, BindFails, AskClose, CloseRuntime, Retire, GiveUp, SendMarks, Sends,
            ClaimTasks, Crash, LeaseLapses, Refresh, Deliver, Acknowledge, MarkerLapses,
            HeartbeatLapses, BindingLapses, PrepareContinuity, ApplyContinuity

\* A shell takes the name of another only by adopting it, and adopts no name whose owner is
\* still starting: that one's session is live under it.
LEMMA NamedStep ==
  ASSUME ShellInv, [Next]_vars
  PROVE  NamedInv'
<1>0. TypeOK /\ NamedInv /\ None \notin Names /\ Shells \subseteq Names
  BY ShellAssumption DEF ShellInv, Names
<1>1. ASSUME NEW u \in Shells, StartMoves(u) \/ BindMoves(u) \/ CloseMoves(u) \/ ToolMoves(u)
      PROVE  NamedInv'
  <2>1. \A t \in Shells : t # u => shell'[t] = shell[t]
    BY <1>0, <1>1, StartBecomes, BindBecomes, CloseBecomes, ToolBecomes, ShellTyped
  <2>2. scenario' = scenario
    BY <1>1 DEF StartMoves, BindMoves, CloseMoves, ToolMoves, Register, RegisterFails, Connect,
           ConnectFails, Bind, BindAdapter, BindCloses, BindMaps, BindLooks, BindAdopts,
           BindAttaches, BindFails, AskClose, CloseRuntime, Retire, GiveUp, SendMarks, Sends,
           ClaimTasks, Crash, LeaseLapses, Refresh, store
  <2>3. ASSUME NoStall, NEW s \in Shells, NEW t \in Shells, s # t, shell'[s].name = t
        PROVE  shell'[t].pc # "new" /\ (shell'[t].pc = "describe" => shell'[t].cut)
    <3>1. CASE shell[s].name = t
      <4>1. shell[t].pc # "new" /\ (shell[t].pc = "describe" => shell[t].cut)
        BY <1>0, <2>3, <3>1 DEF NamedInv
      <4>2. CASE t = u
        BY <1>1, <4>1, <4>2, StartedStays
      <4>3. CASE t # u
        BY <2>1, <4>1, <4>3
      <4> QED BY <4>2, <4>3
    <3>2. CASE shell[s].name # t
      <4>1. s = u
        BY <2>1, <2>3, <3>2
      <4>2. t # None
        BY <1>0
      <4>3. BindAdopts(s) /\ Adoptable(s) /\ t = shell[s].want
        BY <1>1, <2>3, <3>2, <4>1, <4>2, StartedStays
      <4>4. entry[t] # None /\ ~Occupied(t)
        BY <4>3 DEF Adoptable
      <4>5. shell[t].pc # "new"
        BY <4>4 DEF ShellInv, OwnInv, LifeInv
      <4>6. ASSUME shell[t].pc = "describe", ~shell[t].cut PROVE FALSE
        <5>1. shell[t].name = t
          BY <4>6 DEF ShellInv, OwnInv, LifeInv
        <5>2. t \in lease /\ t \in members[t]
          BY <1>0, <2>3, <4>6, <5>1 DEF ShellInv, OwnInv, AliveInv, Astray
        <5> QED BY <4>4, <5>2 DEF Occupied
      <4> QED BY <2>1, <2>3, <4>1, <4>5, <4>6
    <3> QED BY <3>1, <3>2
  <2> QED BY <2>2, <2>3 DEF NamedInv, NoStall
<1>2. CASE UNCHANGED <<scenario, shell>>
  BY <1>0, <1>2 DEF NamedInv, NoStall
<1> QED BY <1>1, <1>2
        DEF Next, StartMoves, BindMoves, CloseMoves, ToolMoves, vars, Deliver, Acknowledge,
            MarkerLapses, HeartbeatLapses, BindingLapses, PrepareContinuity, ApplyContinuity

LEMMA ShellStep == ShellInv /\ [Next]_vars => ShellInv'
<1> SUFFICES ASSUME ShellInv, [Next]_vars PROVE ShellInv'
  OBVIOUS
<1>1. ASSUME NEW t \in Shells PROVE OwnInv(t)'
  <2>1. ASSUME NEW s \in Shells, StartMoves(s) \/ BindMoves(s) \/ CloseMoves(s) \/ ToolMoves(s)
        PROVE  OwnInv(t)'
    <3>1. CASE t = s
      BY <2>1, <3>1, StartOwn, BindOwn, CloseOwn, ToolOwn
    <3>2. CASE t # s
      BY <2>1, <3>2, OthersStep
    <3> QED BY <3>1, <3>2
  <2>2. ASSUME NEW n \in Names, PeerMoves(n) PROVE OwnInv(t)'
    BY <2>2, PeerStep
  <2>3. ASSUME NEW r \in Runtimes, NEW n \in Names, PrepareContinuity(r, n) PROVE OwnInv(t)'
    BY <2>3, PrepareStep
  <2>4. CASE ApplyContinuity
    BY <2>4, ApplyStep
  <2>5. CASE UNCHANGED vars
    <3>1. UNCHANGED <<scenario, shell, entry, record, lease, members, binding, mapping, outbound, stray>>
      BY <2>5 DEF vars, store, history
    <3> QED BY <3>1, OthersKeep
  <2> QED BY <2>1, <2>2, <2>3, <2>4, <2>5
          DEF Next, StartMoves, BindMoves, CloseMoves, ToolMoves, PeerMoves
<1>2. \A t \in Shells : OwnInv(t)'
  BY <1>1
<1> QED BY <1>2, TypeStep, SpokenStep, PlanStep, NamedStep DEF ShellInv

\* ShellInv holds in every reachable state.
THEOREM ShellInvariant == Spec => []ShellInv
BY ShellInit, ShellStep, PTL DEF Spec

\* Every variable keeps its type: a bind that adopts always has a name to adopt.
THEOREM TypeCorrect == Spec => []TypeOK
<1>1. ShellInv => TypeOK
  BY DEF ShellInv
<1> QED BY <1>1, ShellInvariant, PTL

-----------------------------------------------------------------------------
(***************************************************************************)
(* What the invariant gives.                                               *)
(***************************************************************************)

\* A runtime whose dispatcher is attached serves the mailbox it is mapped to, whatever
\* other shells bind the same runtime and whatever plan the operator applies, as long as
\* no shell stalls where the operator acts.
THEOREM MailboxIsKept == Spec => []BoundRuntimeKeepsMailbox
<1>1. ShellInv => BoundRuntimeKeepsMailbox
  BY DEF ShellInv, OwnInv, BoundInv, BoundRuntimeKeepsMailbox, Target
<1> QED BY <1>1, ShellInvariant, PTL

\* closeCurrentSession leaves no session, in no name's set, no lease and no dispatcher of the
\* shell, even when a bind was in progress or an adoption's answer was lost; a runtime binding
\* only where the store's own answer to an attach or a detach was a failure.
THEOREM RetiredIsGone == Spec => []ClosedMeansRetired
<1>1. ShellInv => ClosedMeansRetired
  <2>1. None \notin Names
    BY ShellAssumption
  <2> QED BY <2>1 DEF ShellInv, OwnInv, HeldInv, RetiredInv, ClosedMeansRetired
<1> QED BY <1>1, ShellInvariant, PTL

\* Only an adoption takes a name off the registry, and adoptIdentity refuses a name with
\* an outbound marker; send_message writes the marker before it sends.
LEMMA EntryIsKept ==
  ASSUME ShellInv, [Next]_vars, NEW n \in spoken \ silent, entry[n] # None
  PROVE  entry'[n] # None
<1>1. TypeOK /\ n \in Names /\ n \in outbound /\ None \notin Names /\ Shells \subseteq Names
  BY ShellAssumption DEF ShellInv, TypeOK, Names
<1>2. ASSUME NEW s \in Shells, BindAdopts(s) PROVE entry'[n] # None
  <2>1. CASE ~Adoptable(s)
    BY <1>2, <2>1 DEF BindAdopts
  <2>2. CASE Adoptable(s)
    <3>1. shell[s].name # n
      BY <1>1, <2>2 DEF Adoptable, Quiet
    <3>2. entry' = [entry EXCEPT ![shell[s].want] = s, ![shell[s].name] = None]
      BY <1>2, <2>2 DEF BindAdopts, AdoptIdentity
    <3> QED BY <1>1, <3>1, <3>2 DEF TypeOK
  <2> QED BY <2>1, <2>2
<1>3. ASSUME NEW s \in Shells, Register(s) \/ RegisterFails(s) \/ Connect(s)
      PROVE  entry'[n] # None
  BY <1>1, <1>3 DEF Register, RegisterFails, Registered, Connect, TypeOK
<1> QED BY ZenonT(60), <1>2, <1>3
        DEF Next, vars, store, ConnectFails, Bind, BindAdapter, BindCloses, BindMaps, BindLooks,
            BindAttaches, BindFails, AskClose, CloseRuntime, Retire, GiveUp, SendMarks, Sends,
            ClaimTasks, Crash, LeaseLapses, Refresh, Deliver, Acknowledge, MarkerLapses,
            HeartbeatLapses, BindingLapses, PrepareContinuity, ApplyContinuity

\* No adoption gives up a name some message was sent from until its marker has expired:
\* replies that come before still find a registered agent.
THEOREM ReplyAddressIsKept == Spec => ReplyAddressKept
<1>1. ShellInv /\ [Next]_vars => [\A n \in spoken \ silent : entry[n] # None => entry'[n] # None]_vars
  BY EntryIsKept
<1> QED BY <1>1, ShellInvariant, PTL DEF Spec, ReplyAddressKept

-----------------------------------------------------------------------------
(***************************************************************************)
(* The dispatcher a shell starts: Activation, with variables of its own.   *)
(***************************************************************************)

\* A dispatcher with a ticket for an operation may still submit it, or, being the owner,
\* will make its record pending again: it has not submitted, and nobody else may.
Ticket(d, op) ==
  LET x == disp[d]
  IN  /\ x.rec # Nil /\ ~x.recovery /\ D!Op(x.rec) = op
      /\ \/ x.pc \in {"activate", "start"}
         \/ x.pc \in {"settle", "save"} /\ owner = d /\ D!Deferred(x.out)

Tickets(op) == {d \in Dispatchers : Ticket(d, op)}
Due(op) ==
  IF activation # Nil /\ activation.state = "pending" /\ D!Op(activation) = op THEN 1 ELSE 0

Working == {"activate", "start", "settle", "save"}

\* What a dispatcher has in hand at each step of its tick.
StageInv(d) ==
  LET x == disp[d]
  IN  /\ x.pc \in Working \cup {"create", "gate"} => x.pend # {}
      /\ x.pc = "create" => x.rec = Nil
      /\ x.pc \in Working \cup {"gate"} => x.rec # Nil
      /\ x.pc \in Working => (x.recovery <=> x.rec.state # "pending")
      /\ x.pc = "start" => ~x.recovery
      /\ x.pc \in {"settle", "save"} => x.out \in D!Outcome

\* The record an owner has read is the record that is stored.
CopyInv(d) ==
  LET x == disp[d]
  IN  owner = d =>
        /\ x.pc \in {"clear", "check", "create", "gate"} => activation = x.rec
        /\ x.pc \in Working /\ x.recovery => activation = x.rec
        /\ x.pc \in Working /\ ~x.recovery => activation = [x.rec EXCEPT !.state = "submitting"]

\* Only Codex remembers a submission before it makes it.
KnownInv ==
  disturbance.adapter = "pi" => \A d \in Dispatchers, op \in D!Operation : known[d][op] # "pending"

\* Every record made for an operation is good for one submission: made, on its way, in a
\* dispatcher's hands, or due.
TicketInv ==
  \A op \in D!Operation :
    submissions[op] + late[op] + Cardinality(Tickets(op)) + Due(op) <= created[op]

DispatcherInv ==
  /\ D!ActivationAssumption
  /\ D!TypeOK
  /\ KnownInv
  /\ \A d \in Dispatchers : StageInv(d) /\ CopyInv(d)
  /\ TicketInv

-----------------------------------------------------------------------------
(***************************************************************************)
(* Types.                                                                  *)
(***************************************************************************)

LEMMA DispatcherTyped ==
  ASSUME D!TypeOK, NEW d \in Dispatchers, NEW v \in D!Dispatcher, D!Becomes(d, v)
  PROVE  disp' \in [Dispatchers -> D!Dispatcher] /\ disp'[d] = v
         /\ \A e \in Dispatchers : e # d => disp'[e] = disp[e]
BY DEF D!TypeOK, D!Becomes

LEMMA Applied ==
  ASSUME D!TypeOK, NEW d \in Dispatchers, NEW v, D!Becomes(d, v)
  PROVE  disp'[d] = v /\ disp[d] \in D!Dispatcher
BY DEF D!TypeOK, D!Becomes

\* What a tick ends in.
LEMMA TickEndTyped ==
  ASSUME NEW x \in D!Dispatcher
  PROVE  /\ D!NextTick(x) \in D!Dispatcher /\ D!NextTick(x).pc = "refresh"
         /\ D!Stopped(x) \in D!Dispatcher /\ D!Stopped(x).pc = "detach"
<1>1. D!NextTick(x) \in D!Dispatcher /\ D!NextTick(x).pc = "refresh"
  BY DEF D!NextTick, D!Dispatcher
<1> DEFINE y == D!NextTick(x)
<1>2. D!Stopped(x) = [y EXCEPT !.pc = "detach", !.stop = TRUE]
  BY DEF D!Stopped
<1> HIDE DEF y
<1>3. D!Stopped(x) \in D!Dispatcher /\ D!Stopped(x).pc = "detach"
  BY <1>1, <1>2 DEF D!Dispatcher, y
<1> QED BY <1>1, <1>3

LEMMA OffTyped == D!Off \in D!Dispatcher /\ D!Off.pc = "off"
BY DEF D!Off, D!Dispatcher

\* The fields of a dispatcher and the operation of its record.
LEMMA Fields ==
  ASSUME NEW x \in D!Dispatcher
  PROVE  /\ x.pend \subseteq Msgs /\ x.rec \in D!Record \cup {Nil} /\ x.recovery \in BOOLEAN
         /\ x.stop \in BOOLEAN /\ x.waiting \in BOOLEAN
         /\ x.out \in D!Outcome \cup {Nil}
BY DEF D!Dispatcher

LEMMA OpTyped ==
  ASSUME NEW r \in D!Record
  PROVE  /\ D!Op(r) \in D!Operation /\ r.ids # {} /\ r.attempt \in 1..Maximum
         /\ D!Op(r).attempt = r.attempt
BY DEF D!Record, D!Operation, D!Op

\* A record with another state is a record of the same operation.
LEMMA StateTyped ==
  ASSUME NEW r \in D!Record,
         NEW s \in {"pending", "submitting", "accepted", "ambiguous", "exhausted"}
  PROVE  /\ [r EXCEPT !.state = s] \in D!Record /\ [r EXCEPT !.state = s].state = s
         /\ D!Op([r EXCEPT !.state = s]) = D!Op(r)
BY DEF D!Record, D!Op

\* The record after an outcome: the next attempt, due; or the same operation, due again
\* only if it was deferred without having been submitted.
LEMMA AfterTyped ==
  ASSUME D!ActivationAssumption, NEW x \in D!Dispatcher, x.rec # Nil, x.out \in D!Outcome, x.pend # {}
  PROVE  /\ D!After(x) \in D!Record
         /\ \/ /\ D!Op(D!After(x)) # D!Op(x.rec)
               /\ x.out = "completed"
            \/ /\ D!Op(D!After(x)) = D!Op(x.rec)
               /\ D!After(x).state = "pending" =>
                    D!Deferred(x.out) /\ (x.recovery => x.rec.state = "pending")
<1> DEFINE r == x.rec
<1>1. /\ r \in D!Record /\ x.out \in D!Outcome /\ x.pend \in (SUBSET Msgs) \ {{}}
      /\ Maximum \in Nat
  BY Fields DEF D!ActivationAssumption
<1>2. r.attempt \in 1..Maximum /\ D!Op(r).attempt = r.attempt
      /\ r.state \in {"pending", "submitting", "accepted", "ambiguous", "exhausted"}
  BY <1>1, OpTyped DEF D!Record
<1>3. CASE x.out \in {"started", "queued"}
  <2>1. D!After(x) = [r EXCEPT !.state = "accepted"]
    BY ONLY <1>3 DEF D!After, D!Deferred
  <2>2. /\ [r EXCEPT !.state = "accepted"] \in D!Record /\ [r EXCEPT !.state = "accepted"].state = "accepted"
        /\ D!Op([r EXCEPT !.state = "accepted"]) = D!Op(r)
    BY <1>1, StateTyped
  <2> QED BY <2>1, <2>2
<1>4. CASE x.out = "completed" /\ r.attempt < Maximum
  <2> DEFINE q == [ids |-> x.pend, attempt |-> r.attempt + 1, state |-> "pending"]
  <2>1. D!After(x) = q
    BY ONLY <1>4 DEF D!After, D!Deferred
  <2>2. r.attempt + 1 \in 1..Maximum
    BY <1>1, <1>2, <1>4
  <2>3. q \in D!Record /\ D!Op(q).attempt = r.attempt + 1
    BY <1>1, <2>2 DEF D!Record, D!Op
  <2>4. D!Op(q) # D!Op(r)
    BY <1>2, <2>3
  <2> QED BY <1>4, <2>1, <2>3, <2>4
<1>5. CASE x.out = "completed" /\ ~(r.attempt < Maximum)
  <2>1. D!After(x) = [r EXCEPT !.state = "exhausted"]
    BY ONLY <1>5 DEF D!After, D!Deferred
  <2>2. /\ [r EXCEPT !.state = "exhausted"] \in D!Record /\ [r EXCEPT !.state = "exhausted"].state = "exhausted"
        /\ D!Op([r EXCEPT !.state = "exhausted"]) = D!Op(r)
    BY <1>1, StateTyped
  <2> QED BY <2>1, <2>2
<1>6. CASE D!Deferred(x.out)
  <2> DEFINE s == IF x.recovery THEN r.state ELSE "pending"
  <2>1. D!After(x) = [r EXCEPT !.state = s]
    BY ONLY <1>6 DEF D!After, D!Deferred
  <2>2. s \in {"pending", "submitting", "accepted", "ambiguous", "exhausted"}
    BY <1>2
  <2>3. s = "pending" => (x.recovery => r.state = "pending")
    OBVIOUS
  <2> HIDE DEF s
  <2>4. /\ [r EXCEPT !.state = s] \in D!Record /\ [r EXCEPT !.state = s].state = s
        /\ D!Op([r EXCEPT !.state = s]) = D!Op(r)
    BY <1>1, <2>2, StateTyped
  <2> QED BY <1>6, <2>1, <2>3, <2>4
<1>7. CASE x.out = "ambiguous"
  <2>1. D!After(x) = [r EXCEPT !.state = "ambiguous"]
    BY ONLY <1>7 DEF D!After, D!Deferred
  <2>2. /\ [r EXCEPT !.state = "ambiguous"] \in D!Record /\ [r EXCEPT !.state = "ambiguous"].state = "ambiguous"
        /\ D!Op([r EXCEPT !.state = "ambiguous"]) = D!Op(r)
    BY <1>1, StateTyped
  <2> QED BY <2>1, <2>2
<1> QED BY <1>1, <1>3, <1>4, <1>5, <1>6, <1>7 DEF D!Outcome, D!Deferred

\* The steps of one dispatcher, by where they leave it.
EndsTick(d) ==
  \/ D!Attach(d) \/ D!Refresh(d) \/ D!RecoverExpired(d) \/ D!ReadPending(d) \/ D!Wait(d)
  \/ D!SaveOutcome(d) \/ D!Throws(d) \/ D!Detach(d) \/ D!Crash(d)
Flags(d) == D!BackoffEnds(d) \/ D!Close(d)
Prepares(d) == D!ReadRecord(d) \/ D!Clear(d) \/ D!Check(d) \/ D!Create(d) \/ D!Submit(d) \/ D!Settle(d)
Activates(d) ==
  \/ D!CodexLook(d) \/ D!CodexStart(d) \/ D!PiActivate(d) \/ D!OpenCodeLook(d)
  \/ D!OpenCodePrompt(d) \/ D!Unanswered(d)
Idle == {"off", "refresh", "detach", "recover", "pending", "current"}

LEMMA EndsTickBecomes ==
  ASSUME D!TypeOK, NEW d \in Dispatchers, EndsTick(d)
  PROVE  \E v \in D!Dispatcher : D!Becomes(d, v) /\ v.pc \in Idle
<1> DEFINE x == disp[d]
<1>1. x \in D!Dispatcher /\ waiting \in SUBSET Msgs
  BY DEF D!TypeOK
<1>2. /\ D!NextTick(x) \in D!Dispatcher /\ D!NextTick(x).pc = "refresh"
      /\ D!Stopped(x) \in D!Dispatcher /\ D!Stopped(x).pc = "detach"
      /\ D!Off \in D!Dispatcher /\ D!Off.pc = "off"
  BY <1>1, TickEndTyped, OffTyped
<1> HIDE DEF x
<1>3. /\ [x EXCEPT !.pc = "refresh"] \in D!Dispatcher /\ [x EXCEPT !.pc = "refresh"].pc = "refresh"
      /\ [x EXCEPT !.pc = "recover"] \in D!Dispatcher /\ [x EXCEPT !.pc = "recover"].pc = "recover"
      /\ [x EXCEPT !.pc = "pending"] \in D!Dispatcher /\ [x EXCEPT !.pc = "pending"].pc = "pending"
  BY <1>1 DEF D!Dispatcher
<1>4. /\ [x EXCEPT !.pc = "current", !.pend = waiting] \in D!Dispatcher
      /\ [x EXCEPT !.pc = "current", !.pend = waiting].pc = "current"
  BY <1>1 DEF D!Dispatcher
<1> HIDE DEF D!NextTick, D!Stopped, D!Off
<1>5. CASE D!Attach(d) \/ D!RecoverExpired(d)
  BY <1>3, <1>5 DEF D!Attach, D!RecoverExpired, D!Goes, x, Idle
<1>6. CASE D!Refresh(d)
  BY <1>2, <1>3, <1>6 DEF D!Refresh, x, Idle
<1>7. CASE D!ReadPending(d)
  BY <1>4, <1>7 DEF D!ReadPending, x, Idle
<1>8. CASE D!Wait(d) \/ D!SaveOutcome(d) \/ D!Throws(d) \/ D!Detach(d) \/ D!Crash(d)
  BY <1>2, <1>8 DEF D!Wait, D!SaveOutcome, D!Save, D!Throws, D!Detach, D!Crash, x, Idle
<1> QED BY <1>5, <1>6, <1>7, <1>8 DEF EndsTick

LEMMA FlagsBecomes ==
  ASSUME D!TypeOK, NEW d \in Dispatchers, Flags(d)
  PROVE  \E v \in D!Dispatcher :
           /\ D!Becomes(d, v) /\ v.pc = disp[d].pc /\ v.rec = disp[d].rec /\ v.pend = disp[d].pend
           /\ v.recovery = disp[d].recovery /\ v.out = disp[d].out
<1> DEFINE x == disp[d]
<1>1. x \in D!Dispatcher
  BY DEF D!TypeOK
<1>2. D!Becomes(d, [x EXCEPT !.waiting = FALSE]) \/ D!Becomes(d, [x EXCEPT !.stop = TRUE])
  BY DEF Flags, D!BackoffEnds, D!Close
<1> HIDE DEF x
<1>3. ASSUME NEW v, v = [x EXCEPT !.waiting = FALSE] \/ v = [x EXCEPT !.stop = TRUE]
      PROVE  /\ v \in D!Dispatcher /\ v.pc = x.pc /\ v.rec = x.rec /\ v.pend = x.pend
             /\ v.recovery = x.recovery /\ v.out = x.out
  BY <1>1, <1>3 DEF D!Dispatcher
<1> QED BY <1>2, <1>3 DEF x

LEMMA PreparesBecomes ==
  ASSUME DispatcherInv, NEW d \in Dispatchers, Prepares(d)
  PROVE  \E v \in D!Dispatcher : D!Becomes(d, v)
<1> DEFINE x == disp[d]
<1>1. x \in D!Dispatcher /\ activation \in D!Record \cup {Nil} /\ StageInv(d) /\ D!TypeOK
  BY DEF DispatcherInv, D!TypeOK
<1>2. D!NextTick(x) \in D!Dispatcher /\ D!Stopped(x) \in D!Dispatcher
  BY <1>1, TickEndTyped
<1>3. x.pend \in SUBSET Msgs /\ x.rec \in D!Record \cup {Nil} /\ x.recovery \in BOOLEAN
  BY <1>1, Fields
<1> DEFINE new == [ids |-> x.pend, attempt |-> 1, state |-> "pending"]
<1>4. x.pc = "create" => new \in D!Record
  BY <1>1, <1>3 DEF D!Record, StageInv, DispatcherInv, D!ActivationAssumption
<1> HIDE DEF x, new
<1>5. ASSUME NEW c \in {"clear", "check"} PROVE [x EXCEPT !.rec = activation, !.pc = c] \in D!Dispatcher
  BY <1>1 DEF D!Dispatcher
<1>6. [x EXCEPT !.rec = Nil, !.pc = "check"] \in D!Dispatcher
  BY <1>1 DEF D!Dispatcher
<1>7. ASSUME NEW c \in {"create", "gate"} PROVE [x EXCEPT !.pc = c] \in D!Dispatcher
  BY <1>1 DEF D!Dispatcher
<1>8. new \in D!Record => [x EXCEPT !.rec = new, !.pc = "gate"] \in D!Dispatcher
  BY <1>1 DEF D!Dispatcher
<1>9. ASSUME NEW b \in BOOLEAN PROVE [x EXCEPT !.pc = "activate", !.recovery = b] \in D!Dispatcher
  BY <1>1 DEF D!Dispatcher
<1>10. ASSUME NEW b \in BOOLEAN PROVE [x EXCEPT !.pc = "save", !.waiting = b] \in D!Dispatcher
  BY <1>1 DEF D!Dispatcher
<1> HIDE DEF D!NextTick, D!Stopped
<1>11. CASE D!ReadRecord(d)
  BY <1>5, <1>11 DEF D!ReadRecord, x
<1>12. CASE D!Clear(d)
  BY <1>2, <1>6, <1>12 DEF D!Clear, D!Save, x
<1>13. CASE D!Check(d)
  <2>1. CASE x.pend = {} \/ claims \cup expired # {}
    BY <1>2, <1>13, <2>1 DEF D!Check, x
  <2>2. CASE ~(x.pend = {} \/ claims \cup expired # {})
    <3>1. [x EXCEPT !.pc = "create"] \in D!Dispatcher /\ [x EXCEPT !.pc = "gate"] \in D!Dispatcher
      BY <1>7
    <3> QED BY <1>13, <2>2, <3>1 DEF D!Check, x
  <2> QED BY <2>1, <2>2
<1>14. CASE D!Create(d)
  <2>1. x.pc = "create"
    BY <1>14 DEF D!Create, x
  <2> QED BY <1>2, <1>4, <1>8, <1>14, <2>1 DEF D!Create, D!Save, x, new
<1>15. CASE D!Submit(d)
  <2> DEFINE b == x.rec.state # "pending"
  <2>1. [x EXCEPT !.pc = "activate", !.recovery = b] \in D!Dispatcher
    BY <1>9
  <2> QED BY <1>2, <1>15, <2>1 DEF D!Submit, D!Save, x
<1>16. CASE D!Settle(d)
  <2> DEFINE b == D!Deferred(x.out)
  <2>1. b \in BOOLEAN
    BY DEF D!Deferred
  <2> HIDE DEF b
  <2>2. [x EXCEPT !.pc = "save", !.waiting = b] \in D!Dispatcher
    BY <1>10, <2>1
  <2> QED BY <1>2, <1>16, <2>2 DEF D!Settle, x, b
<1> QED BY <1>11, <1>12, <1>13, <1>14, <1>15, <1>16 DEF Prepares

\* An activation goes on to the submission or ends with an outcome.
LEMMA ActivatesBecomes ==
  ASSUME DispatcherInv, NEW d \in Dispatchers, Activates(d)
  PROVE  \/ D!Goes(d, "start") /\ disp[d].pc = "activate" /\ ~disp[d].recovery
         \/ \E out \in D!Outcome : D!Ends(d, out) /\ disp[d].pc \in {"activate", "start"}
<1>1. D!TypeOK /\ KnownInv
  BY DEF DispatcherInv
<1>2. CASE D!CodexLook(d)
  BY <1>2 DEF D!CodexLook, D!Outcome
<1>3. CASE D!CodexStart(d) \/ D!OpenCodePrompt(d) \/ D!Unanswered(d)
  BY <1>3 DEF D!CodexStart, D!OpenCodePrompt, D!Unanswered, D!Outcome
<1>4. CASE D!OpenCodeLook(d)
  BY <1>4 DEF D!OpenCodeLook, D!Outcome
<1>5. CASE D!PiActivate(d)
  <2> DEFINE before == known[d][D!Current(d)]
  <2>1. disp[d].pc = "activate" /\ disp[d].rec \in D!Record
    <3>1. disp[d].pc = "activate" /\ StageInv(d) /\ disp[d] \in D!Dispatcher
      BY <1>5 DEF D!PiActivate, DispatcherInv, D!TypeOK
    <3> QED BY <3>1, Fields DEF StageInv, Working
  <2>2. D!Current(d) \in D!Operation
    BY <2>1, OpTyped DEF D!Current
  <2>3. before \in {"none", "queued", "ambiguous"}
    <3>1. disturbance.adapter = "pi"
      BY <1>5 DEF D!PiActivate
    <3>2. before \in {"none", "pending", "queued", "ambiguous"} /\ before # "pending"
      BY <1>1, <2>2, <3>1 DEF D!TypeOK, KnownInv
    <3> QED BY <3>2
  <2>4. /\ before # "none" => before \in D!Outcome
        /\ {"unavailable", "completed", "queued", "ambiguous"} \subseteq D!Outcome
    BY <2>3 DEF D!Outcome
  <2> QED BY <1>5, <2>1, <2>4 DEF D!PiActivate
<1> QED BY <1>2, <1>3, <1>4, <1>5 DEF Activates

-----------------------------------------------------------------------------
(***************************************************************************)
(* A step of one dispatcher.                                               *)
(***************************************************************************)
Steps(d) == EndsTick(d) \/ Flags(d) \/ Prepares(d) \/ Activates(d)

LEMMA StepsBecome ==
  ASSUME DispatcherInv, NEW d \in Dispatchers, Steps(d)
  PROVE  /\ disp' \in [Dispatchers -> D!Dispatcher]
         /\ \A e \in Dispatchers : e # d => disp'[e] = disp[e]
<1>1. D!TypeOK
  BY DEF DispatcherInv
<1>2. ASSUME NEW v \in D!Dispatcher, D!Becomes(d, v)
      PROVE  /\ disp' \in [Dispatchers -> D!Dispatcher]
             /\ \A e \in Dispatchers : e # d => disp'[e] = disp[e]
  BY <1>1, <1>2, DispatcherTyped
<1>3. CASE EndsTick(d)
  BY <1>1, <1>2, <1>3, EndsTickBecomes
<1>4. CASE Flags(d)
  BY <1>1, <1>2, <1>4, FlagsBecomes
<1>5. CASE Prepares(d)
  BY <1>2, <1>5, PreparesBecomes
<1>6. CASE Activates(d)
  <2> DEFINE x == disp[d]
  <2>1. x \in D!Dispatcher
    BY <1>1 DEF D!TypeOK
  <2>2. \/ D!Becomes(d, [x EXCEPT !.pc = "start"])
        \/ \E out \in D!Outcome : D!Becomes(d, [x EXCEPT !.pc = "settle", !.out = out])
    BY <1>6, ActivatesBecomes DEF D!Goes, D!Ends
  <2> HIDE DEF x
  <2>3. [x EXCEPT !.pc = "start"] \in D!Dispatcher
    BY <2>1 DEF D!Dispatcher
  <2>4. ASSUME NEW out \in D!Outcome PROVE [x EXCEPT !.pc = "settle", !.out = out] \in D!Dispatcher
    BY <2>1 DEF D!Dispatcher
  <2>5. CASE D!Becomes(d, [x EXCEPT !.pc = "start"])
    BY <1>2, <2>3, <2>5
  <2>6. ASSUME NEW out \in D!Outcome, D!Becomes(d, [x EXCEPT !.pc = "settle", !.out = out])
        PROVE  /\ disp' \in [Dispatchers -> D!Dispatcher]
               /\ \A e \in Dispatchers : e # d => disp'[e] = disp[e]
    <3> DEFINE v == [x EXCEPT !.pc = "settle", !.out = out]
    <3>1. v \in D!Dispatcher /\ D!Becomes(d, v)
      BY <2>4, <2>6
    <3> HIDE DEF v
    <3> QED BY <1>2, <3>1
  <2> QED BY <2>2, <2>5, <2>6
<1> QED BY <1>3, <1>4, <1>5, <1>6 DEF Steps

\* Ownership passes to nobody else, and only the owner writes the record.
LEMMA StepsOwner ==
  ASSUME NEW d \in Dispatchers, Steps(d), D!ActivationAssumption
  PROVE  /\ \A e \in Dispatchers : e # d /\ owner' = e => owner = e
         /\ activation' = activation \/ owner = d
         /\ disturbance' = disturbance
<1>1. CASE EndsTick(d)
  BY <1>1 DEF EndsTick, D!Attach, D!Refresh, D!RecoverExpired, D!ReadPending, D!Wait, D!SaveOutcome,
              D!Save, D!Throws, D!Detach, D!Crash, D!ActivationAssumption
<1>2. CASE Flags(d)
  BY <1>2 DEF Flags, D!BackoffEnds, D!Close
<1>3. CASE Prepares(d)
  BY <1>3 DEF Prepares, D!ReadRecord, D!Clear, D!Check, D!Create, D!Submit, D!Settle, D!Save
<1>4. CASE Activates(d)
  BY <1>4 DEF Activates, D!CodexLook, D!CodexStart, D!PiActivate, D!OpenCodeLook, D!OpenCodePrompt,
              D!Unanswered
<1> QED BY <1>1, <1>2, <1>3, <1>4 DEF Steps

\* The other dispatchers keep what they have in hand, and get no ticket.
LEMMA OthersKept ==
  ASSUME DispatcherInv, NEW d \in Dispatchers, Steps(d), NEW e \in Dispatchers, e # d
  PROVE  /\ StageInv(e)' /\ CopyInv(e)'
         /\ \A op : Ticket(e, op)' => Ticket(e, op)
<1>1. disp'[e] = disp[e]
  BY StepsBecome
<1>2. /\ owner' = e => owner = e
      /\ activation' = activation \/ owner = d
  BY StepsOwner DEF DispatcherInv
<1>3. StageInv(e) /\ CopyInv(e)
  BY DEF DispatcherInv
<1>4. StageInv(e)'
  BY <1>1, <1>3 DEF StageInv
<1>5. CopyInv(e)'
  BY <1>1, <1>2, <1>3 DEF CopyInv
<1>6. \A op : Ticket(e, op)' => Ticket(e, op)
  BY <1>1, <1>2 DEF Ticket
<1> QED BY <1>4, <1>5, <1>6

-----------------------------------------------------------------------------
(***************************************************************************)
(* What the dispatcher that steps has in hand afterwards.  Preserves says  *)
(* that it has what the stage needs and gets no ticket.                    *)
(***************************************************************************)
Preserves(d) == StageInv(d)' /\ CopyInv(d)'
NoTicket(d) == \A op : Ticket(d, op)' => Ticket(d, op)

LEMMA EndsTickKeeps ==
  ASSUME DispatcherInv, NEW d \in Dispatchers, EndsTick(d)
  PROVE  Preserves(d) /\ \A op : ~Ticket(d, op)'
<1>1. disp'[d].pc \in Idle
  <2>1. D!TypeOK
    BY DEF DispatcherInv
  <2>2. PICK v \in D!Dispatcher : D!Becomes(d, v) /\ v.pc \in Idle
    BY <2>1, EndsTickBecomes
  <2>3. disp'[d] = v
    BY <2>1, <2>2, DispatcherTyped
  <2> QED BY <2>2, <2>3
<1>2. disp'[d].pc \notin Working \cup {"clear", "check", "create", "gate"}
  BY <1>1 DEF Working, Idle
<1>3. StageInv(d)'
  BY <1>2 DEF StageInv, Working
<1>4. CopyInv(d)'
  BY <1>2 DEF CopyInv, Working
<1>5. \A op : ~Ticket(d, op)'
  BY <1>2 DEF Ticket, Working
<1> QED BY <1>3, <1>4, <1>5 DEF Preserves

LEMMA FlagsKeep ==
  ASSUME DispatcherInv, NEW d \in Dispatchers, Flags(d)
  PROVE  Preserves(d) /\ NoTicket(d)
<1>1. D!TypeOK /\ StageInv(d) /\ CopyInv(d)
  BY DEF DispatcherInv
<1>2. /\ disp'[d].pc = disp[d].pc /\ disp'[d].rec = disp[d].rec /\ disp'[d].pend = disp[d].pend
      /\ disp'[d].recovery = disp[d].recovery /\ disp'[d].out = disp[d].out
  <2>1. PICK v \in D!Dispatcher :
          /\ D!Becomes(d, v) /\ v.pc = disp[d].pc /\ v.rec = disp[d].rec /\ v.pend = disp[d].pend
          /\ v.recovery = disp[d].recovery /\ v.out = disp[d].out
    BY <1>1, FlagsBecomes
  <2>2. disp'[d] = v
    BY <1>1, <2>1, DispatcherTyped
  <2> QED BY <2>1, <2>2
<1>3. owner' = owner /\ activation' = activation
  BY DEF Flags, D!BackoffEnds, D!Close
<1>4. StageInv(d)'
  BY <1>1, <1>2 DEF StageInv
<1>5. CopyInv(d)'
  BY <1>1, <1>2, <1>3 DEF CopyInv
<1>6. NoTicket(d)
  BY <1>2, <1>3 DEF NoTicket, Ticket
<1> QED BY <1>4, <1>5, <1>6 DEF Preserves

LEMMA ActivatesKeeps ==
  ASSUME DispatcherInv, NEW d \in Dispatchers, Activates(d)
  PROVE  Preserves(d) /\ NoTicket(d)
<1> DEFINE x == disp[d]
           y == disp'[d]
<1>1. D!TypeOK /\ StageInv(d) /\ CopyInv(d) /\ x \in D!Dispatcher
  BY DEF DispatcherInv, D!TypeOK
<1>2. owner' = owner /\ activation' = activation
  BY DEF Activates, D!CodexLook, D!CodexStart, D!PiActivate, D!OpenCodeLook, D!OpenCodePrompt,
         D!Unanswered
<1>3. /\ y.rec = x.rec /\ y.pend = x.pend /\ y.recovery = x.recovery
      /\ \/ x.pc = "activate" /\ y.pc = "start" /\ ~x.recovery
         \/ x.pc \in {"activate", "start"} /\ y.pc = "settle" /\ y.out \in D!Outcome
  <2>1. CASE D!Goes(d, "start") /\ x.pc = "activate" /\ ~x.recovery
    BY <1>1, <2>1 DEF D!Goes, D!Becomes, D!TypeOK, D!Dispatcher
  <2>2. ASSUME NEW out \in D!Outcome, D!Ends(d, out), x.pc \in {"activate", "start"}
        PROVE  /\ y.rec = x.rec /\ y.pend = x.pend /\ y.recovery = x.recovery
               /\ y.pc = "settle" /\ y.out = out
    BY <1>1, <2>2 DEF D!Ends, D!Becomes, D!TypeOK, D!Dispatcher
  <2> QED BY <2>1, <2>2, ActivatesBecomes
<1>4. StageInv(d)'
  BY <1>1, <1>3 DEF StageInv, Working
<1>5. CopyInv(d)'
  BY <1>1, <1>2, <1>3 DEF CopyInv, Working
<1>6. NoTicket(d)
  BY <1>2, <1>3 DEF NoTicket, Ticket
<1> QED BY <1>4, <1>5, <1>6 DEF Preserves

\* The steps before a submission, and the check after it.
LEMMA ReadRecordKeeps ==
  ASSUME DispatcherInv, NEW d \in Dispatchers, D!ReadRecord(d)
  PROVE  Preserves(d) /\ \A op : ~Ticket(d, op)'
<1>1. /\ disp'[d].pc \in {"clear", "check"} /\ disp'[d].rec = activation
      /\ activation' = activation
  BY DEF DispatcherInv, D!TypeOK, D!Dispatcher, D!ReadRecord, D!Becomes
<1>2. StageInv(d)' /\ CopyInv(d)'
  BY <1>1 DEF StageInv, CopyInv, Working
<1>3. \A op : ~Ticket(d, op)'
  BY <1>1 DEF Ticket
<1> QED BY <1>2, <1>3 DEF Preserves

\* A dispatcher that finds itself without the binding stops.
LEMMA EndedKeeps ==
  ASSUME DispatcherInv, NEW d \in Dispatchers,
         D!Becomes(d, D!Stopped(disp[d])) \/ D!Becomes(d, D!NextTick(disp[d]))
  PROVE  Preserves(d) /\ \A op : ~Ticket(d, op)'
<1>1. disp[d] \in D!Dispatcher /\ D!TypeOK
  BY DEF DispatcherInv, D!TypeOK
<1>2. /\ D!NextTick(disp[d]) \in D!Dispatcher /\ D!NextTick(disp[d]).pc = "refresh"
      /\ D!Stopped(disp[d]) \in D!Dispatcher /\ D!Stopped(disp[d]).pc = "detach"
  BY <1>1, TickEndTyped
<1>3. disp'[d].pc \in {"refresh", "detach"}
  BY <1>1, <1>2 DEF D!Becomes, D!TypeOK
<1>4. StageInv(d)' /\ CopyInv(d)'
  BY <1>3 DEF StageInv, CopyInv, Working
<1>5. \A op : ~Ticket(d, op)'
  BY <1>3 DEF Ticket
<1> QED BY <1>4, <1>5 DEF Preserves

LEMMA ClearKeeps ==
  ASSUME DispatcherInv, NEW d \in Dispatchers, D!Clear(d)
  PROVE  Preserves(d) /\ \A op : ~Ticket(d, op)'
<1>1. CASE owner = d
  <2>1. disp'[d].pc = "check" /\ disp'[d].rec = Nil /\ activation' = Nil
    <3>1. D!Becomes(d, [disp[d] EXCEPT !.rec = Nil, !.pc = "check"]) /\ D!Writes(Nil)
      BY <1>1 DEF D!Clear, D!Save
    <3>2. disp'[d] = [disp[d] EXCEPT !.rec = Nil, !.pc = "check"] /\ disp[d] \in D!Dispatcher
      BY <3>1, Applied DEF DispatcherInv
    <3> QED BY <3>1, <3>2 DEF D!Dispatcher, D!Writes
  <2>2. StageInv(d)' /\ CopyInv(d)'
    BY <2>1 DEF StageInv, CopyInv, Working
  <2>3. \A op : ~Ticket(d, op)'
    BY <2>1 DEF Ticket
  <2> QED BY <2>2, <2>3 DEF Preserves
<1>2. CASE owner # d
  <2>1. D!Becomes(d, D!Stopped(disp[d]))
    BY <1>2 DEF D!Clear, D!Save
  <2> QED BY <2>1, EndedKeeps
<1> QED BY <1>1, <1>2

LEMMA CheckKeeps ==
  ASSUME DispatcherInv, NEW d \in Dispatchers, D!Check(d)
  PROVE  Preserves(d) /\ \A op : ~Ticket(d, op)'
<1> DEFINE x == disp[d]
<1>1. CASE x.pend = {} \/ claims \cup expired # {}
  <2>1. D!Becomes(d, D!NextTick(x))
    BY <1>1 DEF D!Check
  <2> QED BY <2>1, EndedKeeps
<1>2. CASE ~(x.pend = {} \/ claims \cup expired # {})
  <2>1. /\ disp'[d].pc = IF x.rec = Nil THEN "create" ELSE "gate"
        /\ disp'[d].rec = x.rec /\ disp'[d].pend = x.pend
        /\ x.pc = "check" /\ activation' = activation /\ owner' = owner
    BY <1>2 DEF DispatcherInv, D!TypeOK, D!Dispatcher, D!Check, D!Becomes
  <2>2. CopyInv(d)
    BY DEF DispatcherInv
  <2>3. StageInv(d)'
    BY <1>2, <2>1 DEF StageInv, Working
  <2>4. CopyInv(d)'
    BY <2>1, <2>2 DEF CopyInv, Working
  <2>5. \A op : ~Ticket(d, op)'
    BY <2>1 DEF Ticket
  <2> QED BY <2>3, <2>4, <2>5 DEF Preserves
<1> QED BY <1>1, <1>2

LEMMA CreateKeeps ==
  ASSUME DispatcherInv, NEW d \in Dispatchers, D!Create(d)
  PROVE  Preserves(d) /\ \A op : ~Ticket(d, op)'
<1> DEFINE new == [ids |-> disp[d].pend, attempt |-> 1, state |-> "pending"]
<1>1. CASE owner = d
  <2>1. /\ disp'[d].pc = "gate" /\ disp'[d].rec = new /\ activation' = new
        /\ disp'[d].pend = disp[d].pend /\ disp[d].pc = "create"
    <3>1. /\ D!Becomes(d, [disp[d] EXCEPT !.rec = new, !.pc = "gate"]) /\ D!Writes(new)
          /\ disp[d].pc = "create"
      BY <1>1 DEF D!Create, D!Save
    <3> HIDE DEF new
    <3>2. disp'[d] = [disp[d] EXCEPT !.rec = new, !.pc = "gate"] /\ disp[d] \in D!Dispatcher
      BY <3>1, Applied DEF DispatcherInv
    <3> QED BY <3>1, <3>2 DEF D!Dispatcher, D!Writes
  <2>2. StageInv(d)
    BY DEF DispatcherInv
  <2>3. disp[d].pend # {} /\ disp[d].pend \subseteq Msgs
    BY <2>1, <2>2, Fields DEF StageInv, DispatcherInv, D!TypeOK
  <2>4. new \in D!Record
    BY <2>3 DEF D!Record, DispatcherInv, D!ActivationAssumption
  <2> HIDE DEF new
  <2>5. new # Nil
    BY <2>4 DEF DispatcherInv, D!ActivationAssumption
  <2>6. StageInv(d)' /\ CopyInv(d)'
    BY <2>1, <2>3, <2>5 DEF StageInv, CopyInv, Working
  <2>7. \A op : ~Ticket(d, op)'
    BY <2>1 DEF Ticket
  <2> QED BY <2>6, <2>7 DEF Preserves
<1>2. CASE owner # d
  <2>1. D!Becomes(d, D!Stopped(disp[d]))
    BY <1>2 DEF D!Create, D!Save
  <2> QED BY <2>1, EndedKeeps
<1> QED BY <1>1, <1>2

LEMMA SettleKeeps ==
  ASSUME DispatcherInv, NEW d \in Dispatchers, D!Settle(d)
  PROVE  Preserves(d) /\ NoTicket(d)
<1> DEFINE x == disp[d]
<1>1. CASE x.stop \/ owner # d
  <2>1. D!Becomes(d, D!NextTick(x))
    BY <1>1 DEF D!Settle
  <2> QED BY <2>1, EndedKeeps DEF NoTicket
<1>2. CASE ~(x.stop \/ owner # d)
  <2>1. /\ disp'[d].pc = "save" /\ x.pc = "settle" /\ activation' = activation /\ owner' = owner
        /\ disp'[d].rec = x.rec /\ disp'[d].pend = x.pend
        /\ disp'[d].recovery = x.recovery /\ disp'[d].out = x.out
    BY <1>2 DEF DispatcherInv, D!TypeOK, D!Dispatcher, D!Settle, D!Becomes
  <2>2. StageInv(d) /\ CopyInv(d)
    BY DEF DispatcherInv
  <2>3. StageInv(d)'
    BY <2>1, <2>2 DEF StageInv, Working
  <2>4. CopyInv(d)'
    BY <2>1, <2>2 DEF CopyInv, Working
  <2>5. NoTicket(d)
    BY <2>1 DEF Ticket, NoTicket
  <2> QED BY <2>3, <2>4, <2>5 DEF Preserves
<1> QED BY <1>1, <1>2

\* A record that is not pending is only looked after: no ticket.  A pending one is saved as
\* submitting first.
LEMMA SubmitKeeps ==
  ASSUME DispatcherInv, NEW d \in Dispatchers, D!Submit(d)
  PROVE  /\ Preserves(d)
         /\ \/ activation' = activation /\ created' = created /\ NoTicket(d)
            \/ /\ owner = d /\ activation = disp[d].rec
               /\ activation # Nil /\ activation.state = "pending"
               /\ activation' = [activation EXCEPT !.state = "submitting"]
               /\ D!Writes(activation')
               /\ \A op : Ticket(d, op)' => op = D!Op(activation)
<1> DEFINE x == disp[d]
           y == disp'[d]
<1>1. StageInv(d) /\ CopyInv(d) /\ x.pc = "gate" /\ owner' = owner
  BY DEF DispatcherInv, D!Submit
<1>2. CASE x.rec.state = "pending" /\ owner # d
  <2>1. D!Becomes(d, D!Stopped(x)) /\ activation' = activation /\ created' = created
    BY <1>2 DEF D!Submit, D!Save
  <2> QED BY <2>1, EndedKeeps DEF NoTicket
<1>3. CASE x.rec.state # "pending"
  <2>1. /\ y.pc = "activate" /\ y.rec = x.rec /\ y.pend = x.pend /\ y.recovery = TRUE
        /\ activation' = activation /\ created' = created
    <3>1. /\ D!Becomes(d, [x EXCEPT !.pc = "activate", !.recovery = x.rec.state # "pending"])
          /\ activation' = activation /\ created' = created
      BY <1>3 DEF D!Submit
    <3>2. /\ y = [x EXCEPT !.pc = "activate", !.recovery = x.rec.state # "pending"]
          /\ x \in D!Dispatcher
      BY <3>1, Applied DEF DispatcherInv
    <3> HIDE DEF x, y
    <3>3. y.recovery = (x.rec.state # "pending")
      BY <3>2 DEF D!Dispatcher
    <3>4. y.pc = "activate" /\ y.rec = x.rec /\ y.pend = x.pend
      BY <3>2 DEF D!Dispatcher
    <3> QED BY <1>3, <3>1, <3>3, <3>4
  <2>2. StageInv(d)'
    BY <1>1, <1>3, <2>1 DEF StageInv, Working
  <2>3. CopyInv(d)'
    BY <1>1, <2>1 DEF CopyInv, Working
  <2>4. NoTicket(d)
    BY <2>1 DEF Ticket, NoTicket
  <2> QED BY <2>1, <2>2, <2>3, <2>4 DEF Preserves
<1>4. CASE x.rec.state = "pending" /\ owner = d
  <2>1. /\ y.pc = "activate" /\ y.rec = x.rec /\ y.pend = x.pend /\ y.recovery = FALSE
        /\ activation' = [x.rec EXCEPT !.state = "submitting"]
        /\ D!Writes(activation')
    <3>1. /\ D!Becomes(d, [x EXCEPT !.pc = "activate", !.recovery = x.rec.state # "pending"])
          /\ D!Writes([x.rec EXCEPT !.state = "submitting"])
      BY <1>4 DEF D!Submit, D!Save
    <3>2. /\ y = [x EXCEPT !.pc = "activate", !.recovery = x.rec.state # "pending"]
          /\ x \in D!Dispatcher
      BY <3>1, Applied DEF DispatcherInv
    <3>3. activation' = [x.rec EXCEPT !.state = "submitting"] /\ D!Writes(activation')
      BY <3>1 DEF D!Writes
    <3> HIDE DEF x, y
    <3>4. y.recovery = (x.rec.state # "pending")
      BY <3>2 DEF D!Dispatcher
    <3>5. y.pc = "activate" /\ y.rec = x.rec /\ y.pend = x.pend
      BY <3>2 DEF D!Dispatcher
    <3> QED BY <1>4, <3>3, <3>4, <3>5
  <2>2. activation = x.rec /\ x.rec # Nil
    BY <1>1, <1>4 DEF CopyInv, StageInv
  <2>3. StageInv(d)'
    BY <1>1, <1>4, <2>1 DEF StageInv, Working
  <2>4. CopyInv(d)'
    BY <2>1 DEF CopyInv, Working
  <2>5. \A op : Ticket(d, op)' => op = D!Op(activation)
    BY <2>1, <2>2 DEF Ticket, D!Op
  <2> QED BY <1>4, <2>1, <2>2, <2>3, <2>4, <2>5 DEF Preserves
<1> QED BY <1>2, <1>3, <1>4

-----------------------------------------------------------------------------
(***************************************************************************)
(* Types after a step.                                                     *)
(***************************************************************************)
LEMMA WritesTyped ==
  ASSUME D!TypeOK, NEW r \in D!Record \cup {Nil}, D!Writes(r)
  PROVE  activation' \in D!Record \cup {Nil} /\ created' \in [D!Operation -> Nat]
<1>1. activation' = r
  BY DEF D!Writes
<1>2. CASE r # Nil /\ (activation = Nil \/ D!Op(r) # D!Op(activation))
  <2> DEFINE op == D!Op(r)
  <2>1. op \in D!Operation
    BY <1>2, OpTyped
  <2>2. created' = [created EXCEPT ![op] = @ + 1]
    BY <1>2 DEF D!Writes
  <2> HIDE DEF op
  <2> QED BY <1>1, <2>1, <2>2 DEF D!TypeOK
<1>3. CASE ~(r # Nil /\ (activation = Nil \/ D!Op(r) # D!Op(activation)))
  BY <1>1, <1>3 DEF D!Writes, D!TypeOK
<1> QED BY <1>2, <1>3

\* The owner of a tick that has an outcome writes the record that follows from it.
LEMMA SaveOutcomeWrites ==
  ASSUME DispatcherInv, NEW d \in Dispatchers, D!SaveOutcome(d)
  PROVE  \/ activation' = activation /\ created' = created
         \/ /\ owner = d /\ D!Writes(D!After(disp[d]))
            /\ D!After(disp[d]) \in D!Record
            /\ activation # Nil /\ disp[d].rec \in D!Record
            /\ D!Op(activation) = D!Op(disp[d].rec)
            /\ \/ D!Op(D!After(disp[d])) # D!Op(disp[d].rec)
               \/ /\ D!Op(D!After(disp[d])) = D!Op(disp[d].rec)
                  /\ D!After(disp[d]).state = "pending" =>
                       /\ D!Deferred(disp[d].out) /\ ~disp[d].recovery
                       /\ activation.state = "submitting"
<1> DEFINE x == disp[d]
<1>1. CASE owner # d
  BY <1>1 DEF D!SaveOutcome, D!Save
<1>2. CASE owner = d
  <2>1. /\ x.pc = "save" /\ StageInv(d) /\ CopyInv(d) /\ x \in D!Dispatcher
        /\ D!ActivationAssumption /\ activation \in D!Record \cup {Nil}
    BY DEF D!SaveOutcome, DispatcherInv, D!TypeOK
  <2>2. /\ x.rec # Nil /\ x.out \in D!Outcome /\ x.pend # {}
        /\ x.recovery <=> x.rec.state # "pending"
    BY <2>1 DEF StageInv, Working
  <2>3. x.rec \in D!Record
    BY <2>1, <2>2, Fields
  <2>4. D!Writes(D!After(x))
    BY <1>2 DEF D!SaveOutcome, D!Save
  <2>5. /\ x.recovery => activation = x.rec
        /\ ~x.recovery => activation = [x.rec EXCEPT !.state = "submitting"]
    BY <1>2, <2>1 DEF CopyInv, Working
  <2>6. /\ [x.rec EXCEPT !.state = "submitting"] \in D!Record
        /\ [x.rec EXCEPT !.state = "submitting"].state = "submitting"
        /\ D!Op([x.rec EXCEPT !.state = "submitting"]) = D!Op(x.rec)
    BY <2>3, StateTyped
  <2>7. Nil \notin D!Record /\ x.recovery \in BOOLEAN
    BY <2>1, Fields DEF D!ActivationAssumption
  <2>8. /\ activation # Nil /\ D!Op(activation) = D!Op(x.rec)
        /\ ~x.recovery => activation.state = "submitting"
    BY <2>2, <2>3, <2>5, <2>6, <2>7
  <2>9. /\ D!After(x) \in D!Record
        /\ \/ D!Op(D!After(x)) # D!Op(x.rec)
           \/ /\ D!Op(D!After(x)) = D!Op(x.rec)
              /\ D!After(x).state = "pending" =>
                   D!Deferred(x.out) /\ (x.recovery => x.rec.state = "pending")
    BY <2>1, <2>2, AfterTyped
  <2> QED BY <1>2, <2>2, <2>3, <2>4, <2>8, <2>9
<1> QED BY <1>1, <1>2

\* The steps that change the record, and what they write.
LEMMA StepsRecord ==
  ASSUME DispatcherInv, NEW d \in Dispatchers, Steps(d)
  PROVE  \/ activation' = activation /\ created' = created
         \/ \E r \in D!Record \cup {Nil} : D!Writes(r)
<1>0. disp[d] \in D!Dispatcher /\ StageInv(d) /\ D!TypeOK
  BY DEF DispatcherInv, D!TypeOK
<1>1. CASE D!SaveOutcome(d)
  BY <1>1, SaveOutcomeWrites
<1>2. CASE D!Clear(d)
  BY <1>2 DEF D!Clear, D!Save
<1>3. CASE D!Create(d)
  <2> DEFINE new == [ids |-> disp[d].pend, attempt |-> 1, state |-> "pending"]
  <2>1. disp[d].pc = "create" /\ ((activation' = activation /\ created' = created) \/ D!Writes(new))
    BY <1>3 DEF D!Create, D!Save
  <2>2. disp[d].pend # {} /\ disp[d].pend \subseteq Msgs
    BY <1>0, <2>1, Fields DEF StageInv
  <2>3. new \in D!Record
    BY <2>2 DEF D!Record, DispatcherInv, D!ActivationAssumption
  <2> HIDE DEF new
  <2> QED BY <2>1, <2>3
<1>4. CASE D!Submit(d)
  <2>1. \/ activation' = activation /\ created' = created
        \/ /\ activation # Nil /\ activation' = [activation EXCEPT !.state = "submitting"]
           /\ D!Writes(activation')
    BY <1>4, SubmitKeeps
  <2>2. activation # Nil => [activation EXCEPT !.state = "submitting"] \in D!Record
    BY <1>0, StateTyped DEF D!TypeOK
  <2> QED BY <2>1, <2>2
<1>5. CASE EndsTick(d) /\ ~D!SaveOutcome(d)
  BY <1>5 DEF EndsTick, D!Attach, D!Refresh, D!RecoverExpired, D!ReadPending, D!Wait,
              D!Throws, D!Detach, D!Crash
<1>6. CASE Flags(d)
  BY <1>6 DEF Flags, D!BackoffEnds, D!Close
<1>7. CASE D!ReadRecord(d) \/ D!Check(d) \/ D!Settle(d)
  BY <1>7 DEF D!ReadRecord, D!Check, D!Settle
<1>8. CASE Activates(d)
  BY <1>8 DEF Activates, D!CodexLook, D!CodexStart, D!PiActivate, D!OpenCodeLook, D!OpenCodePrompt,
              D!Unanswered
<1> QED BY <1>1, <1>2, <1>3, <1>4, <1>5, <1>6, <1>7, <1>8 DEF Steps, Prepares

\* The operation a dispatcher is busy with.
LEMMA CurrentTyped ==
  ASSUME DispatcherInv, NEW d \in Dispatchers, disp[d].pc \in {"activate", "start"}
  PROVE  D!Current(d) \in D!Operation /\ disp[d].rec # Nil
<1>1. StageInv(d) /\ disp[d] \in D!Dispatcher
  BY DEF DispatcherInv, D!TypeOK
<1>2. disp[d].rec \in D!Record /\ disp[d].rec # Nil
  BY <1>1, Fields DEF StageInv, Working
<1> QED BY <1>2, OpTyped DEF D!Current

\* A submission is made, or sent on its way, by the holder of a ticket, which it gives up.
Submits(d) ==
  LET op == D!Current(d)
  IN  /\ Ticket(d, op)
      /\ \A any : ~Ticket(d, any)'
      /\ \/ /\ \E as \in {"running", "queued"} : D!CarriedOut(op, as)
            /\ late' = late
         \/ /\ late' = [late EXCEPT ![op] = @ + 1]
            /\ turn' = turn /\ submissions' = submissions

Memory == {"none", "pending", "queued", "ambiguous"}

LEMMA NoTicketAfter ==
  ASSUME DispatcherInv, NEW d \in Dispatchers, NEW out, D!Ends(d, out), ~D!Deferred(out)
  PROVE  \A any : ~Ticket(d, any)'
<1> DEFINE x == disp[d]
           y == disp'[d]
<1>1. y = [x EXCEPT !.pc = "settle", !.out = out] /\ x \in D!Dispatcher
  BY Applied DEF D!Ends, DispatcherInv
<1> HIDE DEF x, y
<1>2. y.pc = "settle" /\ y.out = out
  BY <1>1 DEF D!Dispatcher
<1>3. disp'[d].pc = "settle" /\ disp'[d].out = out
  BY <1>2 DEF y
<1> QED BY <1>3 DEF Ticket

LEMMA HasTicket ==
  ASSUME DispatcherInv, NEW d \in Dispatchers, disp[d].pc \in {"activate", "start"},
         disp[d].pc = "activate" => ~disp[d].recovery
  PROVE  Ticket(d, D!Current(d))
<1>1. StageInv(d)
  BY DEF DispatcherInv
<1>2. disp[d].rec # Nil
  BY CurrentTyped
<1> QED BY <1>1, <1>2 DEF Ticket, StageInv, D!Current

LEMMA ActivatesNative ==
  ASSUME DispatcherInv, NEW d \in Dispatchers, Activates(d)
  PROVE  /\ D!Current(d) \in D!Operation
         /\ \/ known' = known
            \/ \E how \in Memory :
                 /\ known' = [known EXCEPT ![d][D!Current(d)] = how]
                 /\ disturbance.adapter = "pi" => how # "pending"
         /\ \/ turn' = turn /\ late' = late /\ submissions' = submissions
            \/ Submits(d)
         /\ UNCHANGED <<disturbance, D!mail, owner, activation, user, created>>
<1>1. D!Current(d) \in D!Operation /\ disp[d].pc \in {"activate", "start"}
  <2>1. disp[d].pc \in {"activate", "start"}
    BY ActivatesBecomes
  <2> QED BY <2>1, CurrentTyped
<1>2. \A out \in {"started", "queued", "ambiguous"} : ~D!Deferred(out)
  BY DEF D!Deferred
<1>3. CASE D!CodexLook(d)
  BY <1>1, <1>3 DEF D!CodexLook, D!Remember, D!native, Memory
<1>4. CASE D!CodexStart(d) /\ D!Active
  BY <1>1, <1>4 DEF D!CodexStart, D!Remember, Memory
<1>5. CASE D!CodexStart(d) /\ ~D!Active
  <2>1. D!Ends(d, "started") /\ disp[d].pc = "start" /\ D!CarriedOut(D!Current(d), "running") /\ late' = late
    BY <1>5 DEF D!CodexStart
  <2>2. Submits(d)
    BY <1>2, <2>1, NoTicketAfter, HasTicket DEF Submits
  <2> QED BY <1>1, <1>5, <2>2 DEF D!CodexStart
<1>6. CASE D!OpenCodeLook(d)
  BY <1>1, <1>6 DEF D!OpenCodeLook, D!native
<1>7. CASE D!OpenCodePrompt(d)
  <2>1. D!Ends(d, "queued") /\ disp[d].pc = "start" /\ D!CarriedOut(D!Current(d), "queued") /\ late' = late
    BY <1>7 DEF D!OpenCodePrompt
  <2>2. Submits(d)
    BY <1>2, <2>1, NoTicketAfter, HasTicket DEF Submits
  <2> QED BY <1>1, <1>7, <2>2 DEF D!OpenCodePrompt
<1>8. CASE D!Unanswered(d)
  <2>1. /\ D!Ends(d, "ambiguous") /\ disp[d].pc = "start"
        /\ \/ D!CarriedOut(D!Current(d), "running") /\ late' = late
           \/ late' = [late EXCEPT ![D!Current(d)] = @ + 1] /\ turn' = turn /\ submissions' = submissions
           \/ turn' = turn /\ late' = late /\ submissions' = submissions
    BY <1>8 DEF D!Unanswered
  <2>2. Ticket(d, D!Current(d)) /\ \A any : ~Ticket(d, any)'
    BY <1>2, <2>1, NoTicketAfter, HasTicket
  <2>3. (turn' = turn /\ late' = late /\ submissions' = submissions) \/ Submits(d)
    BY <2>1, <2>2 DEF Submits
  <2> QED BY <1>1, <1>8, <2>3 DEF D!Unanswered
<1>9. CASE D!PiActivate(d)
  <2> DEFINE log == D!CarriedOut(D!Current(d), "queued") /\ D!Remember(d, "queued") /\ D!Ends(d, "queued")
                    /\ ~disp[d].recovery
  <2>1. /\ UNCHANGED <<disturbance, D!mail, owner, activation, late, user, created>>
        /\ disp[d].pc = "activate"
        /\ \/ known' = known /\ turn' = turn /\ submissions' = submissions
           \/ D!Remember(d, "ambiguous") /\ turn' = turn /\ submissions' = submissions
           \/ log
    BY <1>9 DEF D!PiActivate
  <2>2. log => Submits(d)
    BY <1>2, <2>1, NoTicketAfter, HasTicket DEF Submits
  <2> QED BY <1>1, <2>1, <2>2 DEF D!Remember, Memory
<1> QED BY <1>3, <1>4, <1>5, <1>6, <1>7, <1>8, <1>9 DEF Activates

\* Every other step of a dispatcher leaves the runtime alone; a crash may take with it what
\* Pi had queued.
LEMMA OthersNative ==
  ASSUME DispatcherInv, NEW d \in Dispatchers, EndsTick(d) \/ Flags(d) \/ Prepares(d)
  PROVE  /\ late' = late /\ submissions' = submissions /\ user' = user
         /\ known' = known \/ known' = [known EXCEPT ![d] = D!Nothing]
         /\ \/ turn' = turn
            \/ turn' = [op \in D!Operation |-> IF turn[op] = "queued" THEN "none" ELSE turn[op]]
         /\ \/ UNCHANGED D!mail
            \/ /\ waiting' = waiting \cup expired /\ expired' = {}
               /\ claims' = claims /\ sent' = sent
         /\ owner' \in {owner, d, Nil, Crashed}
<1>1. CASE EndsTick(d)
  BY <1>1 DEF EndsTick, D!Attach, D!Refresh, D!RecoverExpired, D!ReadPending, D!Wait, D!SaveOutcome,
              D!Throws, D!Detach, D!Crash, D!native, D!mail
<1>2. CASE Flags(d)
  BY <1>2 DEF Flags, D!BackoffEnds, D!Close, D!native
<1>3. CASE Prepares(d)
  BY <1>3 DEF Prepares, D!ReadRecord, D!Clear, D!Check, D!Create, D!Submit, D!Settle, D!native
<1> QED BY <1>1, <1>2, <1>3

LEMMA StepsTyped ==
  ASSUME DispatcherInv, NEW d \in Dispatchers, Steps(d)
  PROVE  D!TypeOK' /\ KnownInv'
<1>1. D!TypeOK /\ KnownInv /\ D!ActivationAssumption
  BY DEF DispatcherInv
<1>2. disturbance' = disturbance /\ disp' \in [Dispatchers -> D!Dispatcher]
  BY <1>1, StepsBecome, StepsOwner
<1>3. activation' \in D!Record \cup {Nil} /\ created' \in [D!Operation -> Nat]
  BY <1>1, StepsRecord, WritesTyped DEF D!TypeOK
<1>4. CASE EndsTick(d) \/ Flags(d) \/ Prepares(d)
  <2>1. /\ late' = late /\ submissions' = submissions /\ user' = user
        /\ known' = known \/ known' = [known EXCEPT ![d] = D!Nothing]
        /\ \/ turn' = turn
           \/ turn' = [op \in D!Operation |-> IF turn[op] = "queued" THEN "none" ELSE turn[op]]
        /\ \/ UNCHANGED D!mail
           \/ /\ waiting' = waiting \cup expired /\ expired' = {}
              /\ claims' = claims /\ sent' = sent
        /\ owner' \in {owner, d, Nil, Crashed}
    BY <1>4, OthersNative
  <2>2. turn' \in [D!Operation -> {"none", "queued", "running", "completed"}]
    BY <1>1, <2>1 DEF D!TypeOK
  <2>3. known' \in [Dispatchers -> [D!Operation -> {"none", "pending", "queued", "ambiguous"}]]
    BY <1>1, <2>1 DEF D!TypeOK, D!Nothing
  <2>4. /\ waiting' \subseteq Msgs /\ claims' \subseteq Msgs /\ expired' \subseteq Msgs
        /\ sent' \subseteq Msgs /\ owner' \in Dispatchers \cup {Nil, Crashed}
    BY <1>1, <2>1 DEF D!TypeOK, D!mail
  <2>5. D!TypeOK'
    BY <1>1, <1>2, <1>3, <2>1, <2>2, <2>3, <2>4 DEF D!TypeOK
  <2>6. KnownInv'
    BY <1>1, <1>2, <2>1 DEF KnownInv, D!TypeOK, D!Nothing
  <2> QED BY <2>5, <2>6
<1>5. CASE Activates(d)
  <2> DEFINE op == D!Current(d)
  <2>1. /\ op \in D!Operation
        /\ \/ known' = known
           \/ \E how \in Memory :
                /\ known' = [known EXCEPT ![d][op] = how]
                /\ disturbance.adapter = "pi" => how # "pending"
        /\ \/ turn' = turn /\ late' = late /\ submissions' = submissions
           \/ Submits(d)
        /\ UNCHANGED <<disturbance, D!mail, owner, activation, user, created>>
    BY <1>5, ActivatesNative
  <2>2. \/ turn' = turn /\ late' = late /\ submissions' = submissions
        \/ /\ \E as \in {"running", "queued"} : turn' = [turn EXCEPT ![op] = as]
           /\ submissions' = [submissions EXCEPT ![op] = @ + 1]
           /\ late' = late
        \/ /\ late' = [late EXCEPT ![op] = @ + 1]
           /\ turn' = turn /\ submissions' = submissions
    BY <2>1 DEF Submits, D!CarriedOut
  <2> HIDE DEF op
  <2>3. turn' \in [D!Operation -> {"none", "queued", "running", "completed"}]
    BY <1>1, <2>1, <2>2 DEF D!TypeOK
  <2>4. late' \in [D!Operation -> Nat] /\ submissions' \in [D!Operation -> Nat]
    BY SMTT(40), <1>1, <2>1, <2>2 DEF D!TypeOK
  <2>5. known' \in [Dispatchers -> [D!Operation -> {"none", "pending", "queued", "ambiguous"}]]
    <3>1. known \in [Dispatchers -> [D!Operation -> Memory]]
      BY <1>1 DEF D!TypeOK, Memory
    <3>2. ASSUME NEW how \in Memory, known' = [known EXCEPT ![d][op] = how]
          PROVE  known' \in [Dispatchers -> [D!Operation -> Memory]]
      <4> DEFINE k == [known[d] EXCEPT ![op] = how]
      <4>1. k \in [D!Operation -> Memory]
        BY <2>1, <3>1
      <4>2. known' = [known EXCEPT ![d] = k]
        BY <3>2
      <4> HIDE DEF k
      <4> QED BY <3>1, <4>1, <4>2
    <3>3. known' \in [Dispatchers -> [D!Operation -> Memory]]
      BY <2>1, <3>1, <3>2
    <3> QED BY <3>3 DEF Memory
  <2>6. D!TypeOK'
    BY <1>1, <1>2, <1>3, <2>1, <2>3, <2>4, <2>5 DEF D!TypeOK, D!mail
  <2>7. KnownInv'
    BY <1>1, <1>2, <2>1 DEF KnownInv, D!TypeOK
  <2> QED BY <2>6, <2>7
<1> QED BY <1>4, <1>5 DEF Steps

-----------------------------------------------------------------------------
(***************************************************************************)
(* Counting the tickets.                                                   *)
(***************************************************************************)
LEMMA TicketsFinite ==
  ASSUME DispatcherInv, NEW op
  PROVE  IsFiniteSet(Tickets(op)) /\ Cardinality(Tickets(op)) \in Nat
<1>1. IsFiniteSet(Dispatchers)
  BY DEF DispatcherInv, D!ActivationAssumption, D!IsFiniteSet, IsFiniteSet
<1>2. Tickets(op) \subseteq Dispatchers
  BY DEF Tickets
<1> QED BY <1>1, <1>2, FS_Subset, FS_CardinalityType

\* Tickets of other dispatchers stay or go, and d's is decided by the step.
LEMMA FewerTickets ==
  ASSUME DispatcherInv, NEW op, Tickets(op)' \subseteq Tickets(op)
  PROVE  Cardinality(Tickets(op)') <= Cardinality(Tickets(op)) /\ Cardinality(Tickets(op)') \in Nat
BY TicketsFinite, FS_Subset, FS_CardinalityType

LEMMA OneMoreTicket ==
  ASSUME DispatcherInv, NEW op, NEW d, Tickets(op)' \subseteq Tickets(op) \cup {d}
  PROVE  /\ Cardinality(Tickets(op)') <= Cardinality(Tickets(op)) + 1
         /\ Cardinality(Tickets(op)') \in Nat
<1> DEFINE T == Tickets(op)
           U == T \cup {d}
<1>1. IsFiniteSet(T) /\ Cardinality(T) \in Nat
  BY TicketsFinite
<1>2. IsFiniteSet(U) /\ Cardinality(U) <= Cardinality(T) + 1 /\ Cardinality(U) \in Nat
  <2>1. IsFiniteSet(U) /\ Cardinality(U) = IF d \in T THEN Cardinality(T) ELSE Cardinality(T) + 1
    BY <1>1, FS_AddElement
  <2> QED BY <1>1, <2>1
<1>3. Cardinality(Tickets(op)') <= Cardinality(U) /\ Cardinality(Tickets(op)') \in Nat
  BY <1>2, FS_Subset, FS_CardinalityType
<1> QED BY <1>1, <1>2, <1>3

LEMMA OneTicketLess ==
  ASSUME DispatcherInv, NEW op, NEW d \in Tickets(op), Tickets(op)' \subseteq Tickets(op) \ {d}
  PROVE  /\ Cardinality(Tickets(op)') + 1 <= Cardinality(Tickets(op))
         /\ Cardinality(Tickets(op)') \in Nat
<1> DEFINE T == Tickets(op)
           U == T \ {d}
<1>1. IsFiniteSet(T) /\ Cardinality(T) \in Nat
  BY TicketsFinite
<1>2. IsFiniteSet(U) /\ Cardinality(U) = Cardinality(T) - 1
  BY <1>1, FS_RemoveElement
<1>3. Cardinality(Tickets(op)') <= Cardinality(U) /\ Cardinality(Tickets(op)') \in Nat
  BY <1>2, FS_Subset, FS_CardinalityType
<1> QED BY <1>1, <1>2, <1>3

\* TicketInv for one operation.
Counted(op) == submissions[op] + late[op] + Cardinality(Tickets(op)) + Due(op) <= created[op]

LEMMA CountedNow ==
  ASSUME DispatcherInv, NEW op \in D!Operation
  PROVE  /\ Counted(op) /\ Due(op) \in {0, 1}
         /\ submissions[op] \in Nat /\ late[op] \in Nat /\ created[op] \in Nat
         /\ Cardinality(Tickets(op)) \in Nat
<1>1. Counted(op) /\ Due(op) \in {0, 1}
  BY DEF DispatcherInv, TicketInv, Counted, Due
<1>2. submissions[op] \in Nat /\ late[op] \in Nat /\ created[op] \in Nat
  BY DEF DispatcherInv, D!TypeOK
<1> QED BY <1>1, <1>2, TicketsFinite

LEMMA QuietCount ==
  ASSUME DispatcherInv, NEW op \in D!Operation, Tickets(op)' \subseteq Tickets(op),
         submissions' = submissions, late' = late, activation' = activation, created' = created
  PROVE  Counted(op)'
<1>1. Due(op)' = Due(op)
  BY DEF Due
<1>2. Cardinality(Tickets(op)') <= Cardinality(Tickets(op)) /\ Cardinality(Tickets(op)') \in Nat
  BY FewerTickets
<1> HIDE DEF Due, Tickets
<1> QED BY <1>1, <1>2, CountedNow DEF Counted

\* A record for another operation, or none: it is counted when it is made.
LEMMA NewRecordCount ==
  ASSUME DispatcherInv, NEW op \in D!Operation, Tickets(op)' \subseteq Tickets(op),
         submissions' = submissions, late' = late,
         NEW r \in D!Record \cup {Nil}, D!Writes(r),
         r # Nil => activation = Nil \/ D!Op(r) # D!Op(activation)
  PROVE  Counted(op)'
<1>1. Cardinality(Tickets(op)') <= Cardinality(Tickets(op)) /\ Cardinality(Tickets(op)') \in Nat
  BY FewerTickets
<1>2. activation' = r
  BY DEF D!Writes
<1>3. created \in [D!Operation -> Nat]
  BY DEF DispatcherInv, D!TypeOK
<1> HIDE DEF Tickets
<1>4. CASE r # Nil /\ D!Op(r) = op
  <2>1. created' = [created EXCEPT ![op] = @ + 1]
    BY <1>4 DEF D!Writes
  <2>2. created'[op] = created[op] + 1 /\ Due(op)' \in {0, 1}
    BY <1>3, <2>1 DEF Due
  <2> HIDE DEF Due
  <2> QED BY <1>1, <2>2, CountedNow DEF Counted
<1>5. CASE r = Nil \/ D!Op(r) # op
  <2>1. Due(op)' = 0
    BY <1>2, <1>5 DEF Due
  <2>2. created'[op] = created[op]
    <3>1. CASE r = Nil
      BY <3>1 DEF D!Writes
    <3>2. CASE r # Nil /\ D!Op(r) # op
      <4> DEFINE p == D!Op(r)
      <4>1. created' = [created EXCEPT ![p] = @ + 1]
        BY <3>2 DEF D!Writes
      <4>2. p # op
        BY <3>2
      <4> HIDE DEF p
      <4> QED BY <1>3, <4>1, <4>2
    <3> QED BY <1>5, <3>1, <3>2
  <2> HIDE DEF Due
  <2> QED BY <1>1, <2>1, <2>2, CountedNow DEF Counted
<1> QED BY <1>4, <1>5

\* The tickets after a step of d.
LEMMA StepTickets ==
  ASSUME DispatcherInv, NEW d \in Dispatchers, Steps(d), NEW op
  PROVE  /\ Tickets(op)' \subseteq Tickets(op) \cup {d}
         /\ NoTicket(d) => Tickets(op)' \subseteq Tickets(op)
         /\ ~Ticket(d, op)' => Tickets(op)' \subseteq Tickets(op) \ {d}
<1>1. \A e \in Dispatchers : e # d /\ Ticket(e, op)' => Ticket(e, op)
  BY OthersKept
<1>2. \A e : e \in Tickets(op) <=> e \in Dispatchers /\ Ticket(e, op)
  BY DEF Tickets
<1>3. \A e : e \in Tickets(op)' <=> e \in Dispatchers /\ Ticket(e, op)'
  BY DEF Tickets
<1>4. NoTicket(d) => (Ticket(d, op)' => Ticket(d, op))
  BY DEF NoTicket
<1> QED BY <1>1, <1>2, <1>3, <1>4

LEMMA CreateCount ==
  ASSUME DispatcherInv, NEW d \in Dispatchers, D!Create(d), NEW op \in D!Operation
  PROVE  Counted(op)'
<1> DEFINE new == [ids |-> disp[d].pend, attempt |-> 1, state |-> "pending"]
<1>1. Steps(d)
  BY DEF Steps, Prepares
<1>2. Tickets(op)' \subseteq Tickets(op)
  BY <1>1, CreateKeeps, StepTickets
<1>3. /\ disp[d].pc = "create" /\ submissions' = submissions /\ late' = late
      /\ \/ activation' = activation /\ created' = created
         \/ owner = d /\ D!Writes(new)
  BY DEF D!Create, D!Save, D!native
<1>4. CASE activation' = activation /\ created' = created
  BY <1>2, <1>3, <1>4, QuietCount
<1>5. CASE owner = d /\ D!Writes(new)
  <2>1. StageInv(d) /\ CopyInv(d) /\ disp[d] \in D!Dispatcher
    BY DEF DispatcherInv, D!TypeOK
  <2>2. disp[d].pend # {} /\ disp[d].pend \subseteq Msgs /\ disp[d].rec = Nil
    BY <1>3, <2>1, Fields DEF StageInv
  <2>3. activation = Nil
    BY <1>3, <1>5, <2>1, <2>2 DEF CopyInv
  <2>4. new \in D!Record
    BY <2>2 DEF D!Record, DispatcherInv, D!ActivationAssumption
  <2> HIDE DEF new
  <2> QED BY <1>2, <1>3, <1>5, <2>3, <2>4, NewRecordCount
<1> QED BY <1>3, <1>4, <1>5

LEMMA ClearCount ==
  ASSUME DispatcherInv, NEW d \in Dispatchers, D!Clear(d), NEW op \in D!Operation
  PROVE  Counted(op)'
<1>1. Steps(d)
  BY DEF Steps, Prepares
<1>2. Tickets(op)' \subseteq Tickets(op)
  BY <1>1, ClearKeeps, StepTickets
<1>3. /\ submissions' = submissions /\ late' = late
      /\ (activation' = activation /\ created' = created) \/ D!Writes(Nil)
  BY DEF D!Clear, D!Save, D!native
<1>4. CASE activation' = activation /\ created' = created
  BY <1>2, <1>3, <1>4, QuietCount
<1>5. CASE D!Writes(Nil)
  BY <1>2, <1>3, <1>5, NewRecordCount
<1> QED BY <1>3, <1>4, <1>5

\* The ticket for a submission is what was due.
LEMMA SubmitCount ==
  ASSUME DispatcherInv, NEW d \in Dispatchers, D!Submit(d), NEW op \in D!Operation
  PROVE  Counted(op)'
<1>1. Steps(d)
  BY DEF Steps, Prepares
<1>2. submissions' = submissions /\ late' = late
  BY DEF D!Submit, D!native
<1>3. CASE activation' = activation /\ created' = created /\ NoTicket(d)
  BY <1>1, <1>2, <1>3, StepTickets, QuietCount
<1>4. CASE /\ activation # Nil /\ activation.state = "pending"
           /\ activation' = [activation EXCEPT !.state = "submitting"]
           /\ D!Writes(activation')
           /\ \A any : Ticket(d, any)' => any = D!Op(activation)
  <2>1. activation \in D!Record
    BY <1>4 DEF DispatcherInv, D!TypeOK
  <2>2. D!Op(activation') = D!Op(activation) /\ activation'.state = "submitting"
    BY <1>4, <2>1, StateTyped
  <2>3. created' = created
    BY <1>4, <2>2 DEF D!Writes
  <2>4. Due(op)' = 0
    BY <2>2 DEF Due
  <2>5. CASE D!Op(activation) = op
    <3>1. Due(op) = 1
      BY <1>4, <2>5 DEF Due
    <3>2. Cardinality(Tickets(op)') <= Cardinality(Tickets(op)) + 1 /\ Cardinality(Tickets(op)') \in Nat
      BY <1>1, StepTickets, OneMoreTicket
    <3> HIDE DEF Due, Tickets
    <3> QED BY <1>2, <2>3, <2>4, <3>1, <3>2, CountedNow DEF Counted
  <2>6. CASE D!Op(activation) # op
    <3>1. ~Ticket(d, op)'
      BY <1>4, <2>6
    <3>2. Tickets(op)' \subseteq Tickets(op)
      BY <1>1, <3>1, StepTickets
    <3>3. Cardinality(Tickets(op)') <= Cardinality(Tickets(op)) /\ Cardinality(Tickets(op)') \in Nat
      BY <3>2, FewerTickets
    <3> HIDE DEF Due, Tickets
    <3> QED BY <1>2, <2>3, <2>4, <3>3, CountedNow DEF Counted
  <2> QED BY <2>5, <2>6
<1> QED BY <1>3, <1>4, SubmitKeeps

\* A deferred submission is due again: the owner gives up its ticket.
LEMMA SaveOutcomeCount ==
  ASSUME DispatcherInv, NEW d \in Dispatchers, D!SaveOutcome(d), NEW op \in D!Operation
  PROVE  Counted(op)'
<1> DEFINE x == disp[d]
           r == D!After(x)
<1>1. Steps(d) /\ EndsTick(d)
  BY DEF Steps, EndsTick
<1>2. Tickets(op)' \subseteq Tickets(op) \ {d}
  BY <1>1, EndsTickKeeps, StepTickets
<1>3. submissions' = submissions /\ late' = late
  BY DEF D!SaveOutcome, D!native
<1>4. CASE activation' = activation /\ created' = created
  BY <1>2, <1>3, <1>4, QuietCount
<1>5. CASE /\ D!Writes(r) /\ r \in D!Record
           /\ D!Op(activation) = D!Op(x.rec)
           /\ D!Op(r) # D!Op(x.rec)
  <2> HIDE DEF r
  <2>1. Tickets(op)' \subseteq Tickets(op)
    BY <1>2
  <2> QED BY <1>3, <1>5, <2>1, NewRecordCount
<1>6. CASE /\ owner = d /\ D!Writes(r) /\ r \in D!Record /\ activation # Nil
           /\ x.rec \in D!Record
           /\ D!Op(activation) = D!Op(x.rec)
           /\ D!Op(r) = D!Op(x.rec)
           /\ r.state = "pending" => D!Deferred(x.out) /\ ~x.recovery
  <2> HIDE DEF r
  <2>1. activation' = r /\ created' = created
    BY <1>6 DEF D!Writes
  <2>2. CASE r.state = "pending" /\ D!Op(r) = op
    <3>1. x.rec # Nil /\ x.pc = "save"
      BY <1>6 DEF DispatcherInv, D!ActivationAssumption, D!SaveOutcome
    <3>2. d \in Tickets(op)
      BY <1>6, <2>2, <3>1 DEF Tickets, Ticket
    <3>3. Cardinality(Tickets(op)') + 1 <= Cardinality(Tickets(op)) /\ Cardinality(Tickets(op)') \in Nat
      BY <1>2, <3>2, OneTicketLess
    <3>4. Due(op)' \in {0, 1}
      BY DEF Due
    <3> HIDE DEF Due, Tickets
    <3> QED BY <1>3, <2>1, <3>3, <3>4, CountedNow DEF Counted
  <2>3. CASE ~(r.state = "pending" /\ D!Op(r) = op)
    <3>1. Due(op)' = 0
      BY <2>1, <2>3 DEF Due
    <3>2. Cardinality(Tickets(op)') <= Cardinality(Tickets(op)) /\ Cardinality(Tickets(op)') \in Nat
      BY <1>2, FewerTickets
    <3> HIDE DEF Due, Tickets
    <3> QED BY <1>3, <2>1, <3>1, <3>2, CountedNow DEF Counted
  <2> QED BY <2>2, <2>3
<1> HIDE DEF x, r
<1>7. \/ activation' = activation /\ created' = created
      \/ /\ owner = d /\ D!Writes(r) /\ r \in D!Record
         /\ activation # Nil /\ x.rec \in D!Record
         /\ D!Op(activation) = D!Op(x.rec)
         /\ \/ D!Op(r) # D!Op(x.rec)
            \/ /\ D!Op(r) = D!Op(x.rec)
               /\ r.state = "pending" => D!Deferred(x.out) /\ ~x.recovery
  BY SaveOutcomeWrites DEF x, r
<1> QED BY <1>4, <1>5, <1>6, <1>7

\* A submission uses up the ticket of the one who makes it.
LEMMA ActivatesCount ==
  ASSUME DispatcherInv, NEW d \in Dispatchers, Activates(d), NEW op \in D!Operation
  PROVE  Counted(op)'
<1>1. Steps(d)
  BY DEF Steps
<1>2. Tickets(op)' \subseteq Tickets(op)
  BY <1>1, ActivatesKeeps, StepTickets
<1>3. /\ D!Current(d) \in D!Operation /\ activation' = activation /\ created' = created
      /\ (turn' = turn /\ late' = late /\ submissions' = submissions) \/ Submits(d)
  BY ActivatesNative
<1>4. CASE late' = late /\ submissions' = submissions
  BY <1>2, <1>3, <1>4, QuietCount
<1>5. CASE Submits(d)
  <2> DEFINE p == D!Current(d)
  <2>1. /\ Ticket(d, p) /\ \A any : ~Ticket(d, any)'
        /\ \/ submissions' = [submissions EXCEPT ![p] = @ + 1] /\ late' = late
           \/ late' = [late EXCEPT ![p] = @ + 1] /\ submissions' = submissions
    BY <1>5 DEF Submits, D!CarriedOut
  <2>2. Due(op)' = Due(op) /\ created'[op] = created[op]
    BY <1>3 DEF Due
  <2>3. p \in D!Operation /\ submissions \in [D!Operation -> Nat] /\ late \in [D!Operation -> Nat]
    BY <1>3 DEF DispatcherInv, D!TypeOK
  <2>4. CASE p = op
    <3>1. d \in Tickets(op)
      BY <2>1, <2>4 DEF Tickets
    <3>2. Tickets(op)' \subseteq Tickets(op) \ {d}
      BY <1>1, <2>1, StepTickets
    <3>3. Cardinality(Tickets(op)') + 1 <= Cardinality(Tickets(op)) /\ Cardinality(Tickets(op)') \in Nat
      BY <3>1, <3>2, OneTicketLess
    <3> HIDE DEF p
    <3>4. \/ submissions'[op] = submissions[op] + 1 /\ late'[op] = late[op]
          \/ late'[op] = late[op] + 1 /\ submissions'[op] = submissions[op]
      BY <2>1, <2>3, <2>4
    <3> HIDE DEF Due, Tickets
    <3> QED BY <2>2, <3>3, <3>4, CountedNow DEF Counted
  <2>5. CASE p # op
    <3> HIDE DEF p
    <3>1. submissions'[op] = submissions[op] /\ late'[op] = late[op]
      BY <2>1, <2>3, <2>5
    <3>2. Cardinality(Tickets(op)') <= Cardinality(Tickets(op)) /\ Cardinality(Tickets(op)') \in Nat
      BY <1>2, FewerTickets
    <3> HIDE DEF Due, Tickets
    <3> QED BY <2>2, <3>1, <3>2, CountedNow DEF Counted
  <2> QED BY <2>4, <2>5
<1> QED BY <1>3, <1>4, <1>5

LEMMA StepsCount ==
  ASSUME DispatcherInv, NEW d \in Dispatchers, Steps(d), NEW op \in D!Operation
  PROVE  Counted(op)'
<1>1. CASE EndsTick(d) /\ ~D!SaveOutcome(d)
  <2>1. submissions' = submissions /\ late' = late /\ activation' = activation /\ created' = created
    BY <1>1 DEF EndsTick, D!Attach, D!Refresh, D!RecoverExpired, D!ReadPending, D!Wait,
                D!Throws, D!Detach, D!Crash, D!native
  <2>2. Tickets(op)' \subseteq Tickets(op)
    BY <1>1, EndsTickKeeps, StepTickets
  <2> QED BY <2>1, <2>2, QuietCount
<1>2. CASE Flags(d)
  <2>1. submissions' = submissions /\ late' = late /\ activation' = activation /\ created' = created
    BY <1>2 DEF Flags, D!BackoffEnds, D!Close, D!native
  <2>2. Tickets(op)' \subseteq Tickets(op)
    BY <1>2, FlagsKeep, StepTickets
  <2> QED BY <2>1, <2>2, QuietCount
<1>3. CASE D!ReadRecord(d) \/ D!Check(d) \/ D!Settle(d)
  <2>1. submissions' = submissions /\ late' = late /\ activation' = activation /\ created' = created
    BY <1>3 DEF D!ReadRecord, D!Check, D!Settle, D!native
  <2>2. NoTicket(d)
    BY <1>3, ReadRecordKeeps, CheckKeeps, SettleKeeps DEF NoTicket
  <2>3. Tickets(op)' \subseteq Tickets(op)
    BY <2>2, StepTickets
  <2> QED BY <2>1, <2>3, QuietCount
<1> QED BY <1>1, <1>2, <1>3, SaveOutcomeCount, ClearCount, CreateCount, SubmitCount, ActivatesCount
        DEF Steps, Prepares

-----------------------------------------------------------------------------
(***************************************************************************)
(* The steps of the runtime, its user and the store.                       *)
(***************************************************************************)
Mail ==
  (\E m \in Msgs : D!Send(m)) \/ D!Claim \/ D!Acknowledge \/ D!ClaimExpires
Turns ==
  (\E op \in D!Operation : D!TurnBegins(op) \/ D!TurnEnds(op)) \/ D!UserTurn

\* Every step is a dispatcher's, the mailbox's, the runtime's, or a lapse.
LEMMA StepCases ==
  ASSUME D!Next
  PROVE  \/ \E d \in Dispatchers : Steps(d)
         \/ Mail \/ Turns \/ D!Lapse \/ \E op \in D!Operation : D!LateArrival(op)
BY DEF D!Next, D!Tick, Steps, EndsTick, Flags, Prepares, Activates, Mail, Turns

\* A step that leaves the dispatchers and the record alone keeps what they have in hand,
\* also when the binding lapses.
LEMMA DispatchersKept ==
  ASSUME DispatcherInv, disp' = disp, owner' = owner \/ owner' = Nil,
         activation' = activation
  PROVE  /\ \A d \in Dispatchers : StageInv(d)' /\ CopyInv(d)'
         /\ \A op : Tickets(op)' \subseteq Tickets(op)
<1>1. \A d \in Dispatchers : Nil # d
  BY DEF DispatcherInv, D!ActivationAssumption
<1>2. ASSUME NEW d \in Dispatchers
      PROVE  StageInv(d)' /\ CopyInv(d)' /\ \A op : Ticket(d, op)' => Ticket(d, op)
  <2>1. StageInv(d) /\ CopyInv(d)
    BY DEF DispatcherInv
  <2>2. owner' = d => owner = d
    BY <1>1
  <2> QED BY <2>1, <2>2 DEF StageInv, CopyInv, Ticket
<1>3. \A op : Tickets(op)' \subseteq Tickets(op)
  BY <1>2 DEF Tickets
<1> QED BY <1>2, <1>3

LEMMA MailKeeps ==
  ASSUME DispatcherInv, Mail
  PROVE  DispatcherInv'
<1>1. /\ UNCHANGED <<disturbance, owner, activation, disp, known, turn, late, user, submissions, created>>
      /\ waiting' \subseteq Msgs /\ claims' \subseteq Msgs /\ expired' \subseteq Msgs
      /\ sent' \subseteq Msgs
  BY DEF Mail, D!Send, D!Claim, D!Acknowledge, D!ClaimExpires, D!native, DispatcherInv, D!TypeOK
<1>2. /\ \A d \in Dispatchers : StageInv(d)' /\ CopyInv(d)'
      /\ \A op : Tickets(op)' \subseteq Tickets(op)
  BY <1>1, DispatchersKept
<1>3. D!TypeOK' /\ KnownInv'
  BY <1>1 DEF DispatcherInv, D!TypeOK, KnownInv
<1>4. TicketInv'
  BY <1>1, <1>2, QuietCount DEF TicketInv, Counted
<1> QED BY <1>2, <1>3, <1>4 DEF DispatcherInv

LEMMA TurnsKeep ==
  ASSUME DispatcherInv, Turns \/ D!Lapse
  PROVE  DispatcherInv'
<1>1. /\ UNCHANGED <<disturbance, D!mail, activation, disp, known, late, submissions, created>>
      /\ owner' = owner \/ owner' = Nil
  BY DEF Turns, D!TurnBegins, D!TurnEnds, D!UserTurn, D!Lapse, D!native
<1>2. turn' \in [D!Operation -> {"none", "queued", "running", "completed"}] /\ user' \in BOOLEAN
  BY DEF Turns, D!TurnBegins, D!TurnEnds, D!UserTurn, D!Lapse, D!native, DispatcherInv, D!TypeOK
<1>3. /\ \A d \in Dispatchers : StageInv(d)' /\ CopyInv(d)'
      /\ \A op : Tickets(op)' \subseteq Tickets(op)
  BY <1>1, DispatchersKept
<1>4. D!TypeOK' /\ KnownInv'
  BY <1>1, <1>2 DEF DispatcherInv, D!TypeOK, KnownInv, D!mail
<1>5. TicketInv'
  BY <1>1, <1>3, QuietCount DEF TicketInv, Counted
<1> QED BY <1>3, <1>4, <1>5 DEF DispatcherInv

\* A late submission was counted when it was sent on its way.
LEMMA LateArrivalKeeps ==
  ASSUME DispatcherInv, NEW p \in D!Operation, D!LateArrival(p)
  PROVE  DispatcherInv'
<1>1. /\ UNCHANGED <<disturbance, D!mail, owner, activation, disp, known, user, created>>
      /\ late[p] > 0
      /\ late' = [late EXCEPT ![p] = @ - 1]
      /\ turn' = [turn EXCEPT ![p] = "running"]
      /\ submissions' = [submissions EXCEPT ![p] = @ + 1]
  BY DEF D!LateArrival, D!CarriedOut
<1>2. /\ late \in [D!Operation -> Nat] /\ submissions \in [D!Operation -> Nat]
      /\ turn \in [D!Operation -> {"none", "queued", "running", "completed"}]
  BY DEF DispatcherInv, D!TypeOK
<1>3. late' \in [D!Operation -> Nat] /\ submissions' \in [D!Operation -> Nat]
  BY <1>1, <1>2
<1>4. turn' \in [D!Operation -> {"none", "queued", "running", "completed"}]
  BY <1>1, <1>2
<1>5. /\ \A d \in Dispatchers : StageInv(d)' /\ CopyInv(d)'
      /\ \A op : Tickets(op)' \subseteq Tickets(op)
  BY <1>1, DispatchersKept
<1>6. D!TypeOK' /\ KnownInv'
  BY <1>1, <1>3, <1>4 DEF DispatcherInv, D!TypeOK, KnownInv, D!mail
<1>7. ASSUME NEW op \in D!Operation PROVE Counted(op)'
  <2>1. Due(op)' = Due(op) /\ created'[op] = created[op]
    BY <1>1 DEF Due
  <2>2. Cardinality(Tickets(op)') <= Cardinality(Tickets(op)) /\ Cardinality(Tickets(op)') \in Nat
    BY <1>5, FewerTickets
  <2>3. /\ submissions'[op] + late'[op] = submissions[op] + late[op]
        /\ submissions'[op] \in Nat /\ late'[op] \in Nat
    <3>1. CASE op = p
      BY <1>1, <1>2, <3>1
    <3>2. CASE op # p
      BY <1>1, <1>2, <3>2
    <3> QED BY <3>1, <3>2
  <2> HIDE DEF Due, Tickets
  <2> QED BY <2>1, <2>2, <2>3, CountedNow DEF Counted
<1> QED BY <1>5, <1>6, <1>7 DEF DispatcherInv, TicketInv, Counted

LEMMA StepsKeep ==
  ASSUME DispatcherInv, NEW d \in Dispatchers, Steps(d)
  PROVE  DispatcherInv'
<1>1. D!TypeOK' /\ KnownInv'
  BY StepsTyped
<1>2. StageInv(d)' /\ CopyInv(d)'
  <2>1. CASE Prepares(d)
    BY <2>1, ReadRecordKeeps, ClearKeeps, CheckKeeps, CreateKeeps, SettleKeeps, SubmitKeeps
       DEF Prepares, Preserves
  <2> QED BY <2>1, EndsTickKeeps, FlagsKeep, ActivatesKeeps DEF Steps, Preserves
<1>3. \A e \in Dispatchers : StageInv(e)' /\ CopyInv(e)'
  BY <1>2, OthersKept
<1>4. TicketInv'
  BY StepsCount DEF TicketInv, Counted
<1> QED BY <1>1, <1>3, <1>4 DEF DispatcherInv

-----------------------------------------------------------------------------
(***************************************************************************)
(* What the dispatcher guarantees.                                         *)
(***************************************************************************)
LEMMA DispatcherInit ==
  ASSUME D!ActivationAssumption, D!Init
  PROVE  DispatcherInv
<1>1. D!TypeOK
  BY OffTyped DEF D!TypeOK, D!Init, D!Nothing
<1>2. KnownInv
  BY DEF KnownInv, D!Init, D!Nothing
<1>3. ASSUME NEW d \in Dispatchers PROVE StageInv(d) /\ CopyInv(d) /\ \A op : ~Ticket(d, op)
  <2>1. disp[d].pc = "off"
    BY OffTyped DEF D!Init
  <2> QED BY <2>1 DEF StageInv, CopyInv, Ticket, Working
<1>4. ASSUME NEW op \in D!Operation PROVE Counted(op)
  <2>1. Tickets(op) = {}
    BY <1>3 DEF Tickets
  <2>2. Cardinality(Tickets(op)) = 0
    BY <2>1, FS_EmptySet
  <2>3. submissions[op] = 0 /\ late[op] = 0 /\ created[op] = 0 /\ Due(op) = 0
    BY DEF D!Init, Due
  <2> HIDE DEF Tickets, Due
  <2> QED BY <2>2, <2>3 DEF Counted
<1> QED BY <1>1, <1>2, <1>3, <1>4 DEF DispatcherInv, TicketInv, Counted

LEMMA DispatcherStep ==
  ASSUME DispatcherInv, [D!Next]_D!vars
  PROVE  DispatcherInv'
<1>1. CASE D!Next
  BY <1>1, StepCases, StepsKeep, MailKeeps, TurnsKeep, LateArrivalKeeps
<1>2. CASE UNCHANGED D!vars
  <2>1. UNCHANGED <<disturbance, waiting, claims, expired, sent, owner, activation, disp, known, turn,
                    late, user, submissions, created>>
    BY <1>2 DEF D!vars, D!mail, D!native
  <2>2. /\ \A d \in Dispatchers : StageInv(d)' /\ CopyInv(d)'
        /\ \A op : Tickets(op)' \subseteq Tickets(op)
    BY <2>1, DispatchersKept
  <2>3. D!TypeOK' /\ KnownInv'
    BY <2>1 DEF DispatcherInv, D!TypeOK, KnownInv
  <2>4. TicketInv'
    BY <2>1, <2>2, QuietCount DEF TicketInv, Counted
  <2> QED BY <2>2, <2>3, <2>4 DEF DispatcherInv
<1> QED BY <1>1, <1>2

\* The dispatchers keep DispatcherInv, whoever crashes, stalls or takes over: what each has
\* in hand fits its step, the owner's copy of the record is the stored one, and every
\* submission still to be made is paid for by a record (inbox-dispatcher.ts, tick).
THEOREM DispatcherInvariant == DispatcherSpec => []DispatcherInv
<1>1. D!Init => DispatcherInv
  BY DispatcherAssumption, DispatcherInit
<1>2. DispatcherInv /\ [D!Next]_D!vars => DispatcherInv'
  BY DispatcherStep
<1> QED BY <1>1, <1>2, PTL DEF DispatcherSpec, D!Spec

\* The dispatcher's state keeps its types: an outcome or a record is there at every step of
\* the tick that uses one.
THEOREM DispatcherTypes == DispatcherSpec => []D!TypeOK
<1>1. DispatcherInv => D!TypeOK
  BY DEF DispatcherInv
<1> QED BY <1>1, DispatcherInvariant, PTL

\* Each record the store accepts (ActivationStore.save) leads to at most one submission to
\* the runtime, carried out or on its way, for any number of dispatchers and messages.
THEOREM SubmissionsAreSingle == DispatcherSpec => []SubmittedOncePerRecord
<1>1. DispatcherInv => SubmittedOncePerRecord
  <2> SUFFICES ASSUME DispatcherInv, NEW op \in D!Operation
               PROVE  submissions[op] + late[op] <= created[op]
    BY DEF SubmittedOncePerRecord, D!SubmittedOncePerRecord
  <2>1. /\ submissions[op] + late[op] + Cardinality(Tickets(op)) + Due(op) <= created[op]
        /\ Due(op) \in {0, 1} /\ submissions[op] \in Nat /\ late[op] \in Nat /\ created[op] \in Nat
        /\ Cardinality(Tickets(op)) \in Nat
    BY CountedNow DEF Counted
  <2> HIDE DEF Tickets, Due
  <2> QED BY <2>1
<1> QED BY <1>1, DispatcherInvariant, PTL

LEMMA DoubtStep ==
  ASSUME DispatcherInv, D!Next, activation # Nil, activation' # Nil,
         D!Op(activation) = D!Op(activation'),
         activation.state \in {"accepted", "ambiguous", "exhausted"}
  PROVE  activation'.state # "pending"
<1>1. CASE activation' = activation
  BY <1>1
<1>2. ASSUME NEW d \in Dispatchers, Steps(d), activation' # activation
      PROVE  activation'.state # "pending"
  <2>1. StageInv(d) /\ CopyInv(d)
    BY DEF DispatcherInv
  <2>2. CASE D!Create(d)
    <3>1. owner = d /\ disp[d].pc = "create"
      BY <1>2, <2>2 DEF D!Create, D!Save
    <3>2. activation = Nil
      BY <2>1, <3>1 DEF StageInv, CopyInv
    <3> QED BY <3>2
  <2>3. CASE D!Clear(d)
    BY <1>2, <2>3 DEF D!Clear, D!Save, D!Writes
  <2>4. CASE D!Submit(d)
    BY <1>2, <2>4, SubmitKeeps
  <2>5. CASE D!SaveOutcome(d)
    <3> DEFINE r == D!After(disp[d])
    <3> HIDE DEF r
    <3>1. /\ D!Writes(r) /\ D!Op(activation) = D!Op(disp[d].rec)
          /\ \/ D!Op(r) # D!Op(disp[d].rec)
             \/ r.state = "pending" => activation.state = "submitting"
      BY <1>2, <2>5, SaveOutcomeWrites DEF r
    <3>2. activation' = r
      BY <3>1 DEF D!Writes
    <3> QED BY <3>1, <3>2
  <2>6. CASE EndsTick(d) /\ ~D!SaveOutcome(d)
    BY <1>2, <2>6 DEF EndsTick, D!Attach, D!Refresh, D!RecoverExpired, D!ReadPending, D!Wait,
                      D!Throws, D!Detach, D!Crash
  <2>7. CASE Flags(d)
    BY <1>2, <2>7 DEF Flags, D!BackoffEnds, D!Close
  <2>8. CASE D!ReadRecord(d) \/ D!Check(d) \/ D!Settle(d)
    BY <1>2, <2>8 DEF D!ReadRecord, D!Check, D!Settle
  <2>9. CASE Activates(d)
    BY <1>2, <2>9, ActivatesNative
  <2> QED BY <1>2, <2>2, <2>3, <2>4, <2>5, <2>6, <2>7, <2>8, <2>9 DEF Steps, Prepares
<1>3. CASE Mail \/ Turns \/ D!Lapse \/ \E op \in D!Operation : D!LateArrival(op)
  <2>1. activation' = activation
    BY <1>3 DEF Mail, D!Send, D!Claim, D!Acknowledge, D!ClaimExpires, Turns, D!TurnBegins, D!TurnEnds,
                D!UserTurn, D!Lapse, D!LateArrival
  <2> QED BY <1>1, <2>1
<1> QED BY <1>1, <1>2, <1>3, StepCases

\* A record whose submission was accepted or is uncertain never becomes pending again for
\* the same operation: a deferral after a recovery keeps its state.
THEOREM DoubtIsAlwaysKept == DispatcherSpec => DoubtIsKept
<1>1. DispatcherInv /\ [D!Next]_D!vars =>
        [activation # Nil /\ activation' # Nil /\ D!Op(activation) = D!Op(activation')
         /\ activation.state \in {"accepted", "ambiguous", "exhausted"}
           => activation'.state # "pending"]_D!vars
  BY DoubtStep
<1> QED BY <1>1, DispatcherInvariant, PTL DEF DispatcherSpec, D!Spec, DoubtIsKept, D!DoubtIsKept
=============================================================================
