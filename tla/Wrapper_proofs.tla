--------------------------- MODULE Wrapper_proofs ---------------------------
(***************************************************************************)
(* Theorems about the experimental wrapper, for any number of wrappers and *)
(* other clients of the name, any signals, failures, lapses and crashes.   *)
(***************************************************************************)
EXTENDS Wrapper, TLAPS

(***************************************************************************)
(* The inductive invariant: what the state of one wrapper says about its   *)
(* claim, its session and the name.                                        *)
(***************************************************************************)

Started == {"register", "write", "publish", "verify", "bridge", "prepare", "running"}
Ending == {"cleanup", "done", "crashed"}

\* From the claim to the end of the child the token is ours, no exception was thrown and
\* the cleanup has not begun.
StartInv(w) ==
  LET r == wrapper[w]
  IN  /\ r.pc \in Started => claim = w /\ r.holds
      /\ r.pc \in {"publish", "verify", "bridge", "prepare", "running"} => r.registered
      /\ r.pc = "claim" => ~r.registered
      /\ r.pc \notin Ending => r.at = "bridge" /\ ~r.threw
      /\ r.freed => claim # w /\ r.pc \in Ending
      /\ "registration" \in r.released => r.pc \in Ending /\ (~r.registered \/ w \notin lease)
      /\ "claim" \in r.released => r.pc \in Ending

\* A child runs under the claim.
ChildInv(w) ==
  ChildRunning(w) => claim = w /\ wrapper[w].pc \in {"running", "crashed"}

\* The claim covers the session, up to the last attempt.
CoverInv(w) ==
  wrapper[w].registered /\ w \in lease => claim = w \/ wrapper[w].final

\* How far the cleanup has come: a phase that is behind is released or among the
\* failures, and what was released without a failure is gone from the store.
CleanInv(w) ==
  LET r == wrapper[w]
  IN  r.pc = "cleanup" =>
        /\ ~r.threw => r.holds /\ (r.registered \/ "registration" \in r.released)
        /\ r.at \in {"member", "heartbeat"} => w \notin record /\ Mode[w] = "close"
        /\ r.at \in {"claim", "redis", "report"} => "registration" \in r.released \cup r.failures
        /\ r.at \in {"redis", "report"} =>
             "claim" \in r.released \cup r.failures \/ "registration" \in r.failures
        /\ ~r.threw /\ "registration" \in r.released \ r.failures =>
             w \notin record /\ (Mode[w] = "unregister" => w \in removed)
        /\ ~r.threw /\ "claim" \in r.released => claim # w

\* An exit code of zero is true.
ExitInv(w) ==
  wrapper[w].pc = "done" /\ wrapper[w].code = "zero" =>
    /\ wrapper[w].signals = 0
    /\ claim # w /\ w \notin record
    /\ Mode[w] = "unregister" => w \in removed

OwnInv(w) == StartInv(w) /\ ChildInv(w) /\ CoverInv(w) /\ CleanInv(w) /\ ExitInv(w)

\* A live session with a record is listed under the name.
Listed == record \cap lease \subseteq members

WrapperInv == TypeOK /\ Listed /\ \A w \in Wrappers : OwnInv(w)

-----------------------------------------------------------------------------
(***************************************************************************)
(* Type correctness.                                                       *)
(***************************************************************************)

\* What the phases do to a wrapper keeps its type.
LEMMA PhaseTypes ==
  ASSUME NEW r \in Wrapper, NEW p \in Phases
  PROVE  /\ Released(r, p) \in Wrapper /\ Failed(r, p) \in Wrapper
         /\ Threw(r) \in Wrapper /\ Forced(r) \in Wrapper
         /\ [r EXCEPT !.at = NextPhase(p)] \in Wrapper
         /\ finalExitCode(r) \in {"zero", "fail", "signal"}
<1>1. NextPhase(p) \in Phases \cup {"member", "heartbeat", "report"}
  BY DEF Phases, NextPhase
<1>2. Released(r, p) \in Wrapper /\ Failed(r, p) \in Wrapper
  BY <1>1 DEF Released, Failed, Wrapper
<1>3. Threw(r) \in Wrapper
  BY DEF Threw, Wrapper
<1>4. Forced(r) \in Wrapper
  BY ZenonT(60) DEF Forced, Wrapper, Phases
<1>5. [r EXCEPT !.at = NextPhase(p)] \in Wrapper
  BY <1>1 DEF Wrapper
<1>6. finalExitCode(r) \in {"zero", "fail", "signal"}
  BY DEF finalExitCode, Wrapper
<1> QED BY <1>2, <1>3, <1>4, <1>5, <1>6

\* Only the type of the wrapper that steps is at stake.
LEMMA BecomesTyped ==
  ASSUME wrapper \in [Wrappers -> Wrapper], NEW w \in Wrappers, NEW r \in Wrapper, Becomes(w, r)
  PROVE  /\ wrapper' \in [Wrappers -> Wrapper]
         /\ wrapper'[w] = r
         /\ \A v \in Wrappers \ {w} : wrapper'[v] = wrapper[v]
BY DEF Becomes

\* Every step of a wrapper leaves a wrapper.
LEMMA StepBecomes ==
  ASSUME NEW w \in Wrappers, wrapper[w] \in Wrapper,
         \/ Step(w) \/ ForwardSignal(w) \/ Escalate(w) \/ ChildExits(w) \/ Deadline(w) \/ Crash(w)
  PROVE  \E r \in Wrapper : Becomes(w, r)
<1> DEFINE r == wrapper[w]
<1>a. r \in Wrapper
  OBVIOUS
<1>0. r \in Wrapper /\ Threw(r) \in Wrapper /\ Forced(r) \in Wrapper
  BY PhaseTypes DEF Phases
<1>1. CASE AcquireClaim(w)
  <2>1. [r EXCEPT !.pc = "register", !.holds = TRUE] \in Wrapper
    BY <1>a DEF Wrapper
  <2> QED BY <1>0, <1>1, <2>1 DEF AcquireClaim
<1>2. CASE RegisterSession(w) \/ RegisterPublishes(w)
  <2>1. [r EXCEPT !.pc = "write"] \in Wrapper /\ [r EXCEPT !.pc = "verify"] \in Wrapper
    BY <1>a DEF Wrapper
  <2> QED BY <1>2, <2>1 DEF RegisterSession, RegisterPublishes, Goes
<1>3. CASE RegisterWrites(w)
  <2>1. [r EXCEPT !.pc = "publish", !.registered = TRUE] \in Wrapper
    BY <1>a DEF Wrapper
  <2> QED BY <1>3, <2>1 DEF RegisterWrites
<1>4. CASE RegisterFails(w)
  BY <1>0, <1>4 DEF RegisterFails
<1>5. CASE AssertExclusiveSession(w)
  <2>1. [r EXCEPT !.pc = "bridge"] \in Wrapper
    BY <1>a DEF Wrapper
  <2> QED BY <1>0, <1>5, <2>1 DEF AssertExclusiveSession, Goes
<1>6. CASE StartBridge(w)
  <2>1. [r EXCEPT !.bridge = TRUE, !.pc = IF r.signals = 0 THEN "prepare" ELSE "cleanup",
                  !.code = IF r.signals = 0 THEN @ ELSE "signal"] \in Wrapper
    <3>1. \A pc \in {"prepare", "cleanup"}, code \in {"zero", "fail", "signal"} :
            [r EXCEPT !.bridge = TRUE, !.pc = pc, !.code = code] \in Wrapper
      BY ZenonT(60), <1>a DEF Wrapper
    <3>2. r.code \in {"zero", "fail", "signal"}
      BY <1>a DEF Wrapper
    <3> QED BY <3>1, <3>2
  <2> QED BY <1>0, <1>6, <2>1 DEF StartBridge
<1>7. CASE Launch(w)
  <2>1. [r EXCEPT !.pc = "running", !.child = "running"] \in Wrapper
    BY <1>a DEF Wrapper
  <2>2. [r EXCEPT !.pc = "cleanup", !.code = "signal"] \in Wrapper
    BY <1>a DEF Wrapper
  <2> QED BY <1>0, <1>7, <2>1, <2>2 DEF Launch
<1>8. CASE ForwardSignal(w)
  <2> DEFINE q == [r EXCEPT !.signals = @ + 1]
  <2>1. q \in Wrapper
    BY <1>0, <1>8 DEF ForwardSignal, Wrapper, MaxSignals
  <2>2. Forced(q) \in Wrapper
    BY <2>1, PhaseTypes DEF Phases
  <2>3. [q EXCEPT !.child = IF q.signals = 1 /\ @ = "running" THEN "asked" ELSE "killed"] \in Wrapper
    BY ZenonT(60), <2>1 DEF Wrapper
  <2> QED BY <1>8, <2>1, <2>2, <2>3 DEF ForwardSignal
<1>9. CASE Escalate(w)
  <2>1. [r EXCEPT !.child = "killed"] \in Wrapper
    BY <1>a DEF Wrapper
  <2> QED BY <1>9, <2>1 DEF Escalate
<1>10. CASE ChildExits(w)
  <2>1. \A code \in {"zero", "fail", "signal"} :
          [r EXCEPT !.child = "gone", !.code = code,
                    !.pc = IF @ = "running" THEN "cleanup" ELSE @] \in Wrapper
    <3>1. \A code \in {"zero", "fail", "signal"}, pc \in {"cleanup", r.pc} :
            [r EXCEPT !.child = "gone", !.code = code, !.pc = pc] \in Wrapper
      BY ZenonT(60), <1>a DEF Wrapper
    <3> QED BY <3>1
  <2> QED BY <1>10, <2>1 DEF ChildExits
<1>11. ASSUME NEW p \in Phases, PassOver(w, p) PROVE \E q \in Wrapper : Becomes(w, q)
  <2>1. /\ Released(r, p) \in Wrapper /\ Failed(r, p) \in Wrapper
        /\ [r EXCEPT !.at = NextPhase(p)] \in Wrapper
    BY <1>0, PhaseTypes
  <2>2. [r EXCEPT !.released = @ \cup {p}, !.at = NextPhase(p)] \in Wrapper
    <3> DEFINE n == NextPhase(p)
    <3>1. n = [r EXCEPT !.at = n].at /\ [r EXCEPT !.at = n] \in Wrapper
      BY <1>a, <2>1 DEF Wrapper
    <3> HIDE DEF n
    <3> QED BY ZenonT(60), <1>a, <1>11, <3>1 DEF Wrapper, n
  <2> QED BY <1>11, <2>1, <2>2 DEF PassOver
<1>12. CASE CloseBridge(w)
  <2>1. Released(r, "bridge") \in Wrapper /\ Failed(r, "bridge") \in Wrapper
    BY <1>0, PhaseTypes DEF Phases
  <2> QED BY <1>12, <2>1 DEF CloseBridge
<1>13. CASE UnregisterExclusive(w)
  <2> DEFINE q == [r EXCEPT !.cut = TRUE]
  <2>1. q \in Wrapper
    BY <1>a DEF Wrapper
  <2>2. Released(q, "registration") \in Wrapper /\ Failed(q, "registration") \in Wrapper
    BY <2>1, PhaseTypes DEF Phases
  <2>3. [Released(q, "registration") EXCEPT !.failures = @ \cup {"registration"}] \in Wrapper
    BY <2>2 DEF Wrapper, Phases
  <2> QED BY <1>13, <2>2, <2>3 DEF UnregisterExclusive
<1>14. CASE CloseSession(w) \/ RemoveMember(w)
  <2>1. [r EXCEPT !.at = "member"] \in Wrapper /\ [r EXCEPT !.at = "heartbeat"] \in Wrapper
    BY <1>a DEF Wrapper
  <2> QED BY <1>14, <2>1 DEF CloseSession, RemoveMember
<1>15. CASE RemoveHeartbeat(w)
  <2>1. [r EXCEPT !.registered = FALSE] \in Wrapper
    BY <1>a DEF Wrapper
  <2>2. Released([r EXCEPT !.registered = FALSE], "registration") \in Wrapper
    BY <2>1, PhaseTypes DEF Phases
  <2> QED BY <1>15, <2>2 DEF RemoveHeartbeat
<1>16. CASE CloseFails(w)
  <2>1. Failed(r, "registration") \in Wrapper
    BY <1>0, PhaseTypes DEF Phases
  <2> QED BY <1>16, <2>1 DEF CloseFails
<1>17. CASE ReleaseClaim(w)
  <2>1. \A freed \in BOOLEAN : [r EXCEPT !.freed = freed] \in Wrapper
    BY <1>a DEF Wrapper
  <2>2. /\ Released(r, "claim") \in Wrapper /\ Failed(r, "claim") \in Wrapper
        /\ Released([r EXCEPT !.freed = TRUE], "claim") \in Wrapper
        /\ \A freed \in BOOLEAN : Failed([r EXCEPT !.freed = freed], "claim") \in Wrapper
    BY <1>0, <2>1, PhaseTypes DEF Phases
  <2> QED BY <1>17, <2>2 DEF ReleaseClaim
<1>18. CASE ShutdownRedis(w)
  <2>1. Released(r, "redis") \in Wrapper
    BY <1>0, PhaseTypes DEF Phases
  <2>2. [Released(r, "redis") EXCEPT !.cut = TRUE] \in Wrapper
    BY <2>1 DEF Wrapper
  <2> QED BY <1>18, <2>2 DEF ShutdownRedis
<1>19. CASE Report(w)
  <2>1. finalExitCode(r) \in {"zero", "fail", "signal"}
    BY <1>0, PhaseTypes DEF Phases
  <2>2. [r EXCEPT !.at = "bridge", !.final = TRUE] \in Wrapper
    BY ZenonT(60), <1>0 DEF Wrapper, Phases
  <2>3. \A code \in {"zero", "fail", "signal"} :
          [r EXCEPT !.pc = "done", !.cut = TRUE, !.code = code] \in Wrapper
    BY <1>a DEF Wrapper
  <2> QED BY <1>19, <2>1, <2>2, <2>3 DEF Report
<1>20. CASE Deadline(w)
  BY <1>0, <1>20 DEF Deadline
<1>21. CASE Crash(w)
  <2>1. [r EXCEPT !.pc = "crashed", !.cut = TRUE] \in Wrapper
    BY <1>a DEF Wrapper
  <2> QED BY <1>21, <2>1 DEF Crash
<1> QED
  BY <1>1, <1>2, <1>3, <1>4, <1>5, <1>6, <1>7, <1>8, <1>9, <1>10, <1>11, <1>12, <1>13, <1>14,
     <1>15, <1>16, <1>17, <1>18, <1>19, <1>20, <1>21
  DEF Step

LEMMA TypeInit == Init => TypeOK
<1> SUFFICES ASSUME Init PROVE TypeOK
  OBVIOUS
<1>1. Fresh \in Wrapper /\ [Fresh EXCEPT !.pc = "done"] \in Wrapper
  <2>1. Fresh \in Wrapper
    BY DEF Fresh, Wrapper, Phases, MaxSignals
  <2>2. [Fresh EXCEPT !.pc = "done"] \in Wrapper
    BY <2>1 DEF Wrapper
  <2> QED BY <2>1, <2>2
<1>2. PICK s \in Scenarios :
        /\ events = s.events
        /\ plain = [p \in Plain |-> IF p \in s.plain THEN "out" ELSE "left"]
        /\ wrapper = [w \in Wrappers |-> IF w \in s.wrappers THEN Fresh
                                         ELSE [Fresh EXCEPT !.pc = "done"]]
  BY DEF Init
<1>3. wrapper \in [Wrappers -> Wrapper]
  BY <1>1, <1>2
<1>4. plain \in [Plain -> {"out", "joining", "in", "left"}]
  BY <1>2
<1> QED BY <1>2, <1>3, <1>4 DEF Init, TypeOK

LEMMA TypeStep == TypeOK /\ [Next]_vars => TypeOK'
<1> SUFFICES ASSUME TypeOK, [Next]_vars PROVE TypeOK'
  OBVIOUS
<1>1. ASSUME NEW w \in Wrappers,
             \/ Step(w) \/ ForwardSignal(w) \/ Escalate(w) \/ ChildExits(w)
             \/ Deadline(w) \/ Crash(w)
      PROVE  TypeOK'
  <2>1. wrapper \in [Wrappers -> Wrapper] /\ wrapper[w] \in Wrapper
    BY DEF TypeOK
  <2>2. PICK r \in Wrapper : Becomes(w, r)
    BY <1>1, <2>1, StepBecomes
  <2>3. wrapper' \in [Wrappers -> Wrapper]
    BY <2>1, <2>2, BecomesTyped
  <2>4. UNCHANGED events /\ UNCHANGED plain
    BY <1>1 DEF Step, AcquireClaim, RegisterSession, RegisterWrites, RegisterPublishes,
      RegisterFails, AssertExclusiveSession, StartBridge, Launch, ForwardSignal, Escalate,
      ChildExits, PassOver, CloseBridge, UnregisterExclusive, CloseSession, RemoveMember,
      RemoveHeartbeat, CloseFails, ReleaseClaim, ShutdownRedis, Report, Deadline, Crash
  <2>5. claim' \in Wrappers \cup {None}
    BY <1>1 DEF TypeOK, store, Step, AcquireClaim, RegisterSession, RegisterWrites, RegisterPublishes,
      RegisterFails, AssertExclusiveSession, StartBridge, Launch, ForwardSignal, Escalate,
      ChildExits, PassOver, CloseBridge, UnregisterExclusive, UnregisterScript, CloseSession,
      RemoveMember, RemoveHeartbeat, CloseFails, ReleaseClaim, ReleaseScript, ShutdownRedis,
      Report, Deadline, Crash
  <2>6. registry' \in BOOLEAN /\ heartbeat' \in BOOLEAN
    BY <1>1 DEF TypeOK, store, Step, AcquireClaim, RegisterSession, RegisterWrites, RegisterPublishes,
      RegisterFails, AssertExclusiveSession, StartBridge, Launch, ForwardSignal, Escalate,
      ChildExits, PassOver, CloseBridge, UnregisterExclusive, UnregisterScript, CloseSession,
      RemoveMember, RemoveHeartbeat, CloseFails, ReleaseClaim, ShutdownRedis, Report, Deadline, Crash
  <2>7. record' \subseteq Sessions /\ lease' \subseteq Sessions /\ members' \subseteq Sessions
    BY <1>1 DEF TypeOK, Sessions, store, Step, AcquireClaim, RegisterSession, RegisterWrites,
      RegisterPublishes, RegisterFails, AssertExclusiveSession, StartBridge, Launch,
      ForwardSignal, Escalate, ChildExits, PassOver, CloseBridge, UnregisterExclusive,
      UnregisterScript, CloseSession, RemoveMember, RemoveHeartbeat, CloseFails, ReleaseClaim,
      ShutdownRedis, Report, Deadline, Crash
  <2>8. removed' \subseteq Wrappers
    BY <1>1 DEF TypeOK, Step, AcquireClaim, RegisterSession, RegisterWrites, RegisterPublishes,
      RegisterFails, AssertExclusiveSession, StartBridge, Launch, ForwardSignal, Escalate,
      ChildExits, PassOver, CloseBridge, UnregisterExclusive, UnregisterScript, CloseSession,
      RemoveMember, RemoveHeartbeat, CloseFails, ReleaseClaim, ShutdownRedis, Report, Deadline, Crash
  <2> QED BY <2>3, <2>4, <2>5, <2>6, <2>7, <2>8 DEF TypeOK
<1>2. ASSUME NEW p \in Plain, PlainJoins(p) \/ PlainPublishes(p) \/ PlainLeaves(p) PROVE TypeOK'
  BY <1>2 DEF PlainJoins, PlainPublishes, PlainLeaves, Sessions, TypeOK
<1>3. ASSUME NEW s \in Sessions, Refresh(s) PROVE TypeOK'
  BY <1>3 DEF Refresh, TypeOK
<1>4. CASE Prune
  BY <1>4 DEF Prune, TypeOK
<1>5. CASE Lapses
  BY <1>5 DEF Lapses, TypeOK
<1>6. CASE UNCHANGED vars
  BY <1>6 DEF vars, store, TypeOK
<1> QED BY <1>1, <1>2, <1>3, <1>4, <1>5, <1>6 DEF Next, AllEnded

\* Every reachable state is of the declared shape.
THEOREM TypeCorrect == Spec => []TypeOK
BY TypeInit, TypeStep, PTL DEF Spec

-----------------------------------------------------------------------------
(***************************************************************************)
(* The invariant is inductive.                                             *)
(***************************************************************************)

\* A wrapper keeps its part of the invariant while it does not step itself, its token is
\* left alone and its session is at most refreshed.
LEMMA OthersKeep ==
  ASSUME NEW w \in Wrappers, OwnInv(w),
         UNCHANGED wrapper[w], (claim' = w) <=> (claim = w),
         w \in record' => w \in record,
         w \in lease' => w \in lease \/ wrapper[w].pc \in Started,
         w \in removed => w \in removed'
  PROVE  OwnInv(w)'
<1>1. StartInv(w)'
  BY DEF OwnInv, StartInv, Started, Ending
<1>2. ChildInv(w)'
  BY DEF OwnInv, ChildInv, ChildRunning
<1>3. CoverInv(w)'
  BY DEF OwnInv, CoverInv, StartInv
<1>4. CleanInv(w)'
  BY DEF OwnInv, CleanInv
<1>5. ExitInv(w)'
  BY DEF OwnInv, ExitInv
<1> QED BY <1>1, <1>2, <1>3, <1>4, <1>5 DEF OwnInv

\* Steps of the registration.
LEMMA RegisterKeeps ==
  ASSUME TypeOK, NEW w \in Wrappers, OwnInv(w),
         RegisterSession(w) \/ RegisterWrites(w) \/ RegisterPublishes(w) \/ RegisterFails(w)
  PROVE  OwnInv(w)'
<1> DEFINE r == wrapper[w]
<1>0. r \in Wrapper /\ wrapper \in [Wrappers -> Wrapper]
  BY DEF TypeOK
<1>1. CASE RegisterSession(w)
  <2>1. wrapper'[w] = [r EXCEPT !.pc = "write"]
    BY <1>0, <1>1 DEF RegisterSession, Becomes, Goes
  <2>2. UNCHANGED <<claim, removed>>
    BY <1>1 DEF RegisterSession, store
  <2> QED
    BY <1>0, <1>1, <2>1, <2>2
    DEF RegisterSession, OwnInv, StartInv, ChildInv, CoverInv, CleanInv, ExitInv,
      Started, Ending, ChildRunning, Wrapper
<1>2. CASE RegisterWrites(w)
  <2>1. wrapper'[w] = [r EXCEPT !.pc = "publish", !.registered = TRUE]
    BY <1>0, <1>2 DEF RegisterWrites, Becomes, Goes
  <2>2. UNCHANGED <<claim, record, lease, removed>>
    BY <1>2 DEF RegisterWrites, store
  <2> QED
    BY <1>0, <1>2, <2>1, <2>2
    DEF RegisterWrites, OwnInv, StartInv, ChildInv, CoverInv, CleanInv, ExitInv,
      Started, Ending, ChildRunning, Wrapper
<1>3. CASE RegisterPublishes(w)
  <2>1. wrapper'[w] = [r EXCEPT !.pc = "verify"]
    BY <1>0, <1>3 DEF RegisterPublishes, Becomes, Goes
  <2>2. UNCHANGED <<claim, record, lease, removed>>
    BY <1>3 DEF RegisterPublishes, store
  <2> QED
    BY <1>0, <1>3, <2>1, <2>2
    DEF RegisterPublishes, OwnInv, StartInv, ChildInv, CoverInv, CleanInv, ExitInv,
      Started, Ending, ChildRunning, Wrapper
<1>4. CASE RegisterFails(w)
  <2>1. wrapper'[w] = Threw(r)
    BY <1>0, <1>4 DEF RegisterFails, Becomes
  <2>2. UNCHANGED <<claim, removed>> /\ lease' \subseteq lease /\ record' \subseteq record
    BY <1>4 DEF RegisterFails
  <2> QED
    BY <1>0, <1>4, <2>1, <2>2
    DEF RegisterFails, Threw, OwnInv, StartInv, ChildInv, CoverInv, CleanInv, ExitInv,
      Started, Ending, ChildRunning, Wrapper
<1> QED BY <1>1, <1>2, <1>3, <1>4

\* From the verification to the exit of the child.
LEMMA LaunchKeeps ==
  ASSUME TypeOK, NEW w \in Wrappers, OwnInv(w),
         AssertExclusiveSession(w) \/ StartBridge(w) \/ Launch(w) \/ Escalate(w) \/ ChildExits(w) \/ Crash(w)
  PROVE  OwnInv(w)'
<1> DEFINE r == wrapper[w]
<1>0. r \in Wrapper /\ wrapper \in [Wrappers -> Wrapper]
  BY DEF TypeOK
<1>1. CASE AssertExclusiveSession(w)
  <2>1. \/ wrapper'[w] = [r EXCEPT !.pc = "bridge"]
        \/ wrapper'[w] = Threw(r)
    BY <1>0, <1>1 DEF AssertExclusiveSession, Becomes, Goes
  <2>2. UNCHANGED <<claim, record, lease, removed>>
    BY <1>1 DEF AssertExclusiveSession, store
  <2>3. CASE wrapper'[w] = [r EXCEPT !.pc = "bridge"]
    BY <1>0, <1>1, <2>2, <2>3
    DEF AssertExclusiveSession, Threw, OwnInv, StartInv, ChildInv, CoverInv, CleanInv, ExitInv,
      Started, Ending, ChildRunning, Wrapper
  <2>4. CASE wrapper'[w] = Threw(r)
    BY <1>0, <1>1, <2>2, <2>4
    DEF AssertExclusiveSession, Threw, OwnInv, StartInv, ChildInv, CoverInv, CleanInv, ExitInv,
      Started, Ending, ChildRunning, Wrapper
  <2> QED BY <2>1, <2>3, <2>4
<1>2. CASE StartBridge(w)
  <2>1. UNCHANGED <<claim, record, lease, removed>>
    BY <1>2 DEF StartBridge, store
  <2>2. CASE wrapper'[w] = Threw(r)
    BY <1>0, <1>2, <2>1, <2>2
    DEF StartBridge, Threw, OwnInv, StartInv, ChildInv, CoverInv, CleanInv, ExitInv,
      Started, Ending, ChildRunning, Wrapper
  <2>3. CASE /\ r.signals = 0
             /\ wrapper'[w] = [r EXCEPT !.bridge = TRUE, !.pc = "prepare", !.code = r.code]
    BY <1>0, <1>2, <2>1, <2>3
    DEF StartBridge, OwnInv, StartInv, ChildInv, CoverInv, CleanInv, ExitInv,
      Started, Ending, ChildRunning, Wrapper
  <2>4. CASE wrapper'[w] = [r EXCEPT !.bridge = TRUE, !.pc = "cleanup", !.code = "signal"]
    BY <1>0, <1>2, <2>1, <2>4
    DEF StartBridge, OwnInv, StartInv, ChildInv, CoverInv, CleanInv, ExitInv,
      Started, Ending, ChildRunning, Wrapper
  <2> QED BY <1>0, <1>2, <2>2, <2>3, <2>4 DEF StartBridge, Becomes
<1>3. CASE Launch(w)
  <2>1. \/ wrapper'[w] = [r EXCEPT !.pc = "running", !.child = "running"]
        \/ wrapper'[w] = [r EXCEPT !.pc = "cleanup", !.code = "signal"]
        \/ wrapper'[w] = Threw(r)
    BY <1>0, <1>3 DEF Launch, Becomes, Goes
  <2>2. UNCHANGED <<claim, record, lease, removed>>
    BY <1>3 DEF Launch, store
  <2>3. CASE wrapper'[w] = [r EXCEPT !.pc = "running", !.child = "running"]
    BY <1>0, <1>3, <2>2, <2>3
    DEF Launch, Threw, OwnInv, StartInv, ChildInv, CoverInv, CleanInv, ExitInv,
      Started, Ending, ChildRunning, Wrapper
  <2>4. CASE wrapper'[w] = [r EXCEPT !.pc = "cleanup", !.code = "signal"]
    BY <1>0, <1>3, <2>2, <2>4
    DEF Launch, Threw, OwnInv, StartInv, ChildInv, CoverInv, CleanInv, ExitInv,
      Started, Ending, ChildRunning, Wrapper
  <2>5. CASE wrapper'[w] = Threw(r)
    BY <1>0, <1>3, <2>2, <2>5
    DEF Launch, Threw, OwnInv, StartInv, ChildInv, CoverInv, CleanInv, ExitInv,
      Started, Ending, ChildRunning, Wrapper
  <2> QED BY <2>1, <2>3, <2>4, <2>5
<1>4. CASE Escalate(w)
  <2>1. wrapper'[w] = [r EXCEPT !.child = "killed"]
    BY <1>0, <1>4 DEF Escalate, Becomes, Goes
  <2>2. UNCHANGED <<claim, record, lease, removed>>
    BY <1>4 DEF Escalate, store
  <2> QED
    BY <1>0, <1>4, <2>1, <2>2
    DEF Escalate, OwnInv, StartInv, ChildInv, CoverInv, CleanInv, ExitInv,
      Started, Ending, ChildRunning, Wrapper
<1>5. CASE ChildExits(w)
  <2>1. UNCHANGED <<claim, record, lease, removed>>
    BY <1>5 DEF ChildExits, store
  <2>2. PICK code \in {"zero", "fail", "signal"} :
          wrapper'[w] = [r EXCEPT !.child = "gone", !.code = code,
                                  !.pc = IF @ = "running" THEN "cleanup" ELSE @]
    BY ZenonT(60), <1>0, <1>5 DEF ChildExits, Becomes
  <2>3. CASE r.pc = "running"
    <3>1. wrapper'[w] = [r EXCEPT !.child = "gone", !.code = code, !.pc = "cleanup"]
      BY <2>2, <2>3
    <3> QED
      BY <1>0, <1>5, <2>1, <2>3, <3>1
      DEF OwnInv, StartInv, ChildInv, CoverInv, CleanInv, ExitInv,
      Started, Ending, ChildRunning, Wrapper
  <2>4. CASE r.pc = "crashed"
    <3>1. wrapper'[w] = [r EXCEPT !.child = "gone", !.code = code, !.pc = "crashed"]
      BY <2>2, <2>4
    <3> QED
      BY <1>0, <1>5, <2>1, <2>4, <3>1
      DEF OwnInv, StartInv, ChildInv, CoverInv, CleanInv, ExitInv,
      Started, Ending, ChildRunning, Wrapper
  <2> QED BY <1>5, <2>3, <2>4 DEF ChildExits
<1>6. CASE Crash(w)
  <2>1. wrapper'[w] = [r EXCEPT !.pc = "crashed", !.cut = TRUE]
    BY <1>0, <1>6 DEF Crash, Becomes, Goes
  <2>2. UNCHANGED <<claim, record, lease, removed>>
    BY <1>6 DEF Crash, store
  <2> QED
    BY <1>0, <1>6, <2>1, <2>2
    DEF Crash, OwnInv, StartInv, ChildInv, CoverInv, CleanInv, ExitInv,
      Started, Ending, ChildRunning, Wrapper
<1> QED BY <1>1, <1>2, <1>3, <1>4, <1>5, <1>6

\* ACQUIRE_CLAIM: the token is set to ours only where there was none.
LEMMA ClaimKeeps ==
  ASSUME TypeOK, NEW w \in Wrappers, OwnInv(w), AcquireClaim(w)
  PROVE  OwnInv(w)'
<1> DEFINE r == wrapper[w]
<1>0. r \in Wrapper /\ wrapper \in [Wrappers -> Wrapper]
  BY DEF TypeOK
<1>1. UNCHANGED <<record, lease, removed>> /\ r.pc = "claim" /\ (claim' = w \/ claim' = claim)
  BY DEF AcquireClaim
<1>2. CASE claim' = w /\ wrapper'[w] = [r EXCEPT !.pc = "register", !.holds = TRUE]
  BY <1>0, <1>1, <1>2 DEF OwnInv, StartInv, ChildInv, CoverInv, CleanInv, ExitInv,
      Started, Ending, ChildRunning, Wrapper
<1>3. CASE wrapper'[w] = Threw(r)
  <2>1. CASE claim' = w
    BY <1>0, <1>1, <1>3, <2>1 DEF Threw, OwnInv, StartInv, ChildInv, CoverInv, CleanInv, ExitInv,
      Started, Ending, ChildRunning, Wrapper
  <2>2. CASE claim' = claim
    BY <1>0, <1>1, <1>3, <2>2 DEF Threw, OwnInv, StartInv, ChildInv, CoverInv, CleanInv, ExitInv,
      Started, Ending, ChildRunning, Wrapper
  <2> QED BY <1>1, <2>1, <2>2
<1> QED BY <1>0, <1>2, <1>3 DEF AcquireClaim, Becomes

\* A signal or the deadline: the connections may be forced closed, the claim stays.
LEMMA SignalKeeps ==
  ASSUME TypeOK, NEW w \in Wrappers, OwnInv(w), ForwardSignal(w) \/ Deadline(w)
  PROVE  OwnInv(w)'
<1> DEFINE r == wrapper[w]
<1>0. r \in Wrapper /\ wrapper \in [Wrappers -> Wrapper]
  BY DEF TypeOK
<1>1. UNCHANGED <<claim, record, lease, removed>>
  BY DEF ForwardSignal, Deadline, store
<1>2. r.pc \notin {"done"}
  BY DEF ForwardSignal, Deadline
<1> DEFINE Carries(q) ==
        /\ q.pc = r.pc /\ q.holds = r.holds /\ q.registered = r.registered /\ q.at = r.at
        /\ q.final = r.final /\ q.failures = r.failures /\ q.freed = r.freed /\ q.threw = r.threw
        /\ q.released \in {r.released, r.released \cup {"redis"}}
        /\ q.child \in {"running", "asked", "killed"} => ChildRunning(w)
<1>3. ASSUME NEW q, wrapper'[w] = q, Carries(q) PROVE OwnInv(w)'
  BY <1>0, <1>1, <1>2, <1>3 DEF OwnInv, StartInv, ChildInv, CoverInv, CleanInv, ExitInv,
      Started, Ending, ChildRunning, Wrapper
<1>4. CASE ForwardSignal(w)
  <2> DEFINE q == [r EXCEPT !.signals = @ + 1]
             k == [q EXCEPT !.child = IF q.signals = 1 /\ @ = "running" THEN "asked" ELSE "killed"]
  <2>1. CASE ~ChildRunning(w) /\ wrapper'[w] = q
    <3>1. Carries(q)
      BY <1>0, <2>1 DEF Wrapper, ChildRunning
    <3> QED BY <1>3, <2>1, <3>1
  <2>2. CASE ~ChildRunning(w) /\ wrapper'[w] = Forced(q)
    <3>1. Carries(Forced(q))
      BY <1>0, <2>2 DEF Forced, Wrapper, ChildRunning
    <3> QED BY <1>3, <2>2, <3>1
  <2>3. CASE ChildRunning(w) /\ wrapper'[w] = k
    <3>1. Carries(k)
      BY <1>0, <2>3 DEF Wrapper
    <3> QED BY ZenonT(60), <1>3, <2>3, <3>1
  <2> QED BY <1>0, <1>4, <2>1, <2>2, <2>3 DEF ForwardSignal, Becomes
<1>5. CASE Deadline(w)
  <2>1. wrapper'[w] = Forced(r)
    BY <1>0, <1>5 DEF Deadline, Becomes
  <2>2. Carries(Forced(r))
    BY <1>0 DEF Forced, Wrapper, ChildRunning
  <2> QED BY <1>3, <2>1, <2>2
<1> QED BY <1>4, <1>5

\* Steps of the cleanup before the claim's turn.
LEMMA CleanupKeeps ==
  ASSUME TypeOK, NEW w \in Wrappers, OwnInv(w),
         \/ CloseBridge(w) \/ UnregisterExclusive(w) \/ CloseSession(w) \/ RemoveMember(w)
         \/ RemoveHeartbeat(w) \/ CloseFails(w)
  PROVE  OwnInv(w)'
<1> DEFINE r == wrapper[w]
<1>0. r \in Wrapper /\ wrapper \in [Wrappers -> Wrapper]
  BY DEF TypeOK
<1>1. r.pc = "cleanup" /\ UNCHANGED claim
  BY DEF CloseBridge, UnregisterExclusive, UnregisterScript, CloseSession, RemoveMember,
    RemoveHeartbeat, CloseFails, Due, store
<1>2. CASE CloseBridge(w)
  <2>1. UNCHANGED <<record, lease, removed>> /\ r.at = "bridge"
    BY <1>2 DEF CloseBridge, Due, store
  <2>2. wrapper'[w] = Released(r, "bridge") \/ wrapper'[w] = Failed(r, "bridge")
    BY <1>0, <1>2 DEF CloseBridge, Becomes
  <2>3. CASE wrapper'[w] = Released(r, "bridge")
    BY <1>0, <1>1, <2>1, <2>3 DEF Released, NextPhase, OwnInv, StartInv, ChildInv, CoverInv, CleanInv, ExitInv,
      Started, Ending, ChildRunning, Wrapper
  <2>4. CASE wrapper'[w] = Failed(r, "bridge")
    BY <1>0, <1>1, <2>1, <2>4 DEF Failed, NextPhase, OwnInv, StartInv, ChildInv, CoverInv, CleanInv, ExitInv,
      Started, Ending, ChildRunning, Wrapper
  <2> QED BY <2>2, <2>3, <2>4
<1>3. CASE UnregisterExclusive(w)
  <2> DEFINE q == [r EXCEPT !.cut = TRUE]
  <2>1. r.at = "registration" /\ "registration" \notin r.released
    BY <1>3 DEF UnregisterExclusive, Due
  <2>2. /\ record' \subseteq record /\ lease' \subseteq lease /\ removed \subseteq removed'
    BY <1>3 DEF UnregisterExclusive, UnregisterScript, store
  <2>3. CASE wrapper'[w] = Failed(q, "registration")
    BY <1>0, <1>1, <2>1, <2>2, <2>3 DEF Failed, NextPhase, OwnInv, StartInv, ChildInv, CoverInv, CleanInv, ExitInv,
      Started, Ending, ChildRunning, Wrapper
  <2>4. CASE /\ UnregisterScript(w) /\ Exclusive(w)
             /\ wrapper'[w] = Released(q, "registration")
    <3>1. w \notin record' /\ w \notin lease' /\ w \in removed'
      BY <2>4 DEF UnregisterScript
    <3> QED
      BY <1>0, <1>1, <2>1, <2>2, <2>4, <3>1 DEF Released, NextPhase, OwnInv, StartInv, ChildInv, CoverInv, CleanInv, ExitInv,
      Started, Ending, ChildRunning, Wrapper
  <2>5. CASE /\ UnregisterScript(w)
             /\ wrapper'[w] = [Released(q, "registration") EXCEPT
                                 !.failures = @ \cup {"registration"}]
    <3>1. w \notin record' /\ w \notin lease'
      BY <2>5 DEF UnregisterScript
    <3> QED
      BY <1>0, <1>1, <2>1, <2>2, <2>5, <3>1 DEF Released, NextPhase, OwnInv, StartInv, ChildInv, CoverInv, CleanInv, ExitInv,
      Started, Ending, ChildRunning, Wrapper
  <2> QED BY <1>0, <1>3, <2>3, <2>4, <2>5 DEF UnregisterExclusive, Becomes
<1>4. CASE CloseSession(w)
  <2>1. /\ record' = record \ {w} /\ lease' = lease \ {w} /\ UNCHANGED removed
        /\ r.at = "registration" /\ Mode[w] = "close" /\ "registration" \notin r.released
    BY <1>4 DEF CloseSession, Due
  <2>2. wrapper'[w] = [r EXCEPT !.at = "member"] \/ wrapper'[w] = [r EXCEPT !.at = "heartbeat"]
    BY <1>0, <1>4 DEF CloseSession, Becomes
  <2>3. \A at \in {"member", "heartbeat"} : wrapper'[w] = [r EXCEPT !.at = at] => OwnInv(w)'
    BY <1>0, <1>1, <2>1 DEF OwnInv, StartInv, ChildInv, CoverInv, CleanInv, ExitInv,
      Started, Ending, ChildRunning, Wrapper
  <2> QED BY <2>2, <2>3
<1>5. CASE RemoveMember(w)
  <2>1. UNCHANGED <<record, lease, removed>> /\ r.at = "member"
    BY <1>5 DEF RemoveMember
  <2>2. wrapper'[w] = [r EXCEPT !.at = "heartbeat"]
    BY <1>0, <1>5 DEF RemoveMember, Becomes
  <2> QED BY <1>0, <1>1, <2>1, <2>2 DEF OwnInv, StartInv, ChildInv, CoverInv, CleanInv, ExitInv,
      Started, Ending, ChildRunning, Wrapper
<1>6. CASE RemoveHeartbeat(w)
  <2>1. UNCHANGED <<record, lease, removed>> /\ r.at = "heartbeat"
    BY <1>6 DEF RemoveHeartbeat
  <2>2. wrapper'[w] = Released([r EXCEPT !.registered = FALSE], "registration")
    BY <1>0, <1>6 DEF RemoveHeartbeat, Becomes
  <2> QED BY <1>0, <1>1, <2>1, <2>2 DEF Released, NextPhase, OwnInv, StartInv, ChildInv, CoverInv, CleanInv, ExitInv,
      Started, Ending, ChildRunning, Wrapper
<1>7. CASE CloseFails(w)
  <2>1. UNCHANGED <<record, lease, removed>>
    BY <1>7 DEF CloseFails, store
  <2>2. wrapper'[w] = Failed(r, "registration")
    BY <1>0, <1>7 DEF CloseFails, Becomes
  <2> QED BY <1>0, <1>1, <2>1, <2>2 DEF Failed, NextPhase, OwnInv, StartInv, ChildInv, CoverInv, CleanInv, ExitInv,
      Started, Ending, ChildRunning, Wrapper
<1> QED BY <1>2, <1>3, <1>4, <1>5, <1>6, <1>7

\* A phase that has nothing to run is passed over: released, not ready or a failure.
LEMMA PassOverKeeps ==
  ASSUME TypeOK, NEW w \in Wrappers, OwnInv(w), NEW p \in Phases, PassOver(w, p)
  PROVE  OwnInv(w)'
<1> DEFINE r == wrapper[w]
<1>0. r \in Wrapper /\ wrapper \in [Wrappers -> Wrapper]
  BY DEF TypeOK
<1>1. r.pc = "cleanup" /\ r.at = p /\ UNCHANGED <<claim, record, lease, removed>>
  BY DEF PassOver, store
<1>2. CASE (p \in r.released \/ ~Ready(r, p)) /\ wrapper'[w] = [r EXCEPT !.at = NextPhase(p)]
  <2>1. p = "claim" /\ "claim" \notin r.released => "registration" \in r.failures
    BY <1>0, <1>1, <1>2 DEF Ready, OwnInv, CleanInv
  <2>2. p # "bridge" => p \in {"registration", "claim", "redis"}
    BY DEF Phases
  <2>3. p = "registration" => p \in r.released
    BY <1>2 DEF Ready
  <2>4. CASE p = "bridge"
    BY <1>0, <1>1, <1>2, <2>4 DEF NextPhase, OwnInv, StartInv, ChildInv, CoverInv, CleanInv, ExitInv,
      Started, Ending, ChildRunning, Wrapper
  <2>5. CASE p = "registration"
    BY <1>0, <1>1, <1>2, <2>3, <2>5 DEF NextPhase, OwnInv, StartInv, ChildInv, CoverInv, CleanInv, ExitInv,
      Started, Ending, ChildRunning, Wrapper
  <2>6. CASE p = "claim"
    BY <1>0, <1>1, <1>2, <2>1, <2>6 DEF NextPhase, OwnInv, StartInv, ChildInv, CoverInv, CleanInv, ExitInv,
      Started, Ending, ChildRunning, Wrapper
  <2>7. CASE p = "redis"
    BY <1>0, <1>1, <1>2, <2>7 DEF NextPhase, OwnInv, StartInv, ChildInv, CoverInv, CleanInv, ExitInv,
      Started, Ending, ChildRunning, Wrapper
  <2> QED BY <2>2, <2>4, <2>5, <2>6, <2>7
<1>3. CASE p \notin r.released /\ Absent(r, p)
          /\ wrapper'[w] = [r EXCEPT !.released = @ \cup {p}, !.at = NextPhase(p)]
  <2>1. CASE p = "bridge"
    BY <1>0, <1>1, <1>3, <2>1 DEF NextPhase, OwnInv, StartInv, ChildInv, CoverInv, CleanInv, ExitInv,
      Started, Ending, ChildRunning, Wrapper
  <2>2. CASE p = "registration"
    BY <1>0, <1>1, <1>3, <2>2 DEF Absent, NextPhase, OwnInv, StartInv, ChildInv, CoverInv, CleanInv, ExitInv,
      Started, Ending, ChildRunning, Wrapper
  <2>3. CASE p = "claim"
    BY <1>0, <1>1, <1>3, <2>3 DEF Absent, NextPhase, OwnInv, StartInv, ChildInv, CoverInv, CleanInv, ExitInv,
      Started, Ending, ChildRunning, Wrapper
  <2>4. p # "redis"
    BY <1>3 DEF Absent
  <2> QED BY <2>1, <2>2, <2>3, <2>4 DEF Phases
<1>4. CASE p \notin r.released /\ wrapper'[w] = Failed(r, p)
  <2>1. CASE p = "bridge"
    BY <1>0, <1>1, <1>4, <2>1 DEF Failed, NextPhase, OwnInv, StartInv, ChildInv, CoverInv, CleanInv, ExitInv,
      Started, Ending, ChildRunning, Wrapper
  <2>2. CASE p = "registration"
    BY <1>0, <1>1, <1>4, <2>2 DEF Failed, NextPhase, OwnInv, StartInv, ChildInv, CoverInv, CleanInv, ExitInv,
      Started, Ending, ChildRunning, Wrapper
  <2>3. CASE p = "claim"
    BY <1>0, <1>1, <1>4, <2>3 DEF Failed, NextPhase, OwnInv, StartInv, ChildInv, CoverInv, CleanInv, ExitInv,
      Started, Ending, ChildRunning, Wrapper
  <2>4. CASE p = "redis"
    BY <1>0, <1>1, <1>4, <2>4 DEF Failed, NextPhase, OwnInv, StartInv, ChildInv, CoverInv, CleanInv, ExitInv,
      Started, Ending, ChildRunning, Wrapper
  <2> QED BY <2>1, <2>2, <2>3, <2>4 DEF Phases
<1> QED BY <1>0, <1>2, <1>3, <1>4 DEF PassOver, Becomes

\* The claim goes only after the registration, or in the last attempt.
LEMMA ReleaseKeeps ==
  ASSUME TypeOK, NEW w \in Wrappers, OwnInv(w), ReleaseClaim(w)
  PROVE  OwnInv(w)'
<1> DEFINE r == wrapper[w]
<1>0. r \in Wrapper /\ wrapper \in [Wrappers -> Wrapper]
  BY DEF TypeOK
<1>1. /\ r.pc = "cleanup" /\ r.at = "claim" /\ UNCHANGED <<record, lease, removed>>
      /\ "registration" \in r.released \/ r.final
  BY DEF ReleaseClaim, Due, Ready
<1>2. CASE r.freed /\ UNCHANGED claim /\ wrapper'[w] = Released(r, "claim")
  BY <1>0, <1>1, <1>2 DEF Released, NextPhase, OwnInv, StartInv, ChildInv, CoverInv, CleanInv, ExitInv,
      Started, Ending, ChildRunning, Wrapper
<1>3. CASE /\ claim = w /\ claim' = None
           /\ wrapper'[w] = Released([r EXCEPT !.freed = TRUE], "claim")
  BY <1>0, <1>1, <1>3, WrapperAssumption DEF Released, NextPhase, OwnInv, StartInv, ChildInv, CoverInv, CleanInv, ExitInv,
      Started, Ending, ChildRunning, Wrapper
<1>4. ASSUME claim = w, claim' = None, NEW freed \in BOOLEAN,
             wrapper'[w] = Failed([r EXCEPT !.freed = freed], "claim")
      PROVE  OwnInv(w)'
  BY <1>0, <1>1, <1>4, WrapperAssumption DEF Failed, NextPhase, OwnInv, StartInv, ChildInv, CoverInv, CleanInv, ExitInv,
      Started, Ending, ChildRunning, Wrapper
<1>5. CASE UNCHANGED claim /\ wrapper'[w] = Failed(r, "claim")
  BY <1>0, <1>1, <1>5 DEF Failed, NextPhase, OwnInv, StartInv, ChildInv, CoverInv, CleanInv, ExitInv,
      Started, Ending, ChildRunning, Wrapper
<1> QED BY <1>0, <1>2, <1>3, <1>4, <1>5 DEF ReleaseClaim, ReleaseScript, Becomes

\* The end of an attempt and the end of the wrapper.
LEMMA ReportKeeps ==
  ASSUME TypeOK, NEW w \in Wrappers, OwnInv(w), ShutdownRedis(w) \/ Report(w)
  PROVE  OwnInv(w)'
<1> DEFINE r == wrapper[w]
<1>0. r \in Wrapper /\ wrapper \in [Wrappers -> Wrapper]
  BY DEF TypeOK
<1>1. r.pc = "cleanup" /\ UNCHANGED <<claim, record, lease, removed>>
  BY DEF ShutdownRedis, Report, Due, store
<1>2. CASE ShutdownRedis(w)
  <2>1. wrapper'[w] = [Released(r, "redis") EXCEPT !.cut = TRUE] /\ r.at = "redis"
    BY <1>0, <1>2 DEF ShutdownRedis, Due, Becomes
  <2> QED BY <1>0, <1>1, <2>1 DEF Released, NextPhase, OwnInv, StartInv, ChildInv, CoverInv, CleanInv, ExitInv,
      Started, Ending, ChildRunning, Wrapper
<1>3. CASE wrapper'[w] = [r EXCEPT !.at = "bridge", !.final = TRUE]
  BY <1>0, <1>1, <1>3 DEF OwnInv, StartInv, ChildInv, CoverInv, CleanInv, ExitInv,
      Started, Ending, ChildRunning, Wrapper
<1>4. CASE /\ r.at = "report"
           /\ wrapper'[w] = [r EXCEPT !.pc = "done", !.cut = TRUE, !.code = finalExitCode(r)]
  <2> DEFINE code == finalExitCode(r)
  <2>1. code = "zero" => ~r.threw /\ r.failures = {} /\ r.signals = 0
    BY <1>0 DEF finalExitCode, Wrapper, MaxSignals
  <2>2. code = "zero" => /\ claim # w /\ w \notin record
                         /\ Mode[w] = "unregister" => w \in removed
    BY <1>1, <1>4, <2>1 DEF OwnInv, CleanInv
  <2> HIDE DEF code
  <2>3. wrapper'[w] = [r EXCEPT !.pc = "done", !.cut = TRUE, !.code = code]
    BY <1>4 DEF code
  <2> QED BY <1>0, <1>1, <2>1, <2>2, <2>3 DEF OwnInv, StartInv, ChildInv, CoverInv, CleanInv, ExitInv,
      Started, Ending, ChildRunning, Wrapper
<1> QED BY <1>0, <1>2, <1>3, <1>4 DEF Report, Becomes

\* What a step of w does to the store concerns w alone.
LEMMA StepIsOwn ==
  ASSUME NEW w \in Wrappers, NEW v \in Wrappers, v # w,
         \/ Step(w) \/ ForwardSignal(w) \/ Escalate(w) \/ ChildExits(w) \/ Deadline(w) \/ Crash(w)
  PROVE  /\ (claim' = v) <=> (claim = v)
         /\ v \in record' => v \in record
         /\ v \in lease' => v \in lease
         /\ v \in removed => v \in removed'
<1>1. (claim' = v) <=> (claim = v)
  <2>1. CASE claim' = claim
    BY <2>1
  <2>2. CASE claim = None /\ claim' = w
    BY <2>2, WrapperAssumption
  <2>3. CASE claim = w /\ claim' = None
    BY SMTT(40), <2>3, WrapperAssumption
  <2> QED
    BY <2>1, <2>2, <2>3 DEF Step, AcquireClaim, Claimable, RegisterSession, RegisterWrites,
      RegisterPublishes, RegisterFails, AssertExclusiveSession, StartBridge, Launch,
      ForwardSignal, Escalate, ChildExits, PassOver, CloseBridge, UnregisterExclusive,
      UnregisterScript, CloseSession, RemoveMember, RemoveHeartbeat, CloseFails, ReleaseClaim,
      ReleaseScript, ShutdownRedis, Report, Deadline, Crash, store
<1>2. v \in record' => v \in record
  <2>1. CASE RegisterSession(w)
    BY <2>1 DEF RegisterSession
  <2>2. CASE RegisterFails(w) \/ UnregisterExclusive(w) \/ CloseSession(w)
    BY <2>2 DEF RegisterFails, UnregisterExclusive, UnregisterScript, CloseSession, store
  <2>3. CASE UNCHANGED record
    BY SMTT(40), <2>3
  <2> QED
    BY <2>1, <2>2, <2>3 DEF Step, AcquireClaim, RegisterWrites, RegisterPublishes,
      AssertExclusiveSession, StartBridge, Launch, ForwardSignal, Escalate, ChildExits,
      PassOver, CloseBridge, RemoveMember, RemoveHeartbeat, CloseFails, ReleaseClaim,
      ShutdownRedis, Report, Deadline, Crash, store
<1>3. v \in lease' => v \in lease
  <2>1. CASE RegisterSession(w)
    BY <2>1 DEF RegisterSession
  <2>2. CASE RegisterFails(w) \/ UnregisterExclusive(w) \/ CloseSession(w)
    BY SMTT(40), <2>2 DEF RegisterFails, UnregisterExclusive, UnregisterScript, CloseSession, store
  <2>3. CASE UNCHANGED lease
    BY <2>3
  <2> QED
    BY <2>1, <2>2, <2>3 DEF Step, AcquireClaim, RegisterWrites, RegisterPublishes,
      AssertExclusiveSession, StartBridge, Launch, ForwardSignal, Escalate, ChildExits,
      PassOver, CloseBridge, RemoveMember, RemoveHeartbeat, CloseFails, ReleaseClaim,
      ShutdownRedis, Report, Deadline, Crash, store
<1>4. v \in removed => v \in removed'
  BY ZenonT(60) DEF Step, AcquireClaim, Claimable, RegisterSession, RegisterWrites,
       RegisterPublishes,
      RegisterFails, AssertExclusiveSession, StartBridge, Launch, ForwardSignal, Escalate,
      ChildExits, PassOver, CloseBridge, UnregisterExclusive, UnregisterScript, CloseSession,
      RemoveMember, RemoveHeartbeat, CloseFails, ReleaseClaim, ReleaseScript, ShutdownRedis,
      Report, Deadline, Crash, store
<1> QED BY SMTT(40), <1>1, <1>2, <1>3, <1>4

\* The session set lists every live session with a record.
LEMMA ListedStep ==
  ASSUME WrapperInv, [Next]_vars
  PROVE  Listed'
<1>1. ASSUME NEW w \in Wrappers,
             \/ Step(w) \/ ForwardSignal(w) \/ Escalate(w) \/ ChildExits(w)
             \/ Deadline(w) \/ Crash(w)
      PROVE  Listed'
  <2>1. CASE RemoveMember(w)
    <3>1. w \notin record
      BY <2>1 DEF RemoveMember, WrapperInv, OwnInv, CleanInv
    <3> QED BY <2>1, <3>1 DEF RemoveMember, WrapperInv, Listed
  <2>2. CASE RegisterSession(w)
    BY <2>2 DEF RegisterSession, WrapperInv, Listed
  <2>3. CASE RegisterFails(w)
    BY <2>3 DEF RegisterFails, WrapperInv, Listed
  <2>4. CASE UnregisterExclusive(w)
    BY <2>4 DEF UnregisterExclusive, UnregisterScript, store, WrapperInv, Listed
  <2>5. CASE CloseSession(w)
    BY <2>5 DEF CloseSession, WrapperInv, Listed
  <2>6. CASE UNCHANGED <<record, lease, members>>
    BY <2>6 DEF WrapperInv, Listed
  <2> QED
    BY <1>1, <2>1, <2>2, <2>3, <2>4, <2>5, <2>6
    DEF Step, AcquireClaim, RegisterWrites, RegisterPublishes, AssertExclusiveSession,
      StartBridge, Launch, ForwardSignal, Escalate, ChildExits, PassOver, CloseBridge,
      RemoveHeartbeat, CloseFails, ReleaseClaim, ShutdownRedis, Report, Deadline, Crash, store
<1>2. ASSUME NEW p \in Plain, PlainJoins(p) \/ PlainPublishes(p) \/ PlainLeaves(p) PROVE Listed'
  BY <1>2 DEF PlainJoins, PlainPublishes, PlainLeaves, WrapperInv, Listed
<1>3. ASSUME NEW s \in Sessions, Refresh(s) PROVE Listed'
  BY <1>3 DEF Refresh, WrapperInv, Listed
<1>4. CASE Prune
  BY <1>4 DEF Prune, WrapperInv, Listed
<1>5. CASE Lapses
  BY <1>5 DEF Lapses, WrapperInv, Listed
<1>6. CASE UNCHANGED vars
  BY <1>6 DEF vars, store, WrapperInv, Listed
<1> QED BY <1>1, <1>2, <1>3, <1>4, <1>5, <1>6 DEF Next, AllEnded

LEMMA WrapperInit == Init => WrapperInv
<1> SUFFICES ASSUME Init PROVE WrapperInv
  OBVIOUS
<1>1. TypeOK /\ Listed
  BY TypeInit DEF Init, Listed
<1>2. ASSUME NEW w \in Wrappers PROVE OwnInv(w)
  <2>1. wrapper[w] = Fresh \/ wrapper[w] = [Fresh EXCEPT !.pc = "done"]
    BY DEF Init
  <2>2. claim # w /\ w \notin lease
    BY WrapperAssumption DEF Init
  <2>3. CASE wrapper[w] = Fresh
    BY <2>2, <2>3 DEF Fresh, OwnInv, StartInv, ChildInv, CoverInv, CleanInv, ExitInv,
      Started, Ending, ChildRunning
  <2>4. CASE wrapper[w] = [Fresh EXCEPT !.pc = "done"]
    BY <2>2, <2>4 DEF Fresh, OwnInv, StartInv, ChildInv, CoverInv, CleanInv, ExitInv,
      Started, Ending, ChildRunning
  <2> QED BY <2>1, <2>3, <2>4
<1> QED BY <1>1, <1>2 DEF WrapperInv

LEMMA WrapperStep == WrapperInv /\ [Next]_vars => WrapperInv'
<1> SUFFICES ASSUME WrapperInv, [Next]_vars PROVE WrapperInv'
  OBVIOUS
<1>1. TypeOK' /\ Listed'
  BY TypeStep, ListedStep DEF WrapperInv
<1> SUFFICES ASSUME NEW v \in Wrappers PROVE OwnInv(v)'
  BY <1>1 DEF WrapperInv
<1>2. TypeOK /\ OwnInv(v)
  BY DEF WrapperInv
<1>3. ASSUME NEW w \in Wrappers,
             \/ Step(w) \/ ForwardSignal(w) \/ Escalate(w) \/ ChildExits(w)
             \/ Deadline(w) \/ Crash(w)
      PROVE  OwnInv(v)'
  <2>1. CASE v = w
    BY <1>2, <1>3, <2>1, ClaimKeeps, RegisterKeeps, LaunchKeeps, SignalKeeps, PassOverKeeps,
       CleanupKeeps, ReleaseKeeps, ReportKeeps
    DEF Step
  <2>2. CASE v # w
    <3>1. wrapper \in [Wrappers -> Wrapper] /\ wrapper[w] \in Wrapper
      BY <1>2 DEF TypeOK
    <3>2. PICK r \in Wrapper : Becomes(w, r)
      BY <1>3, <3>1, StepBecomes
    <3>3. UNCHANGED wrapper[v]
      BY <2>2, <3>1, <3>2, BecomesTyped
    <3> QED BY <1>2, <1>3, <2>2, <3>3, StepIsOwn, OthersKeep
  <2> QED BY <2>1, <2>2
<1>4. ASSUME NEW p \in Plain, PlainJoins(p) \/ PlainPublishes(p) \/ PlainLeaves(p)
      PROVE  OwnInv(v)'
  <2>1. v # p
    BY WrapperAssumption
  <2> QED BY <1>2, <1>4, <2>1, OthersKeep DEF PlainJoins, PlainPublishes, PlainLeaves
<1>5. ASSUME NEW s \in Sessions, Refresh(s) PROVE OwnInv(v)'
  <2>1. /\ UNCHANGED <<wrapper, claim, record, removed>> /\ lease' = lease \cup {s}
        /\ s \in Wrappers => wrapper[s].pc \in Started
    BY <1>5 DEF Refresh, Started
  <2> QED BY <1>2, <2>1, OthersKeep
<1>6. CASE Prune \/ Lapses
  BY <1>2, <1>6, OthersKeep DEF Prune, Lapses
<1>7. CASE UNCHANGED vars
  BY <1>2, <1>7, OthersKeep DEF vars, store
<1> QED BY <1>3, <1>4, <1>5, <1>6, <1>7 DEF Next, AllEnded

LEMMA WrapperInvariant == Spec => []WrapperInv
BY WrapperInit, WrapperStep, PTL DEF Spec

-----------------------------------------------------------------------------
(***************************************************************************)
(* The theorems.                                                           *)
(***************************************************************************)

\* The children of two wrappers of one name never run together: a child runs under the
\* claim, and the claim is one token that nobody but its holder removes.
THEOREM RuntimesAreExclusive == Spec => []OneRuntimePerName
<1>1. WrapperInv => OneRuntimePerName
  BY DEF WrapperInv, OwnInv, ChildInv, OneRuntimePerName
<1> QED BY <1>1, WrapperInvariant, PTL

\* The live session of a registered wrapper is covered by its claim until the last attempt
\* at the cleanup, whatever fails on the way.
THEOREM SessionIsCovered == Spec => []ClaimCoversSession
<1>1. WrapperInv => ClaimCoversSession
  BY DEF WrapperInv, OwnInv, CoverInv, ClaimCoversSession
<1> QED BY <1>1, WrapperInvariant, PTL

\* A wrapper that exits with code 0 has seen no signal and has left nothing behind.
THEOREM ExitZeroIsTrue == Spec => []ExitZeroIsClean
<1>1. WrapperInv => ExitZeroIsClean
  BY DEF WrapperInv, OwnInv, ExitInv, ExitZeroIsClean
<1> QED BY <1>1, WrapperInvariant, PTL

\* The destructive cleanup deletes the name only when every live session under it is the
\* wrapper's own: what the script finds in the session set is all there is.
THEOREM DestructionIsExclusive == Spec => DestructionSparesOthers
<1>1. ASSUME WrapperInv, [Next]_vars
      PROVE  [\A w \in removed' \ removed : (record \cap lease) \subseteq {w}]_vars
  <2>1. CASE UNCHANGED removed
    BY <2>1
  <2>2. ASSUME NEW w \in Wrappers, UnregisterScript(w)
        PROVE  \A v \in removed' \ removed : (record \cap lease) \subseteq {v}
    BY <1>1, <2>2 DEF UnregisterScript, Exclusive, WrapperInv, Listed
  <2>3. CASE UNCHANGED vars
    BY <2>3
  <2> QED
    BY ZenonT(60), <1>1, <2>1, <2>2, <2>3
    DEF Next, Step, AcquireClaim, RegisterSession, RegisterWrites, RegisterPublishes,
      RegisterFails, AssertExclusiveSession, StartBridge, Launch, ForwardSignal, Escalate,
      ChildExits, PassOver, CloseBridge, UnregisterExclusive, CloseSession, RemoveMember,
      RemoveHeartbeat, CloseFails, ReleaseClaim, ShutdownRedis, Report, Deadline, Crash,
      PlainJoins, PlainPublishes, PlainLeaves, Refresh, Prune, Lapses, AllEnded
<1> QED BY <1>1, WrapperInvariant, PTL DEF Spec, DestructionSparesOthers
=============================================================================
