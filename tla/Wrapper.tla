------------------------------ MODULE Wrapper -------------------------------
(***************************************************************************)
(* The experimental wrapper: it claims an agent name, registers it, starts *)
(* a bridge, runs a child process and releases everything again, while     *)
(* signals arrive, calls fail and other clients register the same name     *)
(* (src/experimental-wrapper/index.ts, identity-claim.ts).                 *)
(*                                                                         *)
(* One name is modelled.  A wrapper is one run of the program, with one    *)
(* claim token and one session; a script is one step, every other await a  *)
(* step of its own.                                                        *)
(***************************************************************************)
EXTENDS Integers, FiniteSets

CONSTANTS
  Wrappers,   \* runs of the wrapper
  Plain,      \* other clients that may register the name
  Mode,       \* options.cleanup of each wrapper: "close" or "unregister"
  Scenarios,  \* who takes part and what may go wrong, in the behaviours considered
  None        \* no token

MaxSignals == 2   \* the third signal is handled as the second

ASSUME WrapperAssumption ==
  /\ Wrappers \cap Plain = {} /\ None \notin Wrappers
  /\ Mode \in [Wrappers -> {"close", "unregister"}]
  /\ Scenarios \subseteq [wrappers: SUBSET Wrappers, plain: SUBSET Plain,
                           events: SUBSET {"fail", "crash", "lapse", "signal"}]

VARIABLES
  events,     \* what may go wrong in this behaviour; never changes
  claim,      \* gptq:wrapper-claim:<name>: whose token it holds
  registry,   \* the name has a registry entry
  record,     \* sessions whose record exists
  lease,      \* sessions whose lease exists
  members,    \* gptq:agent-sessions:<name>
  heartbeat,  \* gptq:heartbeat:<name> exists
  plain,      \* the other clients: out, registering or in
  wrapper,    \* the wrapper processes
  removed     \* history: wrappers that deleted the name

store == <<claim, registry, record, lease, members, heartbeat>>
vars == <<events, store, plain, wrapper, removed>>

Sessions == Wrappers \cup Plain
Phases == {"bridge", "registration", "claim", "redis"}

Wrapper == [pc: {"claim", "register", "write", "publish", "verify", "bridge", "prepare",
                 "running", "cleanup", "done", "crashed"},
            holds: BOOLEAN,        \* identityClaim is set
            registered: BOOLEAN,   \* redisClient.registered
            bridge: BOOLEAN,       \* bridge is set
            child: {"none", "running", "asked", "killed", "gone"},
            signals: 0..MaxSignals,
            forced: BOOLEAN,       \* cleanupForced
            cut: BOOLEAN,          \* connectionsForcedClosed of the Redis client
            at: Phases \cup {"member", "heartbeat", "report"},  \* where cleanup stands
            final: BOOLEAN,        \* finalAttempt
            released: SUBSET Phases,
            failures: SUBSET Phases,
            freed: BOOLEAN,        \* the claim's own released flag
            threw: BOOLEAN,        \* the try block ended with an exception
            code: {"zero", "fail", "signal"}]

TypeOK ==
  /\ events \in {s.events : s \in Scenarios}
  /\ claim \in Wrappers \cup {None}
  /\ registry \in BOOLEAN
  /\ record \subseteq Sessions /\ lease \subseteq Sessions /\ members \subseteq Sessions
  /\ heartbeat \in BOOLEAN
  /\ plain \in [Plain -> {"out", "joining", "in", "left"}]
  /\ wrapper \in [Wrappers -> Wrapper]
  /\ removed \subseteq Wrappers

Fresh == [pc |-> "claim", holds |-> FALSE, registered |-> FALSE, bridge |-> FALSE,
          child |-> "none", signals |-> 0, forced |-> FALSE, cut |-> FALSE, at |-> "bridge",
          final |-> FALSE, released |-> {}, failures |-> {}, freed |-> FALSE,
          threw |-> FALSE, code |-> "fail"]

\* The name is new, or an identity somebody left offline.  Who takes no part in the
\* scenario has ended.
Init ==
  /\ \E s \in Scenarios :
       /\ events = s.events
       /\ plain = [p \in Plain |-> IF p \in s.plain THEN "out" ELSE "left"]
       /\ wrapper = [w \in Wrappers |-> IF w \in s.wrappers THEN Fresh
                                        ELSE [Fresh EXCEPT !.pc = "done"]]
  /\ claim = None
  /\ registry \in BOOLEAN
  /\ record = {} /\ lease = {} /\ members = {}
  /\ heartbeat = FALSE
  /\ removed = {}

Becomes(w, r) == wrapper' = [wrapper EXCEPT ![w] = r]
Goes(w, pc) == Becomes(w, [wrapper[w] EXCEPT !.pc = pc])

\* The try block is left by an exception: the finally block starts.
Threw(r) == [r EXCEPT !.pc = "cleanup", !.threw = TRUE]

-----------------------------------------------------------------------------
(***************************************************************************)
(* Start: claim, register, verify, bridge.                                 *)
(***************************************************************************)

\* Mutant: a claim that exists is taken over when no session of the name is alive.
Claimable_TakesOver(w) ==
  /\ Mode[w] = "unregister" => ~registry
  /\ members \cap lease = {} /\ ~heartbeat

\* ACQUIRE_CLAIM: refused when a claim exists, when destructive cleanup is asked for and
\* the name is registered, and when a session or a heartbeat of the name is alive.
Claimable(w) ==
  /\ claim = None
  /\ Mode[w] = "unregister" => ~registry
  /\ members \cap lease = {} /\ ~heartbeat

AcquireClaim(w) ==
  /\ wrapper[w].pc = "claim"
  /\ \/ /\ Claimable(w)
        /\ claim' = w
        /\ Becomes(w, [wrapper[w] EXCEPT !.pc = "register", !.holds = TRUE])
     \/ /\ ~Claimable(w)
        /\ Becomes(w, Threw(wrapper[w]))
        /\ UNCHANGED claim
     \/ /\ "fail" \in events        \* no answer: the token may be set all the same
        /\ (Claimable(w) /\ claim' = w) \/ UNCHANGED claim
        /\ Becomes(w, Threw(wrapper[w]))
  /\ UNCHANGED <<events, registry, record, lease, members, heartbeat, plain, removed>>

\* redisClient.register: the session, then the provisional entry, then the completed one;
\* between the last two the client already counts as registered.
RegisterSession(w) ==
  /\ wrapper[w].pc = "register" /\ ~wrapper[w].cut
  /\ record' = record \cup {w}
  /\ lease' = lease \cup {w}
  /\ members' = members \cup {w}
  /\ Goes(w, "write")
  /\ UNCHANGED <<events, claim, registry, heartbeat, plain, removed>>

RegisterWrites(w) ==
  /\ wrapper[w].pc = "write" /\ ~wrapper[w].cut
  /\ registry' = TRUE
  /\ Becomes(w, [wrapper[w] EXCEPT !.pc = "publish", !.registered = TRUE])
  /\ UNCHANGED <<events, claim, record, lease, members, heartbeat, plain, removed>>

RegisterPublishes(w) ==
  /\ wrapper[w].pc = "publish" /\ ~wrapper[w].cut
  /\ registry' = TRUE
  /\ heartbeat' = TRUE
  /\ Goes(w, "verify")
  /\ UNCHANGED <<events, claim, record, lease, members, plain, removed>>

\* register throws: after the write failed the session is removed if the store lets it.
RegisterFails(w) ==
  /\ wrapper[w].pc \in {"register", "write", "publish"}
  /\ "fail" \in events \/ wrapper[w].cut
  /\ \/ UNCHANGED <<record, lease, members>>
     \/ /\ wrapper[w].pc = "write" /\ ~wrapper[w].cut
        /\ record' = record \ {w} /\ lease' = lease \ {w} /\ members' = members \ {w}
  /\ Becomes(w, Threw(wrapper[w]))
  /\ UNCHANGED <<events, claim, registry, heartbeat, plain, removed>>

\* VERIFY_SESSION: the token is ours and our session is the only one of the name.
AssertExclusiveSession(w) ==
  /\ wrapper[w].pc = "verify"
  /\ \/ claim = w /\ members = {w} /\ ~wrapper[w].forced /\ Goes(w, "bridge")
     \/ /\ ~(claim = w /\ members = {w}) \/ "fail" \in events \/ wrapper[w].forced
        /\ Becomes(w, Threw(wrapper[w]))
  /\ UNCHANGED <<events, store, plain, removed>>

\* startBoundBridge, then the first look at the signals.
StartBridge(w) ==
  /\ wrapper[w].pc = "bridge"
  /\ \/ Becomes(w, [wrapper[w] EXCEPT
                      !.bridge = TRUE,
                      !.pc = IF wrapper[w].signals = 0 THEN "prepare" ELSE "cleanup",
                      !.code = IF wrapper[w].signals = 0 THEN @ ELSE "signal"])
     \/ "fail" \in events /\ Becomes(w, Threw(wrapper[w]))
  /\ UNCHANGED <<events, store, plain, removed>>

\* Mutant: the signals are not looked at again after the extension was written.
Launch_NoRecheck(w) ==
  /\ wrapper[w].pc = "prepare"
  /\ Becomes(w, [wrapper[w] EXCEPT !.pc = "running", !.child = "running"])
  /\ UNCHANGED <<events, store, plain, removed>>

\* The extension is written and the workspace resolved; after that await the signals are
\* looked at again, and the child is spawned in the same turn.
Launch(w) ==
  /\ wrapper[w].pc = "prepare"
  /\ \/ /\ wrapper[w].signals = 0
        /\ Becomes(w, [wrapper[w] EXCEPT !.pc = "running", !.child = "running"])
     \/ /\ wrapper[w].signals > 0
        /\ Becomes(w, [wrapper[w] EXCEPT !.pc = "cleanup", !.code = "signal"])
     \/ "fail" \in events /\ Becomes(w, Threw(wrapper[w]))
  /\ UNCHANGED <<events, store, plain, removed>>

-----------------------------------------------------------------------------
(***************************************************************************)
(* The child and the signals.                                              *)
(***************************************************************************)

ChildRunning(w) == wrapper[w].child \in {"running", "asked", "killed"}

\* forceCleanupConnections: both connections go, the claim stays in the store.
Forced(r) == [r EXCEPT !.forced = TRUE, !.cut = TRUE,
                       !.released = IF r.forced THEN @ ELSE @ \cup {"redis"}]

\* forwardSignal: the first signal goes to the child, the second kills it; with no child
\* the second one forces the connections closed.
ForwardSignal(w) ==
  LET r == [wrapper[w] EXCEPT !.signals = @ + 1]
  IN  /\ "signal" \in events
      /\ r.pc \notin {"done", "crashed"} /\ wrapper[w].signals < MaxSignals
      /\ Becomes(w, IF ~ChildRunning(w)
                    THEN IF r.signals >= 2 THEN Forced(r) ELSE r
                    ELSE [r EXCEPT !.child = IF r.signals = 1 /\ @ = "running"
                                             THEN "asked" ELSE "killed"])
      /\ UNCHANGED <<events, store, plain, removed>>

\* The timer of the first signal: a child still running is killed.
Escalate(w) ==
  /\ wrapper[w].pc = "running" /\ wrapper[w].child = "asked"
  /\ Becomes(w, [wrapper[w] EXCEPT !.child = "killed"])
  /\ UNCHANGED <<events, store, plain, removed>>

\* observeChild, exitCodeFor; terminateChild has nothing left to do.  A signal the child
\* handled may still end in exit code 0.
ChildExits(w) ==
  /\ ChildRunning(w) /\ wrapper[w].pc \in {"running", "crashed"}
  /\ \E code \in IF wrapper[w].child = "killed" THEN {"signal"}
                 ELSE {"zero", "fail", "signal"} :
       Becomes(w, [wrapper[w] EXCEPT
                     !.child = "gone", !.code = code,
                     !.pc = IF @ = "running" THEN "cleanup" ELSE @])
  /\ UNCHANGED <<events, store, plain, removed>>

-----------------------------------------------------------------------------
(***************************************************************************)
(* Cleanup: bridge, registration, claim, redis, in that order, twice if    *)
(* the first attempt had a failure.                                        *)
(***************************************************************************)

NextPhase(p) == CASE p = "bridge" -> "registration" [] p = "registration" -> "claim"
                  [] p = "claim" -> "redis" [] p = "redis" -> "report"

\* Mutant: the claim is released whatever became of the registration.
Ready_Always(r, p) == TRUE

\* CleanupStep.ready.
Ready(r, p) ==
  CASE p = "claim" -> "registration" \in r.released \/ r.final
    [] p = "redis" -> {"registration", "claim"} \subseteq r.released \/ r.final
    [] OTHER -> TRUE

\* CleanupStep.absent.
Absent(r, p) ==
  CASE p = "bridge" -> ~r.bridge
    [] p = "registration" -> ~r.registered
    [] p = "claim" -> ~r.holds
    [] p = "redis" -> FALSE

Released(r, p) == [r EXCEPT !.released = @ \cup {p}, !.failures = @ \ {p}, !.at = NextPhase(p)]
Failed(r, p) == [r EXCEPT !.failures = @ \cup {p}, !.at = NextPhase(p)]

\* The phase has a release to run.
Due(w, p) ==
  LET r == wrapper[w]
  IN  /\ r.pc = "cleanup" /\ r.at = p
      /\ p \notin r.released /\ Ready(r, p) /\ ~Absent(r, p)
      /\ ~(r.forced /\ p \in {"registration", "claim"})

\* It has none: done already, not ready, nothing there, or abandoned by force.
PassOver(w, p) ==
  LET r == wrapper[w]
  IN  /\ r.pc = "cleanup" /\ r.at = p
      /\ ~Due(w, p)
      /\ Becomes(w, IF p \in r.released \/ ~Ready(r, p) THEN [r EXCEPT !.at = NextPhase(p)]
                    ELSE IF Absent(r, p)
                         THEN [r EXCEPT !.released = @ \cup {p}, !.at = NextPhase(p)]
                    ELSE Failed(r, p))
      /\ UNCHANGED <<events, store, plain, removed>>

\* bridge.close: bounded by its grace periods; closing the server may fail.
CloseBridge(w) ==
  /\ Due(w, "bridge")
  /\ \/ Becomes(w, Released(wrapper[w], "bridge"))
     \/ "fail" \in events /\ Becomes(w, Failed(wrapper[w], "bridge"))
  /\ UNCHANGED <<events, store, plain, removed>>

\* Mutant: the name is deleted as long as our session is among its members.
Exclusive_Member(w) == w \in members

\* Our session is the only one of the name.
Exclusive(w) == members = {w}

\* UNREGISTER_EXCLUSIVE_SESSION: nothing without our token and our record; our session
\* goes; the name goes with it only if no other session has it.
UnregisterScript(w) ==
  /\ claim = w /\ w \in record
  /\ record' = record \ {w}
  /\ lease' = lease \ {w}
  /\ members' = members \ {w}
  /\ registry' = (registry /\ ~Exclusive(w))
  /\ heartbeat' = (heartbeat /\ ~Exclusive(w))
  /\ removed' = IF Exclusive(w) THEN removed \cup {w} ELSE removed
  /\ UNCHANGED claim

\* releaseRegistration, destructive: the client's connections are cut first, the script
\* runs over the claim's.  A session that was not alone is a warning.
UnregisterExclusive(w) ==
  LET r == [wrapper[w] EXCEPT !.cut = TRUE]
  IN  /\ Due(w, "registration") /\ Mode[w] = "unregister"
      /\ \/ /\ UnregisterScript(w)
            /\ Becomes(w, IF Exclusive(w) THEN Released(r, "registration")
                          ELSE [Released(r, "registration") EXCEPT
                                  !.failures = @ \cup {"registration"}])
         \/ /\ "fail" \in events         \* it ran, its answer is lost
            /\ UnregisterScript(w)
            /\ Becomes(w, Failed(r, "registration"))
         \/ /\ "fail" \in events \/ ~(claim = w /\ w \in record)
            /\ Becomes(w, Failed(r, "registration"))
            /\ UNCHANGED <<store, removed>>
      /\ UNCHANGED <<events, plain>>

\* releaseRegistration, not destructive: closeCurrentSession, in three steps.
CloseSession(w) ==
  /\ Due(w, "registration") /\ Mode[w] = "close" /\ ~wrapper[w].cut
  /\ record' = record \ {w}
  /\ lease' = lease \ {w}
  /\ Becomes(w, [wrapper[w] EXCEPT !.at = IF w \in record THEN "member" ELSE "heartbeat"])
  /\ UNCHANGED <<events, claim, registry, members, heartbeat, plain, removed>>

RemoveMember(w) ==
  /\ wrapper[w].pc = "cleanup" /\ wrapper[w].at = "member" /\ ~wrapper[w].cut
  /\ members' = members \ {w}
  /\ Becomes(w, [wrapper[w] EXCEPT !.at = "heartbeat"])
  /\ UNCHANGED <<events, claim, registry, record, lease, heartbeat, plain, removed>>

RemoveHeartbeat(w) ==
  /\ wrapper[w].pc = "cleanup" /\ wrapper[w].at = "heartbeat" /\ ~wrapper[w].cut
  /\ heartbeat' = FALSE
  /\ Becomes(w, Released([wrapper[w] EXCEPT !.registered = FALSE], "registration"))
  /\ UNCHANGED <<events, claim, registry, record, lease, members, plain, removed>>

\* Any of them fails, by itself or because the connections were forced closed.
CloseFails(w) ==
  /\ \/ Due(w, "registration") /\ Mode[w] = "close"
     \/ wrapper[w].pc = "cleanup" /\ wrapper[w].at \in {"member", "heartbeat"}
  /\ "fail" \in events \/ wrapper[w].cut
  /\ Becomes(w, Failed(wrapper[w], "registration"))
  /\ UNCHANGED <<events, store, plain, removed>>

\* RELEASE_CLAIM: compare and delete.
ReleaseScript(w) == claim = w /\ claim' = None

\* claim.release: the script, unless it ran before, then QUIT.
ReleaseClaim(w) ==
  LET r == wrapper[w]
  IN  /\ Due(w, "claim")
      /\ \/ r.freed /\ Becomes(w, Released(r, "claim")) /\ UNCHANGED claim
         \/ ~r.freed /\ ReleaseScript(w) /\ Becomes(w, Released([r EXCEPT !.freed = TRUE], "claim"))
         \/ /\ "fail" \in events         \* QUIT fails, or the script's answer is lost
            /\ ~r.freed /\ ReleaseScript(w)
            /\ \E freed \in BOOLEAN : Becomes(w, Failed([r EXCEPT !.freed = freed], "claim"))
         \/ /\ "fail" \in events \/ (~r.freed /\ claim # w)
            /\ Becomes(w, Failed(r, "claim"))
            /\ UNCHANGED claim
      /\ UNCHANGED <<events, registry, record, lease, members, heartbeat, plain, removed>>

\* redisClient.shutdown never throws.
ShutdownRedis(w) ==
  /\ Due(w, "redis")
  /\ Becomes(w, [Released(wrapper[w], "redis") EXCEPT !.cut = TRUE])
  /\ UNCHANGED <<events, store, plain, removed>>

\* The cleanup budget is used up.
Deadline(w) ==
  /\ "fail" \in events
  /\ wrapper[w].pc = "cleanup" /\ ~wrapper[w].forced
  /\ Becomes(w, Forced(wrapper[w]))
  /\ UNCHANGED <<events, store, plain, removed>>

\* Mutant: only the child decides.
finalExitCode_ChildOnly(r) == IF r.threw THEN "fail" ELSE r.code

\* finalExitCode; an exception of the try block is exit code 1 in the end.
finalExitCode(r) ==
  IF r.threw THEN "fail"
  ELSE IF r.failures # {} THEN IF r.signals > 0 THEN "signal" ELSE "fail"
  ELSE IF r.signals > 0 /\ r.code = "zero" THEN "signal"
  ELSE r.code

\* The report of an attempt: a second one after a failure, or the end, where the claim's
\* connection is abandoned and the client's cut.
Report(w) ==
  LET r == wrapper[w]
  IN  /\ r.pc = "cleanup" /\ r.at = "report"
      /\ Becomes(w, IF r.failures # {} /\ ~r.final
                    THEN [r EXCEPT !.at = "bridge", !.final = TRUE]
                    ELSE [r EXCEPT !.pc = "done", !.cut = TRUE, !.code = finalExitCode(r)])
      /\ UNCHANGED <<events, store, plain, removed>>

\* The wrapper is killed.  Its child lives on.
Crash(w) ==
  /\ "crash" \in events
  /\ wrapper[w].pc \notin {"claim", "done", "crashed"}
  /\ Becomes(w, [wrapper[w] EXCEPT !.pc = "crashed", !.cut = TRUE])
  /\ UNCHANGED <<events, store, plain, removed>>

-----------------------------------------------------------------------------
(***************************************************************************)
(* Other clients of the name, lease refreshes and lapses.                  *)
(***************************************************************************)

\* A registration of the name prunes first.
Prune ==
  /\ "lapse" \in events
  /\ members \ lease # {}
  /\ record' = record \ (members \ lease)
  /\ members' = members \cap lease
  /\ UNCHANGED <<events, claim, registry, lease, heartbeat, plain, wrapper, removed>>

\* Record, lease and membership together; the registry entry in a later step.
PlainJoins(p) ==
  /\ plain[p] = "out"
  /\ plain' = [plain EXCEPT ![p] = "joining"]
  /\ record' = record \cup {p} /\ lease' = lease \cup {p} /\ members' = members \cup {p}
  /\ UNCHANGED <<events, claim, registry, heartbeat, wrapper, removed>>

PlainPublishes(p) ==
  /\ plain[p] = "joining"
  /\ plain' = [plain EXCEPT ![p] = "in"]
  /\ registry' = TRUE
  /\ UNCHANGED <<events, claim, record, lease, members, heartbeat, wrapper, removed>>

\* close_session, or unregister_agent, which deletes the name for everybody.
PlainLeaves(p) ==
  /\ plain[p] = "in"
  /\ plain' = [plain EXCEPT ![p] = "left"]
  /\ record' = record \ {p} /\ lease' = lease \ {p} /\ members' = members \ {p}
  /\ registry' \in {registry, FALSE}
  /\ heartbeat' = FALSE
  /\ UNCHANGED <<events, claim, wrapper, removed>>

\* A client with its timers running renews its lease, as long as it has a record.
Refresh(s) ==
  /\ "lapse" \in events
  /\ s \in record
  /\ IF s \in Wrappers THEN wrapper[s].registered /\ ~wrapper[s].cut
                            /\ wrapper[s].pc \in {"verify", "bridge", "prepare", "running"}
     ELSE plain[s] = "in"
  /\ lease' = lease \cup {s}
  /\ members' = members \cup {s}
  /\ UNCHANGED <<events, claim, registry, record, heartbeat, plain, wrapper, removed>>

Lapses ==
  /\ "lapse" \in events
  /\ \/ \E s \in lease : lease' = lease \ {s} /\ UNCHANGED heartbeat
     \/ heartbeat /\ heartbeat' = FALSE /\ UNCHANGED lease
  /\ UNCHANGED <<events, claim, registry, record, members, plain, wrapper, removed>>

\* What a wrapper does by itself.
Step(w) ==
  \/ AcquireClaim(w) \/ RegisterSession(w) \/ RegisterWrites(w) \/ RegisterPublishes(w)
  \/ RegisterFails(w) \/ AssertExclusiveSession(w) \/ StartBridge(w) \/ Launch(w)
  \/ \E p \in Phases : PassOver(w, p)
  \/ CloseBridge(w) \/ UnregisterExclusive(w) \/ CloseSession(w) \/ RemoveMember(w)
  \/ RemoveHeartbeat(w) \/ CloseFails(w) \/ ReleaseClaim(w) \/ ShutdownRedis(w) \/ Report(w)

\* A killed child goes; a child that runs may go at any time.
KilledExits(w) == wrapper[w].child = "killed" /\ ChildExits(w)

AllEnded ==
  /\ \A w \in Wrappers : wrapper[w].pc \in {"done", "crashed"}
  /\ UNCHANGED vars

Next ==
  \/ \E w \in Wrappers : Step(w) \/ ForwardSignal(w) \/ Escalate(w) \/ ChildExits(w)
                         \/ Deadline(w) \/ Crash(w)
  \/ \E p \in Plain : PlainJoins(p) \/ PlainPublishes(p) \/ PlainLeaves(p)
  \/ \E s \in Sessions : Refresh(s)
  \/ Prune \/ Lapses
  \/ AllEnded

Spec == Init /\ [][Next]_vars

\* Every call of the wrapper returns (ioredis gives up after its retries, the bridge after
\* its grace periods), the timer of the first signal fires, and a killed process goes.
FairSpec ==
  /\ Spec
  /\ \A w \in Wrappers : /\ WF_vars(Step(w)) /\ WF_vars(Escalate(w)) /\ WF_vars(KilledExits(w))

-----------------------------------------------------------------------------
(***************************************************************************)
(* Properties.                                                             *)
(***************************************************************************)

\* One runtime per name: the children of two wrappers never run at the same time, even
\* when the wrapper of the first was killed and its child lives on: the claim has no TTL
\* (identity-claim.ts, "losing exclusivity is more dangerous").
OneRuntimePerName ==
  \A v, w \in Wrappers : ChildRunning(v) /\ ChildRunning(w) => v = w

\* A destructive cleanup deletes the name only if no other session is alive under it,
\* however late that session came.
DestructionSparesOthers ==
  [][\A w \in removed' \ removed : (record \cap lease) \subseteq {w}]_vars

\* A registered wrapper's live session is covered by its claim until the second, last
\* attempt at the cleanup: a failure, a signal or the deadline leaves the name closed
\* rather than open to a second owner.
ClaimCoversSession ==
  \A w \in Wrappers :
    wrapper[w].registered /\ w \in lease => claim = w \/ wrapper[w].final

\* Exit code 0 is true: no signal came, the claim and the session are gone, and a
\* destructive run has deleted the name.
ExitZeroIsClean ==
  \A w \in Wrappers :
    wrapper[w].pc = "done" /\ wrapper[w].code = "zero" =>
      /\ wrapper[w].signals = 0
      /\ claim # w /\ w \notin record
      /\ Mode[w] = "unregister" => w \in removed

\* A signal ends the wrapper, whenever it comes: before the launch, between the last look
\* and the spawn, or to a child that ignores it.
SignalEnds ==
  \A w \in Wrappers :
    wrapper[w].signals > 0 ~> wrapper[w].pc \in {"done", "crashed"}
=============================================================================
