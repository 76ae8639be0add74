---------------------------- MODULE MCActivation ----------------------------
(***************************************************************************)
(* The inbox dispatcher of a shell: Activation under names that Shell does *)
(* not use, so that one module can speak of both, and its small instances  *)
(* for TLC.                                                                *)
(***************************************************************************)
EXTENDS TLC

CONSTANTS
  Dispatchers, Msgs, Maximum, MaxRecords,
  Disturbances,  \* Scenarios of Activation
  Nil,           \* its None
  Crashed        \* the binding of a process that crashed

VARIABLES
  disturbance,   \* the scenario
  waiting,       \* the inbox
  owner,         \* the binding
  activation,    \* the record
  claims, expired, sent, disp, known, turn, late, user, submissions, created

D == INSTANCE Activation
       WITH Scenarios <- Disturbances, None <- Nil, scenario <- disturbance,
            inbox <- waiting, binding <- owner, record <- activation

ASSUME DispatcherAssumption == D!ActivationAssumption

DispatcherSpec == D!Spec
FairDispatcherSpec == D!FairSpec

Symmetry == Permutations(Dispatchers) \cup Permutations(Msgs)

With(a, n, e) == [adapter |-> a, msgs |-> n, events |-> e]
\* Takeovers from stalled owners; gaps and the user's turns; each adapter.
MCScenarios ==
  {With("codex", 1, {"crash", "lost", "stall"}),
   With("codex", 1, {"crash", "lost", "gap", "user", "lapse"}),
   With("codex", 2, {"lost", "lapse"}),
   With("pi", 1, {"crash", "lost", "lapse", "fail", "gap"}),
   With("opencode", 1, {"crash", "lost", "gap", "user", "lapse", "close"})}
\* One dispatcher that goes on, and two messages.
Undisturbed == {With("codex", 2, {"lost", "lapse"})}

-----------------------------------------------------------------------------
(***************************************************************************)
(* The properties of Activation, by the names they have there.             *)
(***************************************************************************)

\* Each activation record leads to at most one submission to the runtime, carried out or
\* on its way, whichever dispatcher makes it (inbox-dispatcher.ts, tick).
SubmittedOncePerRecord == D!SubmittedOncePerRecord

\* A submission that was made or may have been made is not forgotten: its record never
\* becomes pending again (inbox-dispatcher.ts, activation-store.ts).
DoubtIsKept == D!DoubtIsKept

\* Mail that waits gets an activation of its own in the end (inbox-dispatcher.ts, tick).
WorkIsActivated == D!WorkIsActivated
=============================================================================
