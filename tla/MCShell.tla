------------------------------- MODULE MCShell -------------------------------
(* Small instances of Shell for TLC. *)
EXTENDS Shell
CONSTANTS s1, s2, r1, r2
OneRuntime == [s \in Shells |-> r1]
TwoRuntimes == [s \in Shells |-> IF s = s1 THEN r1 ELSE r2]
With(f, n, e) == [runtime |-> f, binds |-> n, events |-> e]
\* One runtime bound again after a crash; plans that race mail, with one runtime and with
\* two; sends, failures and keys that lapse under a stalled shell; plans amid failures.
MCScenarios ==
  {With(OneRuntime, 2, {"crash", "operator"}),
   With(OneRuntime, 1, {"crash", "operator", "mail"}),
   With(TwoRuntimes, 1, {"operator", "mail"}),
   With(OneRuntime, 1, {"fail", "send", "stall"}),
   With(OneRuntime, 1, {"fail", "operator"})}
\* Closing is all that happens; steps fail.
Failing == {With(OneRuntime, 1, {"fail"})}
\* Steps fail, and messages are sent.
FailingSends == {With(OneRuntime, 1, {"fail", "send"})}
==============================================================================
