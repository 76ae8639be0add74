----------------------------- MODULE MCRegistry -----------------------------
(***************************************************************************)
(* A small instance of Registry for TLC: clients, names, sessions and      *)
(* stamps are interchangeable.                                             *)
(***************************************************************************)
EXTENDS Registry, TLC

Symmetry == Permutations(Clients) \cup Permutations(Names) \cup Permutations(Sessions)
            \cup Permutations(Stamps)

With(n, e) == [sessions |-> n, events |-> e \cup {"crash"}]
\* Failing registrations and renames; refreshes that race a close; heartbeats; the rest.
MCScenarios ==
  {With(3, {"unregister", "fail"}),
   With(3, {"close", "refresh", "lapse"}),
   With(2, {"close", "fail", "beat"}),
   With(2, {"adopt", "beat", "lapse"}),
   With(2, {"adopt", "fail"}),
   With(2, {"close", "unregister", "reconnect", "adopt", "refresh", "lapse"})}
\* Nothing but registrations and renames, which may fail.
OnlyRenaming == {With(3, {}), With(2, {"fail"})}
=============================================================================
