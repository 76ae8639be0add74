----------------------------- MODULE MCMailbox ------------------------------
(***************************************************************************)
(* Small instances of Mailbox for TLC.                                     *)
(***************************************************************************)
EXTENDS Mailbox, TLC

Symmetry == Permutations(Names) \cup Permutations(Receivers)
            \cup Permutations(Requests \ Keyed) \cup Permutations(Keyed)

Scenario(n, e) == [names |-> n, events |-> e]
\* Repeated sends; renames over claims, and over what does not parse; receives cut off;
\* claims and parkings whose answers are lost.
MCScenarios ==
  {Scenario(1, {"repeat", "lost", "expire"}),
   Scenario(2, {"rename", "claims"}),
   Scenario(2, {"rename", "foreign"}),
   Scenario(1, {"break", "close", "unregister", "durable", "foreign"}),
   Scenario(1, {"claims", "lost"}),
   Scenario(1, {"foreign", "lost", "break"})}
\* One call and one intervening event.
Repeating == {Scenario(1, {"repeat", "lost", "expire"})}
Documented == {Scenario(2, {"rename"}), Scenario(1, {"durable"}), Scenario(1, {"unregister"})}
=============================================================================
