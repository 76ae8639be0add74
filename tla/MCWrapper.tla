------------------------------ MODULE MCWrapper ------------------------------
(* An instance of Wrapper for TLC: w1 unregisters when it ends, w2 closes. *)
EXTENDS Wrapper
CONSTANTS w1, w2, p1
Mixed == [w \in Wrappers |-> IF w = w1 THEN "unregister" ELSE "close"]
\* One wrapper of each kind with everything going wrong, and the two competing.
Alone(w) == [wrappers |-> {w}, plain |-> {p1}, events |-> {"fail", "signal", "lapse"}]
Both == [wrappers |-> {w1, w2}, plain |-> {p1}, events |-> {"crash", "lapse"}]
MCScenarios == {Alone(w1), Alone(w2), Both}
=============================================================================
