------------------------------ MODULE MCPySpend ------------------------------
(* Two threads on a budget of one unit, turns of one. *)
EXTENDS PySpend

MCKinds == {
  [cost |-> 1, counterfactual |-> 1, named |-> TRUE],            \* routed
  [cost |-> Undisclosed, counterfactual |-> Undisclosed, named |-> TRUE],  \* a stream
  Blank}                                                         \* no receipt
=============================================================================
