---------------------------- MODULE MCSpendBudget ---------------------------
(* Three callers on a budget of three units, turns of up to two. *)
EXTENDS SpendBudget, TLC

MCKinds == {
  [cost |-> 2, counterfactual |-> Undisclosed, named |-> TRUE],
  [cost |-> 1, counterfactual |-> 2, named |-> TRUE],            \* routed
  [cost |-> Undisclosed, counterfactual |-> Undisclosed, named |-> TRUE],  \* a stream
  Blank}                                                         \* a refusal
CallersAlike == Permutations(Callers)
=============================================================================
