----------------------------- MODULE MCQaGuard -----------------------------
(* LiveQa with drivers t1 and t2 of the first phase, one of which may repair  *)
(* what the other halted, and p1 of the second.                               *)
EXTENDS LiveQa, TLC

CONSTANTS t1, t2, p1
MCPhaseOf == [d \in Drivers |-> IF d = p1 THEN "python" ELSE "typescript"]
MCIdentities == {<<"given", 0>>}
MCTurnLimit == [p \in Phases |-> 2]
MCRouteLimit == [p \in Phases |-> IF p = "python" THEN 1 ELSE 0]

(* Bounds: p1 is started when the first phase is over, one way or the other;  *)
(* in a campaign that is to have p1, only one thing dies, after this start,   *)
(* and nothing in a campaign of all three.                                    *)
MayDie == IF at[p1] = "gone" THEN MaxCrashes
          ELSE IF "gone" \in {at[t1], at[t2]} THEN 1 ELSE 0
MCInit == LInit /\ crashes = MaxCrashes - MayDie
FirstIsOver == \/ files.state.phase["typescript"] = "complete"
               \/ \A d \in {t1, t2} : at[d] = "gone"
MCNext == /\ LNext
          /\ op'.by = p1 /\ op'.action = "claim" => FirstIsOver
          /\ at[p1] = "claim" /\ op.by # p1 => crashes' = crashes
MCSpec == MCInit /\ [][MCNext]_lvars
Symmetry == Permutations({t1, t2})
=============================================================================
