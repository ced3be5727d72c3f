---------------------------- MODULE SpendBudget -----------------------------
(***************************************************************************)
(* SpendBudget of src/src/receipts.ts, shared by concurrent callers and    *)
(* wrapped by a ReceiptCollector of the application's own, the composition *)
(* its `fetch` option is for:                                              *)
(*                                                                         *)
(*    application -> collector.fetch -> budget.fetch -> the network        *)
(*                                                                         *)
(* The budget looks at what was spent, then awaits the answer, and only    *)
(* then learns what the call cost: other callers run in between.           *)
(***************************************************************************)
EXTENDS Receipts, FiniteSets

CONSTANTS
  Callers,    \* the calls that may be in progress at once
  Budget,     \* budgetNanoUsd
  MaxCost,    \* what one turn can cost (maxCostNanoUsd)
  Kinds,      \* the receipts a response may carry
  Retain,     \* `retain` of the application's collector
  MaxSeen     \* bound: receipts the budget sees
ASSUME BudgetAssumption ==
  /\ IsFiniteSet(Callers) /\ Budget \in Nat /\ MaxCost \in Nat
  /\ Kinds \subseteq Receipt(0 .. MaxCost)
  /\ Retain \in Nat /\ MaxSeen \in Nat

VARIABLES
  calls,      \* what each caller is doing
  holding,    \* the receipt a caller's response carries on its way up
  spending,   \* the budget's private collector, which retains nothing
  collector,  \* the application's collector
  recorded,   \* history: the receipts collector recorded since its reset
  charged     \* history: those spending recorded, ever
vars == <<calls, holding, spending, collector, recorded, charged>>

Blank == [cost |-> Undisclosed, counterfactual |-> Undisclosed, named |-> FALSE]

Init == /\ calls = [c \in Callers |-> "idle"] /\ holding = [c \in Callers |-> Blank]
        /\ spending = EmptyCollector /\ collector = EmptyCollector
        /\ recorded = <<>> /\ charged = <<>>

(* A bug: the budget is only noticed once it is overdrawn. *)
MutExhausted == spending.summed > Budget

Exhausted == spending.summed >= Budget

(* budget.fetch up to its await: refuse if the budget is gone, else send.     *)
Fetch(c) ==
  /\ calls[c] = "idle"
  /\ calls' = [calls EXCEPT ![c] = IF Exhausted THEN "refused" ELSE "waiting"]
  /\ UNCHANGED <<holding, spending, collector, recorded, charged>>

(* The refusal is an error that passes through the collector unrecorded.      *)
Refuse(c) ==
  /\ calls[c] = "refused"
  /\ calls' = [calls EXCEPT ![c] = "idle"]
  /\ UNCHANGED <<holding, spending, collector, recorded, charged>>

(* The network rejects: nobody records anything. *)
Reject(c) ==
  /\ calls[c] = "waiting"
  /\ calls' = [calls EXCEPT ![c] = "idle"]
  /\ UNCHANGED <<holding, spending, collector, recorded, charged>>

(* The receipts recorded, with one more if it is one that is recorded. *)
With(receipts, r) == IF Observable(r) THEN Append(receipts, r) ELSE receipts

(* A response: the budget's collector sees it first. *)
Respond(c, r) ==
  /\ calls[c] = "waiting" /\ spending.seen < MaxSeen
  /\ spending' = Observe(spending, r, 0) /\ charged' = With(charged, r)
  /\ calls' = [calls EXCEPT ![c] = "passing"] /\ holding' = [holding EXCEPT ![c] = r]
  /\ UNCHANGED <<collector, recorded>>

(* ... and the application's collector a moment later. *)
Pass(c) ==
  /\ calls[c] = "passing"
  /\ collector' = Observe(collector, holding[c], Retain)
  /\ recorded' = With(recorded, holding[c])
  /\ calls' = [calls EXCEPT ![c] = "idle"] /\ holding' = [holding EXCEPT ![c] = Blank]
  /\ UNCHANGED <<spending, charged>>

(* The application resets its collector; the budget's is out of reach.        *)
Reset ==
  /\ collector.seen > 0
  /\ collector' = EmptyCollector
  /\ recorded' = <<>>
  /\ UNCHANGED <<calls, holding, spending, charged>>

Next == \/ Reset
        \/ \E c \in Callers : Fetch(c) \/ Refuse(c) \/ Reject(c) \/ Pass(c)
        \/ \E c \in Callers, r \in Kinds : Respond(c, r)
Spec == Init /\ [][Next]_vars

-----------------------------------------------------------------------------
Waiting == {c \in Callers : calls[c] = "waiting"}

(* Every variable has its type; in particular no tail outgrows its limit, and *)
(* the budget's own collector keeps none.                                     *)
TypeOK ==
  /\ calls \in [Callers -> {"idle", "refused", "waiting", "passing"}]
  /\ holding \in [Callers -> Receipt(0 .. MaxCost)]
  /\ spending \in Collector(0 .. MaxCost) /\ collector \in Collector(0 .. MaxCost)
  /\ Len(collector.observed) <= Retain /\ spending.observed = <<>>

(* What a budget really guarantees when several calls share it: each caller   *)
(* may be holding one admitted call when it runs out, so the overshoot is     *)
(* less than one turn for each of them.                                       *)
WorstCase ==
  spending.summed > 0 =>
    spending.summed < Budget + MaxCost * Cardinality(Callers)

(* What a collector holds is the sums over these receipts and, as its tail,   *)
(* the newest of them, oldest first.                                          *)
Total(amounts) ==
  LET upTo[n \in 0 .. Len(amounts)] == IF n = 0 THEN 0 ELSE upTo[n - 1] + amounts[n]
  IN  upTo[Len(amounts)]
CostsOf(s) == [i \in 1 .. Len(s) |-> Amount(s[i].cost)]
CounterfactualsOf(s) == [i \in 1 .. Len(s) |-> Amount(s[i].counterfactual)]
LastOf(s, n) == SubSeq(s, IF Len(s) > n THEN Len(s) - n + 1 ELSE 1, Len(s))
HoldsExactly(c, receipts, limit) ==
  /\ c.seen = Len(receipts)
  /\ c.summed = Total(CostsOf(receipts))
  /\ c.summedCounterfactual = Total(CounterfactualsOf(receipts))
  /\ c.observed = LastOf(receipts, limit)

(* "The total is exact regardless" of what the tail retains: the application's*)
(* totals are over all since its last reset, and the budget's, which refuse   *)
(* the next call, over every receipt it ever saw, reset by nobody.            *)
TotalsAreExact ==
  HoldsExactly(collector, recorded, Retain) /\ HoldsExactly(spending, charged, 0)
=============================================================================
