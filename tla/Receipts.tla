------------------------------ MODULE Receipts ------------------------------
(***************************************************************************)
(* ReceiptCollector of src/src/receipts.ts, as a value and the operations  *)
(* on it: exact totals over every receipt seen, and a bounded tail of the  *)
(* receipts themselves.  A receipt keeps what the collector reads of it:   *)
(* the settled cost and the counterfactual, each possibly undisclosed, and *)
(* whether the serving model was named.                                    *)
(***************************************************************************)
EXTENDS Integers, Sequences

Undisclosed == -1

Receipt(Amounts) == [cost : Amounts \cup {Undisclosed},
                     counterfactual : Amounts \cup {Undisclosed},
                     named : BOOLEAN]

Amount(x) == IF x = Undisclosed THEN 0 ELSE x

Collector(Amounts) == [seen : Nat, summed : Nat, summedCounterfactual : Nat,
                       counterfactualTurns : Nat, observed : Seq(Receipt(Amounts))]

EmptyCollector == [seen |-> 0, summed |-> 0, summedCounterfactual |-> 0,
                   counterfactualTurns |-> 0, observed |-> <<>>]

(* fetch records a response that tells a cost or who served it. *)
Observable(r) == r.cost # Undisclosed \/ r.named

(* A bug: the newest receipt is dropped when the tail is full. *)
MutPush(observed, r, limit) ==
  IF Len(observed) < limit THEN Append(observed, r) ELSE observed

(* push, then shift once the tail is longer than the limit; 0 keeps nothing.  *)
Push(observed, r, limit) ==
  IF limit = 0 THEN observed
  ELSE IF Len(observed) + 1 > limit THEN Tail(Append(observed, r))
  ELSE Append(observed, r)

(* Only a turn that disclosed one counts among them. *)
CounterfactualTurns(c, r) ==
  IF r.counterfactual = Undisclosed THEN c.counterfactualTurns ELSE c.counterfactualTurns + 1

Record(c, r, limit) ==
  [seen |-> c.seen + 1,
   summed |-> c.summed + Amount(r.cost),
   summedCounterfactual |-> c.summedCounterfactual + Amount(r.counterfactual),
   counterfactualTurns |-> CounterfactualTurns(c, r),
   observed |-> Push(c.observed, r, limit)]

Observe(c, r, limit) == IF Observable(r) THEN Record(c, r, limit) ELSE c
=============================================================================
