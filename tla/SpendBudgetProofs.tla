-------------------------- MODULE SpendBudgetProofs -------------------------
(***************************************************************************)
(* What a SpendBudget guarantees for every number of concurrent callers,   *)
(* every budget and every price of a turn.                                 *)
(***************************************************************************)
EXTENDS SpendBudget, FiniteSetTheorems, SequenceTheorems, TLAPS

Amounts == 0 .. MaxCost

LEMMA BlankType == Blank \in Receipt(Amounts)
  BY DEF Blank, Receipt

LEMMA EmptyCollectorType ==
  EmptyCollector \in Collector(Amounts) /\ EmptyCollector.observed = <<>>
  BY DEF EmptyCollector, Collector

(* The tail never outgrows its limit.                                         *)
LEMMA PushType ==
  ASSUME NEW S, NEW tail \in Seq(S), NEW r \in S, NEW limit \in Nat, Len(tail) <= limit
  PROVE  Push(tail, r, limit) \in Seq(S) /\ Len(Push(tail, r, limit)) <= limit
  <1>1. Append(tail, r) \in Seq(S) /\ Len(Append(tail, r)) = Len(tail) + 1
    OBVIOUS
  <1>2. CASE limit = 0
    BY <1>2 DEF Push
  <1>3. CASE limit # 0 /\ Len(tail) + 1 > limit
    <2>1. Len(Tail(Append(tail, r))) = Len(tail) /\ Tail(Append(tail, r)) \in Seq(S)
      BY <1>1
    <2>2. QED
      BY <1>3, <2>1 DEF Push
  <1>4. CASE limit # 0 /\ Len(tail) + 1 <= limit
    BY <1>1, <1>4 DEF Push
  <1>5. QED
    BY <1>2, <1>3, <1>4

LEMMA AmountType ==
  ASSUME NEW x \in Amounts \cup {Undisclosed} PROVE Amount(x) \in Nat /\ Amount(x) <= MaxCost
  BY BudgetAssumption DEF Amount, Amounts, Undisclosed

(* One receipt adds at most one turn's price, and nothing if it is not seen.  *)
LEMMA ObserveType ==
  ASSUME NEW c \in Collector(Amounts), NEW r \in Receipt(Amounts), NEW limit \in Nat,
         Len(c.observed) <= limit
  PROVE  /\ Observe(c, r, limit) \in Collector(Amounts)
         /\ Len(Observe(c, r, limit).observed) <= limit
         /\ c.summed <= Observe(c, r, limit).summed
         /\ Observe(c, r, limit).summed <= c.summed + MaxCost
  <1>1. Amount(r.cost) \in Nat /\ Amount(r.cost) <= MaxCost /\ Amount(r.counterfactual) \in Nat
    BY AmountType DEF Receipt
  <1>2. /\ Push(c.observed, r, limit) \in Seq(Receipt(Amounts))
        /\ Len(Push(c.observed, r, limit)) <= limit
    BY PushType DEF Collector
  <1>3. c.seen \in Nat /\ c.summed \in Nat /\ c.summedCounterfactual \in Nat
        /\ c.counterfactualTurns \in Nat
    BY DEF Collector
  <1>4. Record(c, r, limit) \in Collector(Amounts)
    BY SMTT(20), <1>1, <1>2, <1>3 DEF Record, CounterfactualTurns, Collector
  <1>5. /\ Record(c, r, limit).summed = c.summed + Amount(r.cost)
        /\ Record(c, r, limit).observed = Push(c.observed, r, limit)
    BY DEF Record
  <1>6. QED
    BY <1>1, <1>2, <1>3, <1>4, <1>5, BudgetAssumption DEF Observe

LEMMA TypeInit == Init => TypeOK
  BY BlankType, EmptyCollectorType, BudgetAssumption DEF Init, TypeOK, Amounts

LEMMA TypeStep == TypeOK /\ [Next]_vars => TypeOK'
  <1> SUFFICES ASSUME TypeOK, [Next]_vars PROVE TypeOK'
    OBVIOUS
  <1> USE DEF TypeOK, Amounts
  <1>1. CASE Reset
    BY <1>1, EmptyCollectorType, BudgetAssumption DEF Reset
  <1>2. ASSUME NEW c \in Callers, Fetch(c) \/ Refuse(c) \/ Reject(c) PROVE TypeOK'
    BY <1>2 DEF Fetch, Refuse, Reject
  <1>3. ASSUME NEW c \in Callers, Pass(c) PROVE TypeOK'
    <2>1. holding[c] \in Receipt(Amounts)
      OBVIOUS
    <2>2. collector' \in Collector(Amounts) /\ Len(collector'.observed) <= Retain
      BY <1>3, <2>1, ObserveType, BudgetAssumption DEF Pass
    <2>3. QED
      BY <1>3, <2>2, BlankType DEF Pass
  <1>4. ASSUME NEW c \in Callers, NEW r \in Kinds, Respond(c, r) PROVE TypeOK'
    <2>1. r \in Receipt(Amounts)
      BY BudgetAssumption
    <2>2. spending' \in Collector(Amounts) /\ Len(spending'.observed) <= 0
      BY <1>4, <2>1, ObserveType DEF Respond
    <2>3. spending'.observed = <<>>
      BY <2>2 DEF Collector
    <2>4. QED
      BY <1>4, <2>1, <2>2, <2>3 DEF Respond
  <1>5. CASE UNCHANGED vars
    BY <1>5 DEF vars
  <1>6. QED
    BY <1>1, <1>2, <1>3, <1>4, <1>5 DEF Next

(* The shared budget's totals keep their types, and no tail outgrows its      *)
(* limit, however the callers interleave (receipts.ts:33-119, 126-160).       *)
THEOREM TypeCorrect == Spec => []TypeOK
  BY TypeInit, TypeStep, PTL DEF Spec

-----------------------------------------------------------------------------
(* What is spent and what the calls in progress may still spend was below the *)
(* limit when the last of them was admitted, and has not grown since.         *)

Calls == Cardinality(Callers)
Limit == Budget + MaxCost * Calls
BudgetInv == \/ Waiting = {} /\ spending.summed = 0
             \/ spending.summed + MaxCost * Cardinality(Waiting) < Limit

LEMMA Counts ==
  /\ IsFiniteSet(Waiting) /\ Cardinality(Waiting) \in Nat /\ Calls \in Nat
  /\ Cardinality(Waiting) <= Calls
  <1>1. Waiting \in SUBSET Callers /\ IsFiniteSet(Callers)
    BY BudgetAssumption DEF Waiting
  <1>2. QED
    BY <1>1, FS_Subset, FS_CardinalityType DEF Calls

LEMMA Products ==
  ASSUME NEW m \in Nat, NEW n \in Nat, NEW k \in Nat, n <= k
  PROVE  m * n \in Nat /\ m * n <= m * k /\ m * (n + 1) = m * n + m
  <1>1. PICK d \in Nat : k = n + d
    BY k - n \in Nat
  <1>2. m * n \in Nat /\ m * d \in Nat
    OBVIOUS
  <1>3. m * k = m * n + m * d
    BY <1>1
  <1>4. QED
    BY <1>2, <1>3

LEMMA BudgetInvInit == Init => BudgetInv
  BY DEF Init, EmptyCollector, BudgetInv, Waiting

LEMMA BudgetInvStep == TypeOK /\ BudgetInv /\ [Next]_vars => BudgetInv'
  <1> SUFFICES ASSUME TypeOK, BudgetInv, [Next]_vars PROVE BudgetInv'
    OBVIOUS
  <1> DEFINE waiting == Cardinality(Waiting)
  <1>0. spending.summed \in Nat /\ MaxCost \in Nat /\ Budget \in Nat
    BY BudgetAssumption DEF TypeOK, Collector
  <1>1. ASSUME UNCHANGED <<Waiting, spending>> PROVE BudgetInv'
    BY <1>1 DEF BudgetInv, Limit, Calls
  <1>2. ASSUME NEW c \in Callers, calls[c] = "waiting",
               Waiting' = Waiting \ {c}, spending.summed <= spending'.summed,
               spending'.summed <= spending.summed + MaxCost, spending'.summed \in Nat
        PROVE  BudgetInv'
    <2>1. c \in Waiting
      BY <1>2 DEF Waiting
    <2>2. waiting' = waiting - 1 /\ waiting \in Nat /\ waiting' \in Nat
      BY <1>2, <2>1, Counts, FS_RemoveElement, FS_CardinalityType
    <2>3. MaxCost * waiting = MaxCost * waiting' + MaxCost
      <3>1. waiting = waiting' + 1
        BY <2>2
      <3>2. QED
        BY <1>0, <2>2, <3>1, Products
    <2>4. spending.summed + MaxCost * waiting < Limit
      BY <2>1 DEF BudgetInv
    <2>5. Limit \in Nat /\ Limit' = Limit /\ MaxCost * waiting' \in Nat
      BY <1>0, <2>2, Counts, Products DEF Limit, Calls
    <2>6. spending'.summed + MaxCost * waiting' < Limit
      BY <1>0, <1>2, <2>3, <2>4, <2>5
    <2>7. QED
      BY <2>5, <2>6 DEF BudgetInv
  <1>3. ASSUME NEW c \in Callers, Fetch(c) PROVE BudgetInv'
    <2>1. CASE Exhausted
      BY <1>1, <1>3, <2>1 DEF Fetch, Waiting, TypeOK
    <2>2. CASE ~Exhausted
      <3>1. spending.summed < Budget /\ UNCHANGED spending
        BY <1>0, <1>3, <2>2 DEF Fetch, Exhausted
      <3>2. waiting' \in Nat /\ waiting' <= Calls /\ Calls \in Nat
        <4>1. Waiting' \in SUBSET Callers /\ IsFiniteSet(Callers)
          BY BudgetAssumption DEF Waiting
        <4>2. QED
          BY <4>1, FS_Subset, FS_CardinalityType DEF Calls
      <3>3. MaxCost * waiting' <= MaxCost * Calls /\ MaxCost * waiting' \in Nat
            /\ MaxCost * Calls \in Nat
        BY <1>0, <3>2, Products
      <3>4. spending'.summed + MaxCost * waiting' < Budget + MaxCost * Calls
        BY <1>0, <3>1, <3>3
      <3>5. QED
        BY <3>4 DEF BudgetInv, Limit, Calls
    <2>3. QED
      BY <2>1, <2>2
  <1>4. ASSUME NEW c \in Callers, Refuse(c) \/ Pass(c) PROVE BudgetInv'
    BY <1>1, <1>4 DEF Refuse, Pass, Waiting, TypeOK
  <1>5. ASSUME NEW c \in Callers, Reject(c) PROVE BudgetInv'
    <2>1. Waiting' = Waiting \ {c} /\ calls[c] = "waiting" /\ UNCHANGED spending
      BY <1>5 DEF Reject, Waiting, TypeOK
    <2>2. QED
      BY <1>0, <1>2, <2>1
  <1>6. ASSUME NEW c \in Callers, NEW r \in Kinds, Respond(c, r) PROVE BudgetInv'
    <2>1. Waiting' = Waiting \ {c} /\ calls[c] = "waiting"
      BY <1>6 DEF Respond, Waiting, TypeOK
    <2>2. r \in Receipt(Amounts) /\ spending \in Collector(Amounts) /\ spending.observed = <<>>
      BY BudgetAssumption DEF TypeOK, Amounts
    <2>3. /\ spending.summed <= spending'.summed
          /\ spending'.summed <= spending.summed + MaxCost
          /\ spending' \in Collector(Amounts)
      BY <1>6, <2>2, ObserveType DEF Respond
    <2>4. spending'.summed \in Nat
      BY <2>3 DEF Collector
    <2>5. QED
      BY <1>2, <2>1, <2>3, <2>4
  <1>7. CASE Reset \/ UNCHANGED vars
    BY <1>1, <1>7 DEF Reset, vars, Waiting
  <1>8. QED
    BY <1>3, <1>4, <1>5, <1>6, <1>7 DEF Next

(* A budget shared by n concurrent callers is overshot by less than n turns:  *)
(* each of them may be holding an admitted call when it runs out              *)
(* (receipts.ts:152-159 looks, awaits, and only then records).                *)
THEOREM OvershootIsBounded == Spec => []WorstCase
  <1>1. TypeOK /\ BudgetInv => WorstCase
    <2> SUFFICES ASSUME TypeOK, BudgetInv, spending.summed > 0
                 PROVE  spending.summed < Limit
      BY DEF WorstCase, Limit, Calls
    <2>1. spending.summed \in Nat /\ MaxCost \in Nat /\ Budget \in Nat
      BY BudgetAssumption DEF TypeOK, Collector
    <2>2. spending.summed + MaxCost * Cardinality(Waiting) < Limit
      BY <2>1 DEF BudgetInv
    <2>3. MaxCost * Cardinality(Waiting) \in Nat /\ Limit \in Nat
      BY <2>1, Counts, Products DEF Limit
    <2>4. QED
      BY <2>1, <2>2, <2>3
  <1>2. QED
    BY <1>1, TypeCorrect, BudgetInvInit, BudgetInvStep, PTL DEF Spec

-----------------------------------------------------------------------------
(* Totals.  Which function a recursive definition stands for is a matter of   *)
(* induction, and here the behaviour is the induction: a list of amounts has  *)
(* one total, and the list with one amount more has one because of it.        *)

IsRunningTotal(t, amounts) ==
  t = [n \in 0 .. Len(amounts) |-> IF n = 0 THEN 0 ELSE t[n - 1] + amounts[n]]
AddsUpTo(amounts, total) ==
  /\ \E t : IsRunningTotal(t, amounts)
  /\ \A t : IsRunningTotal(t, amounts) => t[Len(amounts)] = total

LEMMA NothingAddsUpToZero == AddsUpTo(<<>>, 0)
  <1>1. IsRunningTotal([n \in 0 .. 0 |-> 0], <<>>)
    BY DEF IsRunningTotal
  <1>2. \A t : IsRunningTotal(t, <<>>) => t[Len(<<>>)] = 0
    BY DEF IsRunningTotal
  <1>3. QED
    BY <1>1, <1>2 DEF AddsUpTo

LEMMA OneAmountMore ==
  ASSUME NEW a \in Seq(Nat), NEW total \in Nat, NEW x \in Nat, AddsUpTo(a, total),
         NEW b \in Seq(Nat), b = Append(a, x)
  PROVE  AddsUpTo(b, total + x)
  <1>1. /\ Len(b) = Len(a) + 1 /\ Len(a) \in Nat /\ b[Len(b)] = x
        /\ \A n \in 1 .. Len(a) : b[n] = a[n]
    OBVIOUS
  <1>2. ASSUME NEW t, IsRunningTotal(t, a)
        PROVE  \E u : IsRunningTotal(u, b)
    <2> DEFINE u == [n \in 0 .. Len(b) |-> IF n = Len(b) THEN t[Len(a)] + x ELSE t[n]]
    <2>0. \A n \in 0 .. Len(a) : t[n] = IF n = 0 THEN 0 ELSE t[n - 1] + a[n]
      BY <1>2 DEF IsRunningTotal
    <2>1. ASSUME NEW n \in 0 .. Len(b)
          PROVE  u[n] = IF n = 0 THEN 0 ELSE u[n - 1] + b[n]
      <3>1. CASE n = Len(b)
        BY <1>1, <3>1
      <3>2. CASE n # Len(b)
        <4>1. n \in 0 .. Len(a) /\ t[n] = IF n = 0 THEN 0 ELSE t[n - 1] + a[n]
          BY <1>1, <2>0, <3>2
        <4>2. QED
          BY <1>1, <3>2, <4>1
      <3>3. QED
        BY <3>1, <3>2
    <2>2. u = [n \in 0 .. Len(b) |-> IF n = 0 THEN 0 ELSE u[n - 1] + b[n]]
      BY <2>1
    <2>3. QED
      BY <2>2 DEF IsRunningTotal
  <1>3. ASSUME NEW u, IsRunningTotal(u, b)
        PROVE  u[Len(b)] = total + x
    <2> DEFINE t == [n \in 0 .. Len(a) |-> u[n]]
    <2>1. \A n \in 0 .. Len(b) : u[n] = IF n = 0 THEN 0 ELSE u[n - 1] + b[n]
      BY <1>3 DEF IsRunningTotal
    <2>2. \A n \in 0 .. Len(a) : t[n] = IF n = 0 THEN 0 ELSE t[n - 1] + a[n]
      BY <1>1, <2>1
    <2>3. IsRunningTotal(t, a)
      BY <2>2 DEF IsRunningTotal
    <2>4. u[Len(a)] = total
      BY <1>1, <2>3 DEF AddsUpTo
    <2>5. QED
      BY SMTT(20), <1>1, <2>1, <2>4
  <1>4. QED
    BY <1>2, <1>3 DEF AddsUpTo

LEMMA TotalIs ==
  ASSUME NEW a, NEW total, AddsUpTo(a, total) PROVE Total(a) = total
  BY DEF Total, AddsUpTo, IsRunningTotal

-----------------------------------------------------------------------------
(* The tail of a list, when one is added at the end.                          *)
From(s, limit) == IF Len(s) > limit THEN Len(s) - limit + 1 ELSE 1

LEMMA LastOfIs ==
  ASSUME NEW S, NEW s \in Seq(S), NEW limit \in Nat
  PROVE  /\ LastOf(s, limit) \in Seq(S) /\ Len(LastOf(s, limit)) = Len(s) - From(s, limit) + 1
         /\ \A n \in 1 .. Len(s) - From(s, limit) + 1 :
              LastOf(s, limit)[n] = s[From(s, limit) + n - 1]
  <1>1. PICK from : from = From(s, limit)
    OBVIOUS
  <1>2. Len(s) \in Nat /\ from \in Nat \ {0} /\ (from <= Len(s) \/ from = Len(s) + 1)
    BY <1>1 DEF From
  <1>3. \A i \in from .. Len(s) : s[i] \in S
    BY <1>2
  <1>4. /\ SubSeq(s, from, Len(s)) \in Seq(S)
        /\ Len(SubSeq(s, from, Len(s))) = IF from <= Len(s) THEN Len(s) - from + 1 ELSE 0
        /\ \A n \in 1 .. Len(s) - from + 1 : SubSeq(s, from, Len(s))[n] = s[from + n - 1]
    BY <1>2, <1>3, SubSeqProperties
  <1>5. Len(SubSeq(s, from, Len(s))) = Len(s) - from + 1
    <2>1. CASE from <= Len(s)
      BY <1>4, <2>1
    <2>2. CASE from = Len(s) + 1
      BY <1>2, <1>4, <2>2
    <2>3. QED
      BY <1>2, <2>1, <2>2
  <1>6. LastOf(s, limit) = SubSeq(s, from, Len(s))
    BY <1>1 DEF LastOf, From
  <1>7. QED
    BY <1>1, <1>4, <1>5, <1>6

LEMMA LastOfOneMore ==
  ASSUME NEW S, NEW s \in Seq(S), NEW r \in S, NEW limit \in Nat
  PROVE  Push(LastOf(s, limit), r, limit) = LastOf(Append(s, r), limit)
  <1>1. PICK u : u = Append(s, r)
    OBVIOUS
  <1>2. /\ u \in Seq(S) /\ Len(u) = Len(s) + 1 /\ Len(s) \in Nat /\ u[Len(s) + 1] = r
        /\ \A n \in 1 .. Len(s) : u[n] = s[n]
    BY <1>1
  <1>3. PICK from : from = From(s, limit)
    OBVIOUS
  <1>4. PICK last : last = LastOf(s, limit)
    OBVIOUS
  <1>5. /\ last \in Seq(S) /\ Len(last) = Len(s) - from + 1
        /\ \A n \in 1 .. Len(s) - from + 1 : last[n] = s[from + n - 1]
    BY <1>3, <1>4, LastOfIs
  <1>6. PICK fromThen : fromThen = From(u, limit)
    OBVIOUS
  <1>7. PICK newer : newer = LastOf(u, limit)
    OBVIOUS
  <1>8. /\ newer \in Seq(S) /\ Len(newer) = Len(u) - fromThen + 1
        /\ \A n \in 1 .. Len(u) - fromThen + 1 : newer[n] = u[fromThen + n - 1]
    <2>1. u \in Seq(S)
      BY <1>2
    <2>2. QED
      BY <1>6, <1>7, <2>1, LastOfIs
  <1>9. PICK longer : longer = Append(last, r)
    OBVIOUS
  <1>10. /\ longer \in Seq(S) /\ Len(longer) = Len(last) + 1 /\ longer # <<>>
         /\ \A n \in 1 .. Len(last) : longer[n] = last[n]
         /\ longer[Len(last) + 1] = r
    BY <1>5, <1>9, AppendProperties
  <1>11. from \in Nat \ {0} /\ Len(last) \in Nat /\ Len(last) = Len(s) - from + 1
    BY <1>2, <1>3, <1>5 DEF From
  <1>12. \A n \in 1 .. Len(longer) : longer[n] = u[from + n - 1]
    <2>1. ASSUME NEW n \in 1 .. Len(last) PROVE longer[n] = u[from + n - 1]
      <3>1. last[n] = s[from + n - 1] /\ from + n - 1 \in 1 .. Len(s)
        BY <1>2, <1>5, <1>11
      <3>2. QED
        BY <1>2, <1>10, <3>1
    <2>2. from + (Len(last) + 1) - 1 = Len(s) + 1
      BY <1>2, <1>11
    <2>3. longer[Len(last) + 1] = u[from + (Len(last) + 1) - 1]
      BY <1>2, <1>10, <2>2
    <2>4. \A n \in 1 .. Len(longer) : n \in 1 .. Len(last) \/ n = Len(last) + 1
      <3>1. Len(last) \in Nat /\ Len(longer) = Len(last) + 1
        BY <1>10, <1>11
      <3>2. QED
        BY <3>1
    <2>5. QED
      BY <1>11, <2>1, <2>3, <2>4
  <1>13. CASE limit = 0
    <2>1. Len(last) = 0 /\ Len(newer) = 0
      BY <1>2, <1>3, <1>5, <1>6, <1>8, <1>13 DEF From
    <2>2. last = newer
      BY <1>5, <1>8, <2>1, EmptySeq
    <2>3. QED
      BY <1>1, <1>4, <1>7, <1>13, <2>2 DEF Push
  <1>14. CASE limit # 0 /\ Len(s) < limit
    <2>0. from = 1 /\ fromThen = 1
      BY <1>2, <1>3, <1>6, <1>14 DEF From
    <2>1. from = 1 /\ fromThen = 1 /\ Len(longer) = Len(u) /\ Len(newer) = Len(u)
      BY <1>2, <1>8, <1>10, <1>11, <2>0
    <2>2. \A n \in 1 .. Len(u) : longer[n] = newer[n]
      BY <1>2, <1>8, <1>12, <2>1
    <2>3. longer = newer
      BY <1>8, <1>10, <2>1, <2>2, SeqEqual
    <2>4. ~(Len(last) + 1 > limit)
      BY <1>2, <1>5, <1>14, <2>1
    <2>5. Push(last, r, limit) = longer
      BY <1>9, <1>14, <2>4 DEF Push
    <2>6. QED
      BY <1>1, <1>4, <1>7, <2>3, <2>5
  <1>15. CASE limit # 0 /\ Len(s) >= limit
    <2>1. Len(last) = limit /\ fromThen = from + 1 /\ Len(newer) = limit
      BY <1>2, <1>3, <1>6, <1>8, <1>11, <1>15 DEF From
    <2>2. /\ Tail(longer) \in Seq(S) /\ Len(Tail(longer)) = limit
          /\ \A n \in 1 .. limit : Tail(longer)[n] = longer[n + 1]
      <3>1. /\ Tail(longer) \in Seq(S) /\ Len(Tail(longer)) = Len(longer) - 1
            /\ \A n \in 1 .. Len(Tail(longer)) : Tail(longer)[n] = longer[n + 1]
        BY <1>10, HeadTailProperties
      <3>2. QED
        BY <1>10, <2>1, <3>1
    <2>3. ASSUME NEW n \in 1 .. limit PROVE Tail(longer)[n] = newer[n]
      <3>1. n + 1 \in 1 .. Len(longer) /\ from + (n + 1) - 1 = fromThen + n - 1
        BY <1>10, <1>11, <2>1
      <3>2. n \in 1 .. Len(u) - fromThen + 1
        BY <1>8, <2>1
      <3>3. QED
        BY <1>8, <1>12, <2>2, <3>1, <3>2
    <2>4. Tail(longer) = newer
      BY <1>8, <2>1, <2>2, <2>3, SeqEqual
    <2>5. Push(last, r, limit) = Tail(longer)
      BY <1>9, <1>15, <2>1 DEF Push
    <2>6. QED
      BY <1>1, <1>4, <1>7, <2>4, <2>5
  <1>16. QED
    BY <1>2, <1>13, <1>14, <1>15

LEMMA NoneRecorded ==
  /\ CostsOf(<<>>) = <<>> /\ CounterfactualsOf(<<>>) = <<>>
  /\ \A n \in Nat : LastOf(<<>>, n) = <<>>
  <1>1. CostsOf(<<>>) = <<>> /\ CounterfactualsOf(<<>>) = <<>>
    BY DEF CostsOf, CounterfactualsOf
  <1>2. ASSUME NEW n \in Nat PROVE LastOf(<<>>, n) = <<>>
    <2>1. LastOf(<<>>, n) = SubSeq(<<>>, 1, 0)
      BY <1>2 DEF LastOf
    <2>2. QED
      BY <2>1, SubSeqEmpty
  <1>3. QED
    BY <1>1, <1>2

LEMMA AppendIs ==
  ASSUME NEW f \in Seq(Nat), NEW n, n = Len(f), NEW x \in Nat
  PROVE  /\ Append(f, x) = [i \in 1 .. n + 1 |-> IF i = n + 1 THEN x ELSE f[i]]
         /\ Append(f, x) \in Seq(Nat)
  <1>1. n \in Nat
    OBVIOUS
  <1>2. /\ Append(f, x) \in Seq(Nat) /\ Len(Append(f, x)) = n + 1
        /\ \A i \in 1 .. n : Append(f, x)[i] = f[i]
        /\ Append(f, x)[n + 1] = x
    BY AppendProperties
  <1>3. Append(f, x) = [i \in 1 .. n + 1 |-> Append(f, x)[i]]
    <2>1. Append(f, x) \in [1 .. n + 1 -> Nat]
      BY <1>2, LenProperties
    <2>2. QED
      BY <2>1
  <1>4. QED
    BY <1>1, <1>2, <1>3

LEMMA AmountsOneMore ==
  ASSUME NEW s \in Seq(Receipt(Amounts)), NEW r \in Receipt(Amounts)
  PROVE  /\ CostsOf(s) \in Seq(Nat) /\ CostsOf(Append(s, r)) \in Seq(Nat)
         /\ CostsOf(Append(s, r)) = Append(CostsOf(s), Amount(r.cost))
         /\ CounterfactualsOf(s) \in Seq(Nat) /\ CounterfactualsOf(Append(s, r)) \in Seq(Nat)
         /\ CounterfactualsOf(Append(s, r)) =
              Append(CounterfactualsOf(s), Amount(r.counterfactual))
  <1>1. ASSUME NEW q \in Receipt(Amounts)
        PROVE  Amount(q.cost) \in Nat /\ Amount(q.counterfactual) \in Nat
    BY AmountType DEF Receipt
  <1>2. /\ Append(s, r) \in Seq(Receipt(Amounts)) /\ Len(Append(s, r)) = Len(s) + 1
        /\ \A i \in 1 .. Len(s) : Append(s, r)[i] = s[i]
        /\ Append(s, r)[Len(s) + 1] = r /\ Len(s) \in Nat
    BY AppendProperties
  <1>3. \A i \in 1 .. Len(s) : s[i] \in Receipt(Amounts)
    OBVIOUS
  <1>4. CostsOf(s) \in Seq(Nat) /\ Len(CostsOf(s)) = Len(s)
        /\ CounterfactualsOf(s) \in Seq(Nat) /\ Len(CounterfactualsOf(s)) = Len(s)
    BY <1>1, <1>2, <1>3 DEF CostsOf, CounterfactualsOf
  <1>5. CostsOf(Append(s, r)) =
          [i \in 1 .. Len(s) + 1 |-> IF i = Len(s) + 1 THEN Amount(r.cost) ELSE CostsOf(s)[i]]
    BY <1>2 DEF CostsOf
  <1>6. CounterfactualsOf(Append(s, r)) =
          [i \in 1 .. Len(s) + 1 |-> IF i = Len(s) + 1 THEN Amount(r.counterfactual)
                                                     ELSE CounterfactualsOf(s)[i]]
    BY <1>2 DEF CounterfactualsOf
  <1>7. /\ Append(CostsOf(s), Amount(r.cost)) = CostsOf(Append(s, r))
        /\ Append(CostsOf(s), Amount(r.cost)) \in Seq(Nat)
    BY <1>1, <1>4, <1>5, AppendIs
  <1>8. /\ Append(CounterfactualsOf(s), Amount(r.counterfactual)) = CounterfactualsOf(Append(s, r))
        /\ Append(CounterfactualsOf(s), Amount(r.counterfactual)) \in Seq(Nat)
    BY <1>1, <1>4, <1>6, AppendIs
  <1>9. QED
    BY <1>4, <1>7, <1>8

(* What a collector holds is what it recorded, added up.                      *)
AddedUp(c, receipts, limit) ==
  /\ receipts \in Seq(Receipt(Amounts))
  /\ c.seen = Len(receipts)
  /\ AddsUpTo(CostsOf(receipts), c.summed)
  /\ AddsUpTo(CounterfactualsOf(receipts), c.summedCounterfactual)
  /\ c.observed = LastOf(receipts, limit)

LEMMA NothingRecorded ==
  ASSUME NEW limit \in Nat PROVE AddedUp(EmptyCollector, <<>>, limit)
  BY NoneRecorded, NothingAddsUpToZero DEF AddedUp, EmptyCollector

LEMMA OneReceiptMore ==
  ASSUME NEW c \in Collector(Amounts), NEW s, NEW limit \in Nat, AddedUp(c, s, limit),
         NEW r \in Receipt(Amounts)
  PROVE  AddedUp(Observe(c, r, limit), With(s, r), limit)
  <1>1. CASE Observable(r)
    <2>1. s \in Seq(Receipt(Amounts)) /\ With(s, r) = Append(s, r)
          /\ Observe(c, r, limit) = Record(c, r, limit)
      BY <1>1 DEF AddedUp, With, Observe
    <2>2. /\ c.summed \in Nat /\ c.summedCounterfactual \in Nat
          /\ Amount(r.cost) \in Nat /\ Amount(r.counterfactual) \in Nat
      BY AmountType DEF Collector, Receipt
    <2>3. AddsUpTo(CostsOf(s), c.summed) /\ AddsUpTo(CounterfactualsOf(s), c.summedCounterfactual)
      BY DEF AddedUp
    <2>4. AddsUpTo(CostsOf(Append(s, r)), c.summed + Amount(r.cost))
      BY <2>1, <2>2, <2>3, AmountsOneMore, OneAmountMore
    <2>5. AddsUpTo(CounterfactualsOf(Append(s, r)),
                   c.summedCounterfactual + Amount(r.counterfactual))
      BY <2>1, <2>2, <2>3, AmountsOneMore, OneAmountMore
    <2>6. Push(c.observed, r, limit) = LastOf(Append(s, r), limit)
      BY <2>1, LastOfOneMore DEF AddedUp
    <2>7. Append(s, r) \in Seq(Receipt(Amounts)) /\ Len(Append(s, r)) = c.seen + 1
      BY <2>1, AppendProperties DEF AddedUp
    <2>8. /\ Record(c, r, limit).seen = c.seen + 1
          /\ Record(c, r, limit).summed = c.summed + Amount(r.cost)
          /\ Record(c, r, limit).summedCounterfactual =
               c.summedCounterfactual + Amount(r.counterfactual)
          /\ Record(c, r, limit).observed = Push(c.observed, r, limit)
      BY DEF Record
    <2>9. QED
      BY <2>1, <2>4, <2>5, <2>6, <2>7, <2>8 DEF AddedUp
  <1>2. CASE ~Observable(r)
    BY <1>2 DEF With, Observe
  <1>3. QED
    BY <1>1, <1>2

(* Of the application's collector since its reset, and of the budget's ever.  *)
RecordedInv == AddedUp(collector, recorded, Retain) /\ AddedUp(spending, charged, 0)

LEMMA RecordedInvStep == TypeOK /\ RecordedInv /\ [Next]_vars => RecordedInv'
  <1> SUFFICES ASSUME TypeOK, RecordedInv, [Next]_vars PROVE RecordedInv'
    OBVIOUS
  <1>0. /\ collector \in Collector(Amounts) /\ spending \in Collector(Amounts)
        /\ AddedUp(collector, recorded, Retain) /\ AddedUp(spending, charged, 0)
        /\ Retain \in Nat
    BY BudgetAssumption DEF TypeOK, Amounts, RecordedInv
  <1>1. CASE Reset
    <2>1. collector' = EmptyCollector /\ recorded' = <<>> /\ UNCHANGED <<spending, charged>>
      BY <1>1 DEF Reset
    <2>2. QED
      BY <1>0, <2>1, NothingRecorded DEF RecordedInv
  <1>2. ASSUME NEW c \in Callers, Pass(c) PROVE RecordedInv'
    <2>1. PICK r \in Receipt(Amounts) : r = holding[c]
      BY DEF TypeOK, Amounts
    <2>2. /\ collector' = Observe(collector, r, Retain) /\ recorded' = With(recorded, r)
          /\ UNCHANGED <<spending, charged>>
      BY <1>2, <2>1 DEF Pass
    <2>3. QED
      BY <1>0, <2>2, OneReceiptMore DEF RecordedInv
  <1>3. ASSUME NEW c \in Callers, NEW r \in Kinds, Respond(c, r) PROVE RecordedInv'
    <2>1. r \in Receipt(Amounts)
      BY BudgetAssumption DEF Amounts
    <2>2. /\ spending' = Observe(spending, r, 0) /\ charged' = With(charged, r)
          /\ UNCHANGED <<collector, recorded>>
      BY <1>3 DEF Respond
    <2>3. QED
      BY <1>0, <2>1, <2>2, OneReceiptMore DEF RecordedInv
  <1>4. ASSUME UNCHANGED <<recorded, collector, charged, spending>> PROVE RecordedInv'
    BY <1>4 DEF RecordedInv
  <1>5. QED
    BY <1>1, <1>2, <1>3, <1>4 DEF Next, Fetch, Refuse, Reject, vars

(* "The total is exact regardless" of what the tail retains (receipts.ts:12,  *)
(* 67-85): whatever callers do at the same time, the application's totals are *)
(* the sums over every receipt recorded since its last reset, with the newest *)
(* of them as its tail, and the budget's private ones, which decide whether   *)
(* the next call is refused, the sums over all it ever saw (126-160).         *)
THEOREM TotalsStayExact == Spec => []TotalsAreExact
  <1>1. Init => RecordedInv
    BY NothingRecorded, BudgetAssumption DEF Init, RecordedInv
  <1>2. ASSUME NEW c, NEW receipts, NEW limit, AddedUp(c, receipts, limit)
        PROVE  HoldsExactly(c, receipts, limit)
    BY <1>2, TotalIs DEF AddedUp, HoldsExactly
  <1>3. RecordedInv => TotalsAreExact
    BY <1>2 DEF RecordedInv, TotalsAreExact
  <1>4. QED
    BY <1>1, <1>3, TypeCorrect, RecordedInvStep, PTL DEF Spec
=============================================================================
