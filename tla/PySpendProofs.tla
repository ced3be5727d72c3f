---------------------------- MODULE PySpendProofs ---------------------------
(***************************************************************************)
(* What the locked collectors and the shared budget of the Python SDK      *)
(* guarantee for every number of threads, budget and price of a turn.      *)
(***************************************************************************)
EXTENDS PySpend, FiniteSetTheorems, TLAPS

Amounts == 0 .. MaxCost
Points == {"idle", "refused", "sending", "hook", "sum", "file", "reading", "throwing", "handled"}

LEMMA EmptyCollectorType ==
  EmptyCollector \in Collector(Amounts) /\ EmptyCollector.observed = <<>>
  /\ EmptyCollector.summed = 0
  BY DEF EmptyCollector, Collector

LEMMA BlankType == Blank \in Receipt(Amounts)
  BY DEF Blank, Receipt

LEMMA AmountType ==
  ASSUME NEW x \in Amounts \cup {Undisclosed} PROVE Amount(x) \in Nat /\ Amount(x) <= MaxCost
  BY PySpendAssumption DEF Amount, Amounts, Undisclosed

(* The tail never outgrows its limit.                                         *)
LEMMA TailStaysBounded ==
  ASSUME NEW S, NEW tail \in Seq(S), NEW r \in S, NEW limit \in Nat, Len(tail) <= limit
  PROVE  Push(tail, r, limit) \in Seq(S) /\ Len(Push(tail, r, limit)) <= limit
  <1>1. Append(tail, r) \in Seq(S) /\ Len(Append(tail, r)) = Len(tail) + 1
    OBVIOUS
  <1>2. CASE limit = 0
    BY <1>2 DEF Push
  <1>3. CASE limit # 0 /\ Len(tail) + 1 > limit
    <2>1. Len(Tail(Append(tail, r))) = Len(tail) /\ Tail(Append(tail, r)) \in Seq(S)
      BY <1>1
    <2>2. QED
      BY <1>3, <2>1 DEF Push
  <1>4. CASE limit # 0 /\ Len(tail) + 1 <= limit
    BY <1>1, <1>4 DEF Push
  <1>5. QED
    BY <1>2, <1>3, <1>4

(* The locked block is what Record does, in two steps.                        *)
LEMMA BlockType ==
  ASSUME NEW c \in Collector(Amounts), NEW r \in Receipt(Amounts), NEW limit \in Nat,
         Len(c.observed) <= limit
  PROVE  /\ Summed(c, r) \in Collector(Amounts)
         /\ Summed(c, r).observed = c.observed
         /\ Summed(c, r).summed = c.summed + Amount(r.cost)
         /\ Filed(c, r, limit) \in Collector(Amounts)
         /\ Len(Filed(c, r, limit).observed) <= limit
         /\ Filed(c, r, limit).summed = c.summed
         /\ Record(c, r, limit) \in Collector(Amounts)
         /\ Len(Record(c, r, limit).observed) <= limit
         /\ Filed(Summed(c, r), r, limit) = Record(c, r, limit)
  <1>1. Amount(r.cost) \in Nat /\ Amount(r.counterfactual) \in Nat
    BY AmountType DEF Receipt
  <1>2. /\ Push(c.observed, r, limit) \in Seq(Receipt(Amounts))
        /\ Len(Push(c.observed, r, limit)) <= limit
    BY TailStaysBounded DEF Collector
  <1>3. /\ c.seen \in Nat /\ c.summed \in Nat /\ c.summedCounterfactual \in Nat
        /\ c.counterfactualTurns \in Nat /\ c.observed \in Seq(Receipt(Amounts))
    BY DEF Collector
  <1>4. CounterfactualTurns(c, r) \in Nat
    BY <1>3 DEF CounterfactualTurns
  <1>5. /\ Summed(c, r) \in Collector(Amounts)
        /\ Summed(c, r).observed = c.observed
        /\ Summed(c, r).summed = c.summed + Amount(r.cost)
    BY <1>1, <1>3 DEF Collector, Summed
  <1>6. /\ Filed(c, r, limit) \in Collector(Amounts)
        /\ Len(Filed(c, r, limit).observed) <= limit
        /\ Filed(c, r, limit).summed = c.summed
    BY <1>1, <1>2, <1>3, <1>4 DEF Collector, Filed
  <1>7. CounterfactualTurns(Summed(c, r), r) = CounterfactualTurns(c, r)
    BY DEF CounterfactualTurns, Summed
  <1>8. Filed(Summed(c, r), r, limit) = Record(c, r, limit)
    BY <1>7 DEF Filed, Record, Summed
  <1>9. /\ Record(c, r, limit) \in Collector(Amounts)
        /\ Len(Record(c, r, limit).observed) <= limit
    BY SMTT(20), <1>1, <1>2, <1>3, <1>4 DEF Record, Collector
  <1>10. QED
    BY <1>5, <1>6, <1>8, <1>9

(* TypeOK, with what `exact` keeps of its tail. *)
TypeInv == TypeOK /\ Len(exact.observed) <= Retain

LEMMA RetainType ==
  /\ \A k \in Names : RetainOf(k) \in Nat
  /\ RetainOf("app") = Retain /\ RetainOf("budget") = 0
  BY PySpendAssumption DEF RetainOf, Names

LEMMA TypeInit == Init => TypeInv
  <1> SUFFICES ASSUME Init PROVE TypeInv
    OBVIOUS
  <1> USE BlankType, EmptyCollectorType, RetainType, PySpendAssumption DEF Init
  <1>1. /\ pc \in [Threads -> Points] /\ at \in [Threads -> Names]
        /\ holding \in [Threads -> Receipt(Amounts)]
    BY DEF Points, Names
  <1>2. tries \in [Threads -> 0 .. Attempts]
    OBVIOUS
  <1>3. lock \in [Names -> Threads \cup {Free}] /\ collectors \in [Names -> Collector(Amounts)]
    OBVIOUS
  <1>4. \A k \in Names : Len(collectors[k].observed) <= RetainOf(k)
    OBVIOUS
  <1>5. /\ answers \in 0 .. MaxSeen /\ exact \in Collector(Amounts) /\ forgotten \in Nat
        /\ Len(exact.observed) <= Retain
    OBVIOUS
  <1>6. QED
    BY <1>1, <1>2, <1>3, <1>4, <1>5 DEF TypeInv, TypeOK, Points, Amounts

LEMMA TypeStep == TypeInv /\ [Next]_vars => TypeInv'
  <1> SUFFICES ASSUME TypeInv, [Next]_vars PROVE TypeInv'
    OBVIOUS
  <1> USE DEF TypeInv, TypeOK, Amounts, histories, threadVars
  <1>1. CASE Reset
    <2>1. "app" \in Names /\ collectors["app"] \in Collector(Amounts)
      BY DEF Names
    <2>2. collectors["app"].summed \in Nat
      BY <2>1 DEF Collector
    <2>3. forgotten' \in Nat
      BY <1>1, <2>2 DEF Reset
    <2>4. collectors' \in [Names -> Collector(Amounts)]
      BY <1>1, <2>1, EmptyCollectorType DEF Reset
    <2>5. \A k \in Names : Len(collectors'[k].observed) <= RetainOf(k)
      BY <1>1, <2>1, EmptyCollectorType, RetainType DEF Reset
    <2>6. exact' \in Collector(Amounts) /\ Len(exact'.observed) <= Retain
      BY <1>1, EmptyCollectorType, PySpendAssumption DEF Reset
    <2>7. QED
      BY <1>1, <2>3, <2>4, <2>5, <2>6 DEF Reset
  <1>2. ASSUME NEW t \in Threads, Check(t) \/ Refuse(t) \/ Reject(t) \/ Resend(t)
        PROVE  TypeInv'
    <2>1. pc' \in [Threads -> Points] /\ tries' \in [Threads -> 0 .. Attempts]
      <3>1. CASE Check(t)
        BY <3>1, PySpendAssumption DEF Check, Goes, Points
      <3>2. CASE Refuse(t) \/ Reject(t)
        BY <3>2 DEF Refuse, Reject, Goes, Points
      <3>3. CASE Resend(t)
        BY <3>3, PySpendAssumption DEF Resend, Goes, Points
      <3>4. QED
        BY <1>2, <3>1, <3>2, <3>3
    <2>2. UNCHANGED <<at, holding, lock, collectors, histories>>
      BY <1>2 DEF Check, Refuse, Reject, Resend
    <2>3. QED
      BY <2>1, <2>2 DEF Points
  <1>3. ASSUME NEW t \in Threads, Return(t) PROVE TypeInv'
    BY <1>3, BlankType, PySpendAssumption DEF Return, Goes
  <1>4. ASSUME NEW t \in Threads, NEW r \in Kinds, Respond(t, r) PROVE TypeInv'
    BY <1>4, PySpendAssumption DEF Respond, Goes, Names
  <1>5. ASSUME NEW t \in Threads, Ignore(t) \/ CallbackReads(t) \/ CallbackThrows(t)
        PROVE  TypeInv'
    BY <1>5 DEF Ignore, CallbackReads, CallbackThrows, Thrown, NextHook, Goes, Names
  <1>6. ASSUME NEW t \in Threads, Acquire(t) PROVE TypeInv'
    BY <1>6 DEF Acquire, Goes
  <1>7. ASSUME NEW t \in Threads, Sum(t) PROVE TypeInv'
    <2>1. at[t] \in Names /\ RetainOf(at[t]) \in Nat /\ holding[t] \in Receipt(Amounts)
      BY RetainType
    <2>2. /\ Summed(collectors[at[t]], holding[t]) \in Collector(Amounts)
          /\ Summed(collectors[at[t]], holding[t]).observed = collectors[at[t]].observed
      BY <2>1, BlockType
    <2>3. /\ Record(exact, holding[t], Retain) \in Collector(Amounts)
          /\ Len(Record(exact, holding[t], Retain).observed) <= Retain
      BY <2>1, BlockType, PySpendAssumption
    <2>4. exact' \in Collector(Amounts) /\ Len(exact'.observed) <= Retain
      BY <1>7, <2>3 DEF Sum
    <2>5. /\ collectors' \in [Names -> Collector(Amounts)]
          /\ \A k \in Names : Len(collectors'[k].observed) <= RetainOf(k)
      BY <1>7, <2>1, <2>2 DEF Sum
    <2>6. QED
      BY <1>7, <2>4, <2>5 DEF Sum, Goes
  <1>8. ASSUME NEW t \in Threads, File(t) PROVE TypeInv'
    <2>1. at[t] \in Names /\ RetainOf(at[t]) \in Nat /\ holding[t] \in Receipt(Amounts)
      BY RetainType
    <2>2. /\ Filed(collectors[at[t]], holding[t], RetainOf(at[t])) \in Collector(Amounts)
          /\ Len(Filed(collectors[at[t]], holding[t], RetainOf(at[t])).observed) <= RetainOf(at[t])
      BY <2>1, BlockType
    <2>3. /\ collectors' \in [Names -> Collector(Amounts)]
          /\ \A k \in Names : Len(collectors'[k].observed) <= RetainOf(k)
      BY <1>8, <2>1, <2>2 DEF File
    <2>4. lock' \in [Names -> Threads \cup {Free}]
      BY <1>8, <2>1 DEF File, Released
    <2>5. pc' \in [Threads -> Points] /\ at' \in [Threads -> Names]
      BY <1>8 DEF File, Calls, NextHook, Goes, Names, Points
    <2>6. QED
      BY <1>8, <2>3, <2>4, <2>5 DEF File, Points
  <1>9. CASE UNCHANGED vars
    BY <1>9 DEF vars
  <1>10. QED
    BY <1>1, <1>2, <1>3, <1>4, <1>5, <1>6, <1>7, <1>8, <1>9 DEF Next, HookStep

(* The collectors' totals keep their types and no tail outgrows its limit,    *)
(* however the threads interleave (receipts.py:50-133).                       *)
THEOREM TypeCorrect == Spec => []TypeOK
  <1>1. TypeInv => TypeOK
    BY DEF TypeInv
  <1>2. QED
    BY <1>1, TypeInit, TypeStep, PTL DEF Spec

-----------------------------------------------------------------------------
(* The lock is held from Acquire to File and by nobody else; the collector is *)
(* half a receipt behind in between, and only for its holder.                 *)

Locked == {"sum", "file"}
Held == \A t \in Threads, k \in Names : lock[k] = t <=> (at[t] = k /\ pc[t] \in Locked)
Halves ==
  /\ lock["app"] = Free => collectors["app"] = exact
  /\ \A t \in Threads : at[t] = "app" /\ pc[t] = "sum" => collectors["app"] = exact
  /\ \A t \in Threads : at[t] = "app" /\ pc[t] = "file" =>
       exact = Filed(collectors["app"], holding[t], Retain)
LockInv == Held /\ Halves

LEMMA LockInit == Init => LockInv
  BY PySpendAssumption DEF Init, LockInv, Held, Halves, Names, Locked

(* A step outside the locked block leaves it as it is.                        *)
LEMMA Outside ==
  ASSUME TypeOK, LockInv, UNCHANGED <<lock, collectors, exact>>, NEW t \in Threads,
         pc[t] \notin Locked, pc'[t] \notin Locked,
         \A u \in Threads \ {t} : pc'[u] = pc[u] /\ at'[u] = at[u] /\ holding'[u] = holding[u]
  PROVE  LockInv'
  <1>1. Held'
    BY DEF LockInv, Held
  <1>2. Halves'
    BY DEF LockInv, Halves, Locked
  <1>3. QED
    BY <1>1, <1>2 DEF LockInv

LEMMA LockStep == TypeInv /\ LockInv /\ [Next]_vars => LockInv'
  <1> SUFFICES ASSUME TypeInv, LockInv, [Next]_vars PROVE LockInv'
    OBVIOUS
  <1>0. TypeOK /\ pc \in [Threads -> Points] /\ at \in [Threads -> Names]
        /\ lock \in [Names -> Threads \cup {Free}] /\ DOMAIN collectors = Names
        /\ DOMAIN holding = Threads /\ Free \notin Threads /\ "app" \in Names
    BY PySpendAssumption DEF TypeInv, TypeOK, Points, Names
  <1>1. CASE Reset
    <2>1. lock["app"] = Free /\ UNCHANGED <<pc, at, holding, lock>>
      BY <1>1 DEF Reset, Readable, threadVars
    <2>2. \A t \in Threads : ~(at[t] = "app" /\ pc[t] \in Locked)
      BY <2>1, <1>0 DEF LockInv, Held
    <2>3. collectors'["app"] = exact'
      BY <1>0, <1>1 DEF Reset
    <2>4. QED
      BY <2>1, <2>2, <2>3 DEF LockInv, Held, Halves, Locked
  <1>2. ASSUME NEW t \in Threads, Check(t) \/ Refuse(t) \/ Reject(t) \/ Resend(t)
                 \/ Return(t) \/ (\E r \in Kinds : Respond(t, r))
        PROVE  LockInv'
    <2>1. UNCHANGED <<lock, collectors, exact>>
      BY <1>2 DEF Check, Refuse, Reject, Resend, Return, Respond, histories
    <2>2. pc[t] \notin Locked /\ pc'[t] \notin Locked
      BY <1>0, <1>2 DEF Check, Refuse, Reject, Resend, Return, Respond, Goes, Locked
    <2>3. \A u \in Threads \ {t} : pc'[u] = pc[u] /\ at'[u] = at[u] /\ holding'[u] = holding[u]
      BY <1>0, <1>2 DEF Check, Refuse, Reject, Resend, Return, Respond, Goes
    <2>4. QED
      BY <1>0, <2>1, <2>2, <2>3, Outside
  <1>3. ASSUME NEW t \in Threads, Ignore(t) \/ CallbackReads(t) \/ CallbackThrows(t)
        PROVE  LockInv'
    <2>1. UNCHANGED <<lock, collectors, exact>>
      BY <1>3 DEF Ignore, CallbackReads, CallbackThrows, histories
    <2>2. pc[t] \notin Locked /\ pc'[t] \notin Locked
      BY <1>0, <1>3 DEF Ignore, CallbackReads, CallbackThrows, Thrown, NextHook, Goes, Locked
    <2>3. \A u \in Threads \ {t} : pc'[u] = pc[u] /\ at'[u] = at[u] /\ holding'[u] = holding[u]
      BY <1>0, <1>3 DEF Ignore, CallbackReads, CallbackThrows, Thrown, NextHook, Goes
    <2>4. QED
      BY <1>0, <2>1, <2>2, <2>3, Outside
  <1>4. ASSUME NEW t \in Threads, Acquire(t) PROVE LockInv'
    <2>1. /\ lock[at[t]] = Free /\ lock' = [lock EXCEPT ![at[t]] = t]
          /\ pc[t] = "hook" /\ pc' = [pc EXCEPT ![t] = "sum"]
          /\ UNCHANGED <<at, holding, collectors, exact>>
      BY <1>4 DEF Acquire, Goes, histories
    <2>2. Held'
      BY <1>0, <2>1 DEF LockInv, Held, Locked
    <2>3. Halves'
      BY <1>0, <2>1 DEF LockInv, Halves
    <2>4. QED
      BY <2>2, <2>3 DEF LockInv
  <1>5. ASSUME NEW t \in Threads, Sum(t) PROVE LockInv'
    <2>1. /\ pc[t] = "sum" /\ pc' = [pc EXCEPT ![t] = "file"]
          /\ collectors' = [collectors EXCEPT ![at[t]] = Summed(collectors[at[t]], holding[t])]
          /\ exact' = IF at[t] = "app" THEN Record(exact, holding[t], Retain) ELSE exact
          /\ UNCHANGED <<at, holding, lock>>
      BY <1>5 DEF Sum, Goes
    <2>2. Held'
      BY <1>0, <2>1 DEF LockInv, Held, Locked
    <2>3. lock[at[t]] = t /\ \A u \in Threads \ {t} : ~(at[u] = at[t] /\ pc[u] \in Locked)
      BY <1>0, <2>1 DEF LockInv, Held, Locked
    <2>4. CASE at[t] = "app"
      <3>1. collectors["app"] = exact
        BY <2>1, <2>4 DEF LockInv, Halves
      <3>2. exact' = Filed(collectors'["app"], holding[t], Retain)
        <4>1. holding[t] \in Receipt(Amounts) /\ exact \in Collector(Amounts)
              /\ Retain \in Nat /\ Len(exact.observed) <= Retain
          BY PySpendAssumption DEF TypeInv, TypeOK, Amounts
        <4>2. Filed(Summed(exact, holding[t]), holding[t], Retain) = Record(exact, holding[t], Retain)
          BY <4>1, BlockType
        <4>3. QED
          BY <1>0, <2>1, <2>4, <3>1, <4>2
      <3>3. QED
        BY <1>0, <2>1, <2>2, <2>3, <2>4, <3>2 DEF LockInv, Halves, Locked
    <2>5. CASE at[t] # "app"
      <3>1. collectors'["app"] = collectors["app"] /\ exact' = exact
        BY <1>0, <2>1, <2>5
      <3>2. QED
        BY <1>0, <2>1, <2>2, <2>5, <3>1 DEF LockInv, Halves
    <2>6. QED
      BY <2>4, <2>5
  <1>6. ASSUME NEW t \in Threads, File(t) PROVE LockInv'
    <2>1. /\ pc[t] = "file" /\ lock' = [lock EXCEPT ![at[t]] = Free]
          /\ collectors' = [collectors EXCEPT ![at[t]] =
                              Filed(collectors[at[t]], holding[t], RetainOf(at[t]))]
          /\ UNCHANGED <<holding, exact>>
      BY <1>6 DEF File, Released, histories
    <2>2. /\ pc'[t] \notin Locked
          /\ \A u \in Threads \ {t} : pc'[u] = pc[u] /\ at'[u] = at[u]
      BY <1>0, <1>6 DEF File, Calls, NextHook, Goes, Locked
    <2>3. lock[at[t]] = t /\ \A u \in Threads \ {t} : ~(at[u] = at[t] /\ pc[u] \in Locked)
      BY <1>0, <2>1 DEF LockInv, Held, Locked
    <2>4. Held'
      BY <1>0, <2>1, <2>2, <2>3 DEF LockInv, Held
    <2>5. CASE at[t] = "app"
      <3>1. collectors'["app"] = exact'
        BY <1>0, <2>1, <2>5, RetainType DEF LockInv, Halves
      <3>2. \A u \in Threads : ~(at'[u] = "app" /\ pc'[u] \in Locked)
        BY <2>2, <2>3, <2>5
      <3>3. QED
        BY <2>4, <3>1, <3>2 DEF LockInv, Halves, Locked
    <2>6. CASE at[t] # "app"
      <3>1. collectors'["app"] = collectors["app"] /\ lock'["app"] = lock["app"]
        BY <1>0, <2>1, <2>6
      <3>2. QED
        BY <2>1, <2>2, <2>4, <3>1 DEF LockInv, Halves, Locked
    <2>7. QED
      BY <2>5, <2>6
  <1>7. CASE UNCHANGED vars
    BY <1>7 DEF vars, threadVars, histories, LockInv, Held, Halves
  <1>8. QED
    BY <1>1, <1>2, <1>3, <1>4, <1>5, <1>6, <1>7 DEF Next, HookStep

(* Whoever may look at the application's collector finds every receipt whole  *)
(* or not at all, and the totals and the tail of all of them (the lock of     *)
(* receipts.py:82-92, 102-133).                                               *)
THEOREM ReadersSeeWholeReceipts == Spec => []ReadsAreExact
  <1>1. LockInv => ReadsAreExact
    BY DEF LockInv, Halves, ReadsAreExact, Readable
  <1>2. QED
    BY <1>1, TypeInit, TypeStep, LockInit, LockStep, PTL DEF Spec

-----------------------------------------------------------------------------
(* A request in progress may still cost a turn.  What is spent and what the   *)
(* requests the admitted calls have left may add was below the limit when the *)
(* last of them passed check(), and has not grown since.                      *)

CallTries == \A t \in Threads : pc[t] \notin {"idle", "refused"} => tries[t] >= 1

(* The requests of its call that the budget needs to hear no more of.         *)
Counted(t) == IF pc[t] \in {"idle", "refused"} THEN Attempts
              ELSE IF pc[t] = "handled" \/ (pc[t] = "file" /\ at[t] = "budget") THEN tries[t]
              ELSE tries[t] - 1
Pending == {p \in Threads \X (1 .. Attempts) : p[2] > Counted(p[1])}
Slots == Attempts * Cardinality(Threads)
Spent == collectors["budget"].summed
BudgetInv == \/ Pending = {} /\ Spent = 0
             \/ Spent + MaxCost * Cardinality(Pending) < Budget + MaxCost * Slots

LEMMA Counts ==
  ASSUME NEW P, P \subseteq Threads \X (1 .. Attempts)
  PROVE  /\ IsFiniteSet(P) /\ Cardinality(P) \in Nat
         /\ Slots \in Nat /\ Cardinality(P) <= Slots
  <1>1. Attempts \in Nat /\ IsFiniteSet(1 .. Attempts) /\ Cardinality(1 .. Attempts) = Attempts
    BY PySpendAssumption, FS_Interval
  <1>2. IsFiniteSet(Threads) /\ Cardinality(Threads) \in Nat
    BY PySpendAssumption, FS_CardinalityType
  <1>3. /\ IsFiniteSet(Threads \X (1 .. Attempts))
        /\ Cardinality(Threads \X (1 .. Attempts)) = Cardinality(Threads) * Attempts
    BY <1>1, <1>2, FS_Product
  <1>4. IsFiniteSet(P) /\ Cardinality(P) <= Cardinality(Threads) * Attempts
    BY <1>3, FS_Subset
  <1>5. QED
    BY <1>1, <1>2, <1>4, FS_CardinalityType DEF Slots

LEMMA PendingType ==
  /\ Pending \subseteq Threads \X (1 .. Attempts)
  /\ Pending' \subseteq Threads \X (1 .. Attempts)
  BY DEF Pending

LEMMA Products ==
  ASSUME NEW m \in Nat, NEW n \in Nat, NEW k \in Nat, n <= k
  PROVE  m * n \in Nat /\ m * n <= m * k /\ m * (n + 1) = m * n + m
  <1>1. PICK d \in Nat : k = n + d
    BY k - n \in Nat
  <1>2. m * n \in Nat /\ m * d \in Nat
    OBVIOUS
  <1>3. m * k = m * n + m * d
    BY <1>1
  <1>4. QED
    BY <1>2, <1>3

(* What is left after fewer are pending, or one less that cost something.     *)
LEMMA Room ==
  ASSUME NEW m \in Nat, NEW n \in Nat, NEW n2 \in Nat, NEW s \in Nat, NEW s2 \in Nat,
         NEW limit \in Nat, s + m * n < limit,
         (n2 <= n /\ s2 <= s) \/ (n2 + 1 <= n /\ s2 <= s + m)
  PROVE  s2 + m * n2 < limit
  <1>1. m * n \in Nat /\ m * n2 \in Nat
    OBVIOUS
  <1>2. CASE n2 <= n /\ s2 <= s
    BY <1>1, <1>2, Products
  <1>3. CASE n2 + 1 <= n /\ s2 <= s + m
    <2>1. m * (n2 + 1) <= m * n
      BY <1>3, Products
    <2>2. m * (n2 + 1) = m * n2 + m
      BY Products
    <2>3. QED
      BY <1>1, <1>3, <2>1, <2>2
  <1>4. QED
    BY <1>2, <1>3

LEMMA SpentType == TypeOK => Spent \in Nat
  BY DEF TypeOK, Names, Collector, Spent

LEMMA CallTriesInit == Init => CallTries
  BY DEF Init, CallTries

LEMMA CallTriesStep == TypeInv /\ CallTries /\ [Next]_vars => CallTries'
  <1> SUFFICES ASSUME TypeInv, CallTries, [Next]_vars PROVE CallTries'
    OBVIOUS
  <1>0. pc \in [Threads -> Points] /\ tries \in [Threads -> 0 .. Attempts]
    BY DEF TypeInv, TypeOK, Points
  <1> USE <1>0, PySpendAssumption DEF CallTries, threadVars
  <1>1. CASE Reset \/ UNCHANGED vars
    BY <1>1 DEF Reset, vars
  <1>2. ASSUME NEW t \in Threads, Check(t) \/ Refuse(t) PROVE CallTries'
    BY <1>2 DEF Check, Refuse, Goes
  <1>3. ASSUME NEW t \in Threads, Reject(t) \/ (\E r \in Kinds : Respond(t, r)) PROVE CallTries'
    BY <1>3 DEF Reject, Respond, Goes
  <1>4. ASSUME NEW t \in Threads, Resend(t) \/ Return(t) PROVE CallTries'
    BY <1>4 DEF Resend, Return, Goes
  <1>5. ASSUME NEW t \in Threads, HookStep(t) PROVE CallTries'
    <2>1. pc[t] \notin {"idle", "refused"} /\ tries' = tries
      BY <1>5 DEF HookStep, Ignore, Acquire, Sum, File, CallbackReads, CallbackThrows, Goes
    <2>2. \A u \in Threads \ {t} : pc'[u] = pc[u]
      BY <1>5 DEF HookStep, Ignore, Acquire, Sum, File, Calls, CallbackReads, CallbackThrows,
                  Thrown, NextHook, Goes
    <2>3. QED
      BY <2>1, <2>2
  <1>6. QED
    BY <1>1, <1>2, <1>3, <1>4, <1>5 DEF Next

(* What is pending shrinks as the requests of a call are accounted for.       *)
LEMMA PendingShrinks ==
  ASSUME TypeOK, TypeOK', NEW t \in Threads, Counted(t) <= Counted(t)',
         \A u \in Threads \ {t} : UNCHANGED <<pc[u], at[u], tries[u]>>
  PROVE  Pending' \subseteq Pending
  <1>1. Counted(t) \in Int /\ Counted(t)' \in Int
    BY PySpendAssumption DEF TypeOK, Counted
  <1>2. \A u \in Threads \ {t} : Counted(u)' = Counted(u)
    BY DEF Counted
  <1>3. \A p \in Pending' : p \in Pending
    BY <1>1, <1>2 DEF Pending
  <1>4. QED
    BY <1>3

Limit == Budget + MaxCost * Slots

LEMMA LimitType == Limit \in Nat /\ MaxCost \in Nat /\ Budget \in Nat /\ Slots \in Nat
  <1>1. MaxCost \in Nat /\ Budget \in Nat /\ Slots \in Nat
    BY PySpendAssumption, PendingType, Counts
  <1>2. QED
    BY <1>1 DEF Limit

(* One request leaves the pending ones and adds what a turn costs at most, or *)
(* nothing is spent.                                                          *)
LEMMA BudgetStays ==
  ASSUME TypeOK, TypeOK', BudgetInv,
         \/ Pending' \subseteq Pending /\ Spent' = Spent
         \/ \E p \in Pending : Pending' \subseteq Pending \ {p} /\ Spent' <= Spent + MaxCost
  PROVE  BudgetInv'
  <1>1. Spent \in Nat /\ Spent' \in Nat
    BY SpentType DEF TypeOK, Names, Collector, Spent
  <1>2. /\ IsFiniteSet(Pending) /\ Cardinality(Pending) \in Nat
        /\ Cardinality(Pending') \in Nat
    BY PendingType, Counts
  <1>3. \/ Cardinality(Pending') <= Cardinality(Pending) /\ Spent' <= Spent
        \/ Cardinality(Pending') + 1 <= Cardinality(Pending) /\ Spent' <= Spent + MaxCost
    <2>1. CASE Pending' \subseteq Pending /\ Spent' = Spent
      BY <1>1, <1>2, <2>1, FS_Subset
    <2>2. ASSUME NEW p \in Pending, Pending' \subseteq Pending \ {p}, Spent' <= Spent + MaxCost
          PROVE  Cardinality(Pending') + 1 <= Cardinality(Pending)
      <3>1. IsFiniteSet(Pending \ {p}) /\ Cardinality(Pending \ {p}) = Cardinality(Pending) - 1
        BY <1>2, FS_RemoveElement
      <3>2. Cardinality(Pending') <= Cardinality(Pending \ {p})
        BY <2>2, <3>1, FS_Subset
      <3>3. QED
        BY <1>2, <3>1, <3>2
    <2>3. QED
      BY <2>1, <2>2
  <1>4. CASE Pending = {} /\ Spent = 0
    BY <1>4 DEF BudgetInv
  <1>5. CASE Spent + MaxCost * Cardinality(Pending) < Limit
    <2>1. Spent' + MaxCost * Cardinality(Pending') < Limit
      <3> HIDE DEF Spent, Pending, Limit
      <3>1. QED
        BY <1>1, <1>2, <1>3, <1>5, LimitType, Room
    <2>2. QED
      BY <2>1 DEF BudgetInv, Limit, Slots
  <1>6. QED
    BY <1>4, <1>5 DEF BudgetInv, Limit

(* Where check() lets a call through, the budget was not used up.             *)
LEMMA LetThrough ==
  ASSUME TypeOK, Spent < Budget, Spent' = Spent PROVE BudgetInv'
  <1>1. Cardinality(Pending') \in Nat /\ Cardinality(Pending') <= Slots /\ Spent \in Nat
    BY PendingType, Counts, SpentType
  <1>2. /\ MaxCost * Cardinality(Pending') <= MaxCost * Slots
        /\ MaxCost * Cardinality(Pending') \in Nat /\ MaxCost * Slots \in Nat
    BY <1>1, LimitType, Products
  <1>3. Spent' + MaxCost * Cardinality(Pending') < Budget + MaxCost * Slots
    <2> HIDE DEF Spent, Pending, Slots
    <2>1. QED
      BY <1>1, <1>2, LimitType
  <1>4. QED
    BY <1>3 DEF BudgetInv, Slots

LEMMA BudgetInit == Init => BudgetInv
  <1> SUFFICES ASSUME Init PROVE Pending = {} /\ Spent = 0
    BY DEF BudgetInv
  <1>1. Spent = 0
    BY EmptyCollectorType DEF Init, Spent, Names
  <1>2. \A t \in Threads : Counted(t) = Attempts
    BY DEF Init, Counted
  <1>3. Pending = {}
    BY <1>2, PySpendAssumption DEF Pending
  <1>4. QED
    BY <1>1, <1>3

LEMMA BudgetStep == TypeInv /\ TypeInv' /\ CallTries /\ BudgetInv /\ [Next]_vars => BudgetInv'
  <1> SUFFICES ASSUME TypeInv, TypeInv', CallTries, BudgetInv, [Next]_vars PROVE BudgetInv'
    OBVIOUS
  <1>0. /\ TypeOK /\ TypeOK' /\ pc \in [Threads -> Points] /\ at \in [Threads -> Names]
        /\ tries \in [Threads -> 0 .. Attempts] /\ DOMAIN collectors = Names
        /\ "budget" \in Names /\ Attempts \in Nat \ {0}
    BY PySpendAssumption DEF TypeInv, TypeOK, Points, Names
  <1>1. CASE Reset \/ UNCHANGED vars
    <2>1. Pending' = Pending /\ Spent' = Spent
      BY <1>0, <1>1 DEF Reset, vars, threadVars, Pending, Counted, Spent
    <2>2. QED
      BY <1>0, <2>1, BudgetStays
  (* A step that costs nothing and leaves no more pending.                    *)
  <1>2. ASSUME NEW t \in Threads, Counted(t) <= Counted(t)', Spent' = Spent,
               \A u \in Threads \ {t} : UNCHANGED <<pc[u], at[u], tries[u]>>
        PROVE  BudgetInv'
    BY <1>0, <1>2, PendingShrinks, BudgetStays
  <1>3. ASSUME NEW t \in Threads, Check(t) PROVE BudgetInv'
    <2>1. CASE Exhausted
      <3>1. Counted(t) <= Counted(t)'
        BY <1>0, <1>3, <2>1 DEF Check, Goes, Counted
      <3>2. QED
        BY <1>0, <1>2, <1>3, <3>1 DEF Check, Goes, Spent
    <2>2. CASE ~Exhausted
      <3>1. Spent < Budget /\ Spent' = Spent
        BY <1>0, <1>3, <2>2, SpentType, LimitType DEF Check, Exhausted, Spent
      <3>2. QED
        BY <1>0, <3>1, LetThrough
    <2>3. QED
      BY <2>1, <2>2
  <1>4. ASSUME NEW t \in Threads, Refuse(t) \/ Reject(t) \/ Resend(t) \/ Return(t)
        PROVE  BudgetInv'
    <2>1. Counted(t) <= Counted(t)'
      BY <1>0, <1>4 DEF Refuse, Reject, Resend, Return, Goes, Counted
    <2>2. QED
      BY <1>0, <1>2, <1>4, <2>1 DEF Refuse, Reject, Resend, Return, Goes, Spent
  <1>5. ASSUME NEW t \in Threads, NEW r \in Kinds, Respond(t, r) PROVE BudgetInv'
    <2>1. Counted(t) <= Counted(t)'
      BY <1>0, <1>5 DEF Respond, Goes, Counted
    <2>2. QED
      BY <1>0, <1>2, <1>5, <2>1 DEF Respond, Goes, Spent
  <1>6. ASSUME NEW t \in Threads, Ignore(t) \/ CallbackReads(t) \/ CallbackThrows(t)
        PROVE  BudgetInv'
    <2>1. Counted(t) <= Counted(t)'
      BY <1>0, <1>6 DEF Ignore, CallbackReads, CallbackThrows, Thrown, NextHook, Goes, Counted
    <2>2. QED
      BY <1>0, <1>2, <1>6, <2>1
         DEF Ignore, CallbackReads, CallbackThrows, Thrown, NextHook, Goes, Spent
  <1>7. ASSUME NEW t \in Threads, Acquire(t) PROVE BudgetInv'
    <2>1. Counted(t) <= Counted(t)'
      BY <1>0, <1>7 DEF Acquire, Goes, Counted
    <2>2. QED
      BY <1>0, <1>2, <1>7, <2>1 DEF Acquire, Goes, Spent
  <1>8. ASSUME NEW t \in Threads, Sum(t) PROVE BudgetInv'
    <2>1. /\ pc[t] = "sum" /\ pc' = [pc EXCEPT ![t] = "file"]
          /\ collectors' = [collectors EXCEPT ![at[t]] = Summed(collectors[at[t]], holding[t])]
          /\ UNCHANGED <<at, tries>>
      BY <1>8 DEF Sum, Goes
    <2>2. CASE at[t] = "app"
      <3>1. Counted(t) <= Counted(t)' /\ Spent' = Spent
        BY <1>0, <2>1, <2>2 DEF Counted, Spent
      <3>2. QED
        BY <1>0, <1>2, <2>1, <3>1
    <2>3. CASE at[t] = "budget"
      <3>1. tries[t] \in 1 .. Attempts
        BY <1>0, <2>1 DEF CallTries
      <3>2. Counted(t) = tries[t] - 1 /\ Counted(t)' = tries[t]
        BY <1>0, <2>1, <2>3 DEF Counted
      <3>3. <<t, tries[t]>> \in Pending /\ <<t, tries[t]>> \notin Pending'
        BY <3>1, <3>2 DEF Pending
      <3>4. Pending' \subseteq Pending
        BY <1>0, <2>1, <3>1, <3>2, PendingShrinks
      <3>5. Spent' <= Spent + MaxCost
        <4>1. holding[t].cost \in Amounts \cup {Undisclosed}
          BY DEF TypeInv, TypeOK, Receipt, Amounts
        <4>2. Amount(holding[t].cost) \in Nat /\ Amount(holding[t].cost) <= MaxCost
          BY <4>1, AmountType
        <4>3. Spent' = Spent + Amount(holding[t].cost)
          BY <1>0, <2>1, <2>3 DEF Spent, Summed
        <4>4. QED
          BY <1>0, <4>2, <4>3, SpentType, LimitType
      <3>6. QED
        BY <1>0, <3>3, <3>4, <3>5, BudgetStays
    <2>4. QED
      BY <1>0, <2>2, <2>3 DEF Names
  <1>9. ASSUME NEW t \in Threads, File(t) PROVE BudgetInv'
    <2>1. Counted(t) <= Counted(t)'
      BY <1>0, <1>9 DEF File, Calls, NextHook, Goes, Counted, Names
    <2>2. Spent' = Spent
      BY <1>0, <1>9 DEF File, Filed, Spent
    <2>3. \A u \in Threads \ {t} : UNCHANGED <<pc[u], at[u], tries[u]>>
      BY <1>0, <1>9 DEF File, Calls, NextHook, Goes
    <2>4. QED
      BY <1>2, <2>1, <2>2, <2>3
  <1>10. QED
    BY <1>1, <1>3, <1>4, <1>5, <1>6, <1>7, <1>8, <1>9 DEF Next, HookStep

(* n threads that share a budget overshoot it by less than what n calls of    *)
(* Attempts requests can cost: check() looks, the client sends, and only the  *)
(* hook of the response records (receipts.py:164-175).                        *)
THEOREM OvershootIsBounded == Spec => []WorstCase
  <1>1. TypeOK /\ BudgetInv => WorstCase
    <2> SUFFICES ASSUME TypeOK, BudgetInv, Spent > 0
                 PROVE  Spent < Budget + MaxCost * Attempts * Cardinality(Threads)
      BY DEF WorstCase, Spent
    <2>1. Spent + MaxCost * Cardinality(Pending) < Limit
      BY DEF BudgetInv, Limit
    <2>2. Spent \in Nat /\ Cardinality(Pending) \in Nat /\ Limit \in Nat /\ MaxCost \in Nat
      BY SpentType, PendingType, Counts, LimitType
    <2>3. MaxCost * Cardinality(Pending) \in Nat
      BY <2>2
    <2>4. Spent < Limit
      BY <2>1, <2>2, <2>3
    <2>5. Attempts \in Nat /\ Cardinality(Threads) \in Nat
      BY PySpendAssumption, FS_CardinalityType
    <2>6. Limit = Budget + MaxCost * Attempts * Cardinality(Threads)
      BY <2>2, <2>5 DEF Limit, Slots
    <2>7. QED
      BY <2>4, <2>6
  <1>2. TypeInv => TypeOK
    BY DEF TypeInv
  <1>3. QED
    BY <1>1, <1>2, TypeInit, TypeStep, CallTriesInit, CallTriesStep, BudgetInit, BudgetStep, PTL
       DEF Spec
-----------------------------------------------------------------------------
(* Between the hook of the application's collector and the budget's a turn is *)
(* on the one account and not yet on the other: what the threads owe the      *)
(* budget, as a set of as many elements as nano-dollars.                      *)
Owes(t) == \/ at[t] = "app" /\ pc[t] \in {"file", "reading", "throwing"}
           \/ at[t] = "budget" /\ pc[t] \in {"hook", "sum"}
Due(t) == IF Owes(t) THEN Amount(holding[t].cost) ELSE 0
Owed == {p \in Threads \X (1 .. MaxCost) : p[2] <= Due(p[1])}
Told == collectors["app"].summed + forgotten
AccountInv == Spent + Cardinality(Owed) = Told

LEMMA DueType ==
  /\ TypeOK => \A t \in Threads : Due(t) \in Amounts
  /\ TypeOK' => \A t \in Threads : Due(t)' \in Amounts
  <1>1. ASSUME NEW r \in Receipt(Amounts) PROVE Amount(r.cost) \in Amounts /\ 0 \in Amounts
    <2>1. Amount(r.cost) \in Nat /\ Amount(r.cost) <= MaxCost
      BY AmountType DEF Receipt
    <2>2. QED
      BY <2>1, PySpendAssumption DEF Amounts
  <1>2. TypeOK => \A t \in Threads : holding[t] \in Receipt(Amounts)
    BY DEF TypeOK, Amounts
  <1>3. TypeOK' => \A t \in Threads : holding'[t] \in Receipt(Amounts)
    BY DEF TypeOK, Amounts
  <1>4. 0 \in Amounts
    BY PySpendAssumption DEF Amounts
  <1>5. QED
    BY <1>1, <1>2, <1>3, <1>4 DEF Due

LEMMA OwedIsFinite ==
  /\ IsFiniteSet(Owed) /\ Cardinality(Owed) \in Nat
  /\ IsFiniteSet(Owed') /\ Cardinality(Owed') \in Nat
  <1>1. IsFiniteSet(1 .. MaxCost)
    BY PySpendAssumption, FS_Interval
  <1>2. IsFiniteSet(Threads \X (1 .. MaxCost))
    BY <1>1, PySpendAssumption, FS_Product
  <1>3. Owed \subseteq Threads \X (1 .. MaxCost) /\ Owed' \subseteq Threads \X (1 .. MaxCost)
    BY DEF Owed
  <1>4. QED
    BY <1>2, <1>3, FS_Subset, FS_CardinalityType

(* A thread that owed nothing comes to owe so much.                           *)
LEMMA SoManyMore ==
  ASSUME NEW P, IsFiniteSet(P), NEW t, NEW a \in Nat, \A p \in P : p[1] # t
  PROVE  Cardinality(P \cup ({t} \X (1 .. a))) = Cardinality(P) + a
  <1> DEFINE new == {t} \X (1 .. a)
  <1>1. IsFiniteSet({t}) /\ Cardinality({t}) = 1
    BY FS_Singleton
  <1>2. IsFiniteSet(1 .. a) /\ Cardinality(1 .. a) = a
    <2>1. 1 \in Int /\ a \in Int /\ (a = 0 \/ a >= 1)
      OBVIOUS
    <2>2. IsFiniteSet(1 .. a) /\ Cardinality(1 .. a) = IF 1 > a THEN 0 ELSE a - 1 + 1
      BY <2>1, FS_Interval, Zenon
    <2>3. QED
      BY <2>1, <2>2
  <1>3. IsFiniteSet(new) /\ Cardinality(new) = Cardinality({t}) * Cardinality(1 .. a)
    BY <1>1, <1>2, FS_Product, Zenon
  <1>4. P \cap new = {}
    OBVIOUS
  <1> HIDE DEF new
  <1>5. Cardinality(P \cup new) = Cardinality(P) + Cardinality(new) - Cardinality(P \cap new)
    BY <1>3, FS_Union
  <1>6. Cardinality(P) \in Nat /\ Cardinality(P \cap new) = 0
    BY <1>4, FS_CardinalityType, FS_EmptySet
  <1>7. Cardinality(new) = a
    BY <1>1, <1>2, <1>3
  <1>8. QED
    BY <1>5, <1>6, <1>7 DEF new

LEMMA NobodyOwesMore ==
  ASSUME \A u \in Threads : Due(u)' = Due(u)
  PROVE  Owed' = Owed
  BY DEF Owed

LEMMA OneOwesMore ==
  ASSUME TypeOK, TypeOK', NEW t \in Threads, Due(t) = 0,
         \A u \in Threads \ {t} : Due(u)' = Due(u)
  PROVE  Cardinality(Owed') = Cardinality(Owed) + Due(t)'
  <1>1. PICK a \in Amounts : a = Due(t)'
    BY DueType
  <1>2. a \in Nat /\ a <= MaxCost /\ MaxCost \in Nat
    BY PySpendAssumption DEF Amounts
  <1>3. \A p \in Owed : p[1] # t
    BY DEF Owed
  <1>4. Owed' = Owed \cup ({t} \X (1 .. a))
    <2>1. \A p \in Threads \X (1 .. MaxCost) : p \in Owed' <=> p[2] <= Due(p[1])'
      BY DEF Owed
    <2>2. \A p \in Threads \X (1 .. MaxCost) : p \in Owed <=> p[2] <= Due(p[1])
      BY DEF Owed
    <2>3. {t} \X (1 .. a) \subseteq Threads \X (1 .. MaxCost)
      BY <1>2
    <2>4. Owed \subseteq Threads \X (1 .. MaxCost) /\ Owed' \subseteq Threads \X (1 .. MaxCost)
      BY DEF Owed
    <2>5. ASSUME NEW u \in Threads, NEW n \in 1 .. MaxCost
          PROVE  <<u, n>> \in Owed' <=> <<u, n>> \in Owed \cup ({t} \X (1 .. a))
      <3>1. <<u, n>> \in Owed' <=> n <= Due(u)'
        BY <2>1
      <3>2. <<u, n>> \in Owed <=> n <= Due(u)
        BY <2>2
      <3>3. <<u, n>> \in {t} \X (1 .. a) <=> u = t /\ n <= a
        BY <1>2
      <3>4. QED
        BY <1>1, <3>1, <3>2, <3>3
    <2>6. QED
      BY <2>3, <2>4, <2>5
  <1>5. QED
    BY <1>1, <1>2, <1>3, <1>4, OwedIsFinite, SoManyMore

LEMMA OnePays ==
  ASSUME TypeOK, TypeOK', NEW t \in Threads, Due(t)' = 0,
         \A u \in Threads \ {t} : Due(u)' = Due(u)
  PROVE  Cardinality(Owed) = Cardinality(Owed') + Due(t)
  <1>1. PICK a \in Amounts : a = Due(t)
    BY DueType
  <1>2. a \in Nat /\ a <= MaxCost /\ MaxCost \in Nat
    BY PySpendAssumption DEF Amounts
  <1>3. \A p \in Owed' : p[1] # t
    BY DEF Owed
  <1>4. Owed = Owed' \cup ({t} \X (1 .. a))
    <2>1. \A p \in Threads \X (1 .. MaxCost) : p \in Owed' <=> p[2] <= Due(p[1])'
      BY DEF Owed
    <2>2. \A p \in Threads \X (1 .. MaxCost) : p \in Owed <=> p[2] <= Due(p[1])
      BY DEF Owed
    <2>3. {t} \X (1 .. a) \subseteq Threads \X (1 .. MaxCost)
      BY <1>2
    <2>4. Owed \subseteq Threads \X (1 .. MaxCost) /\ Owed' \subseteq Threads \X (1 .. MaxCost)
      BY DEF Owed
    <2>5. ASSUME NEW u \in Threads, NEW n \in 1 .. MaxCost
          PROVE  <<u, n>> \in Owed <=> <<u, n>> \in Owed' \cup ({t} \X (1 .. a))
      <3>1. <<u, n>> \in Owed' <=> n <= Due(u)'
        BY <2>1
      <3>2. <<u, n>> \in Owed <=> n <= Due(u)
        BY <2>2
      <3>3. <<u, n>> \in {t} \X (1 .. a) <=> u = t /\ n <= a
        BY <1>2
      <3>4. QED
        BY <1>1, <3>1, <3>2, <3>3
    <2>6. QED
      BY <2>3, <2>4, <2>5
  <1>5. QED
    BY <1>1, <1>2, <1>3, <1>4, OwedIsFinite, SoManyMore

LEMMA AccountInit == Init => AccountInv
  <1> SUFFICES ASSUME Init PROVE AccountInv
    OBVIOUS
  <1>1. Owed = {}
    BY PySpendAssumption DEF Init, Owed, Due, Owes
  <1>2. Spent = 0 /\ Told = 0
    BY EmptyCollectorType DEF Init, Spent, Told, Names
  <1>3. QED
    BY <1>1, <1>2, FS_EmptySet DEF AccountInv

LEMMA AccountStep == TypeInv /\ TypeInv' /\ AccountInv /\ [Next]_vars => AccountInv'
  <1> SUFFICES ASSUME TypeInv, TypeInv', AccountInv, [Next]_vars PROVE AccountInv'
    OBVIOUS
  <1>0. /\ TypeOK /\ TypeOK' /\ pc \in [Threads -> Points] /\ at \in [Threads -> Names]
        /\ holding \in [Threads -> Receipt(Amounts)]
        /\ DOMAIN collectors = Names /\ "budget" \in Names /\ "app" \in Names
        /\ Spent \in Nat /\ collectors["app"].summed \in Nat /\ forgotten \in Nat
    BY SpentType DEF TypeInv, TypeOK, Points, Names, Amounts, Collector
  (* A step that changes no account and nobody's debt.                        *)
  <1>1. ASSUME \A u \in Threads : Due(u)' = Due(u), Spent' = Spent, Told' = Told
        PROVE  AccountInv'
    BY <1>1, NobodyOwesMore DEF AccountInv
  <1>2. CASE Reset
    <2>1. Told' = Told /\ Spent' = Spent /\ UNCHANGED <<pc, at, holding>>
      BY <1>0, <1>2, EmptyCollectorType DEF Reset, Told, Spent, threadVars
    <2>2. QED
      BY <1>1, <2>1 DEF Due, Owes
  <1>3. CASE UNCHANGED vars
    BY <1>1, <1>3 DEF vars, threadVars, histories, Due, Owes, Told, Spent
  <1>4. ASSUME NEW t \in Threads, Check(t) \/ Refuse(t) \/ Reject(t) \/ Resend(t)
        PROVE  AccountInv'
    <2>1. UNCHANGED <<at, holding, collectors, forgotten>>
      BY <1>4 DEF Check, Refuse, Reject, Resend, histories
    <2>2. \A u \in Threads : Due(u)' = Due(u)
      BY <1>0, <1>4, <2>1 DEF Check, Refuse, Reject, Resend, Goes, Due, Owes
    <2>3. QED
      BY <1>1, <2>1, <2>2 DEF Told, Spent
  <1>5. ASSUME NEW t \in Threads, Return(t) \/ (\E r \in Kinds : Respond(t, r))
        PROVE  AccountInv'
    <2>1. UNCHANGED <<collectors, forgotten>>
      BY <1>5 DEF Return, Respond, histories
    <2>2. \A u \in Threads : Due(u)' = Due(u)
      BY <1>0, <1>5 DEF Return, Respond, Goes, Due, Owes
    <2>3. QED
      BY <1>1, <2>1, <2>2 DEF Told, Spent
  (* What is not recorded tells no cost.                                      *)
  <1>6. ASSUME NEW t \in Threads, Ignore(t) PROVE AccountInv'
    <2>1. Amount(holding[t].cost) = 0 /\ UNCHANGED <<holding, collectors, forgotten>>
      BY <1>6 DEF Ignore, Observable, Amount, histories
    <2>2. \A u \in Threads : Due(u)' = Due(u)
      BY <1>0, <1>6, <2>1 DEF Ignore, NextHook, Goes, Due, Owes
    <2>3. QED
      BY <1>1, <2>1, <2>2 DEF Told, Spent
  <1>7. ASSUME NEW t \in Threads, Acquire(t) \/ CallbackReads(t) \/ CallbackThrows(t)
        PROVE  AccountInv'
    <2>1. UNCHANGED <<holding, collectors, forgotten>>
      BY <1>7 DEF Acquire, CallbackReads, CallbackThrows, histories
    <2>2. \A u \in Threads : Due(u)' = Due(u)
      BY <1>0, <1>7, <2>1
         DEF Acquire, CallbackReads, CallbackThrows, Thrown, NextHook, Goes, Due, Owes, Names
    <2>3. QED
      BY <1>1, <2>1, <2>2 DEF Told, Spent
  <1>8. ASSUME NEW t \in Threads, Sum(t) PROVE AccountInv'
    <2>1. /\ pc[t] = "sum" /\ pc' = [pc EXCEPT ![t] = "file"]
          /\ collectors' = [collectors EXCEPT ![at[t]] = Summed(collectors[at[t]], holding[t])]
          /\ UNCHANGED <<at, holding, forgotten>>
      BY <1>8 DEF Sum, Goes
    <2>2. \A u \in Threads \ {t} : Due(u)' = Due(u)
      BY <1>0, <2>1 DEF Due, Owes
    <2>3. PICK a \in Nat : a = Amount(holding[t].cost)
      <3>1. holding[t].cost \in Amounts \cup {Undisclosed}
        BY <1>0 DEF Receipt
      <3>2. QED
        BY <3>1, AmountType
    <2>4. CASE at[t] = "app"
      <3>1. Due(t) = 0 /\ Due(t)' = a
        BY <1>0, <2>1, <2>3, <2>4 DEF Due, Owes
      <3>2. Spent' = Spent /\ Told' = Told + a
        BY <1>0, <2>1, <2>3, <2>4 DEF Spent, Told, Summed
      <3>3. Cardinality(Owed') = Cardinality(Owed) + a
        BY <1>0, <2>2, <3>1, OneOwesMore
      <3>4. QED
        BY <1>0, <3>2, <3>3, OwedIsFinite DEF AccountInv
    <2>5. CASE at[t] = "budget"
      <3>1. Due(t) = a /\ Due(t)' = 0
        BY <1>0, <2>1, <2>3, <2>5 DEF Due, Owes
      <3>2. Spent' = Spent + a /\ Told' = Told
        BY <1>0, <2>1, <2>3, <2>5 DEF Spent, Told, Summed
      <3>3. Cardinality(Owed) = Cardinality(Owed') + a
        BY <1>0, <2>2, <3>1, OnePays
      <3>4. QED
        BY <1>0, <3>2, <3>3, OwedIsFinite DEF AccountInv
    <2>6. QED
      BY <1>0, <2>4, <2>5 DEF Names
  <1>9. ASSUME NEW t \in Threads, File(t) PROVE AccountInv'
    <2>1. Told' = Told /\ Spent' = Spent /\ holding' = holding
      BY <1>0, <1>9 DEF File, Filed, Told, Spent, histories
    <2>2. \A u \in Threads : Due(u)' = Due(u)
      BY <1>0, <1>9, <2>1 DEF File, Calls, NextHook, Goes, Due, Owes, Names
    <2>3. QED
      BY <1>1, <2>1, <2>2
  <1>10. QED
    BY <1>2, <1>3, <1>4, <1>5, <1>6, <1>7, <1>8, <1>9 DEF Next, HookStep

(* "A throwing callback must not fail a turn the caller already paid for"     *)
(* (receipts.py:93-98), nor hide it from the budget: when no hook runs, the   *)
(* budget has counted all the application's collector was told, whatever was  *)
(* reset or thrown meanwhile and by whichever thread.                         *)
THEOREM NothingEscapesTheBudget == Spec => []BudgetSeesAll
  <1>1. TypeInv /\ AccountInv => BudgetSeesAll
    <2> SUFFICES ASSUME TypeInv, AccountInv, \A t \in Threads : ~InHook(t)
                 PROVE  Spent = Told
      BY DEF BudgetSeesAll, Spent, Told
    <2>1. \A t \in Threads : Due(t) = 0
      BY DEF InHook, Due, Owes
    <2>2. Owed = {}
      BY <2>1, PySpendAssumption DEF Owed
    <2>3. Cardinality(Owed) = 0 /\ Spent \in Nat
      BY <2>2, FS_EmptySet, SpentType DEF TypeInv
    <2>4. QED
      BY <2>3 DEF AccountInv
  <1>2. QED
    BY <1>1, TypeInit, TypeStep, AccountInit, AccountStep, PTL DEF Spec
=============================================================================
