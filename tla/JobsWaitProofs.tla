--------------------------- MODULE JobsWaitProofs ---------------------------
(***************************************************************************)
(* Proofs about JobsWait, for any number of waiters and any pauses.        *)
(***************************************************************************)
EXTENDS JobsWait, TLAPS

(* What a waiter was told and has not acted on yet still holds of the job. *)
VerdictInv ==
  /\ deleted => job = "fetched"
  /\ \A w \in Waiters :
       /\ outcome[w] # "none" => pc[w] = "done"
       /\ pc[w] = "answered" /\ heard[w] \in Ready => job \in Ready
       /\ pc[w] = "answered" /\ heard[w] \in Refunded => job \in Refunded
       /\ pc[w] = "fetching" => job \in Ready
  /\ VerdictIsTrue

(* A job that was over when a poll was sent is over, and the answer says so. *)
OverInv ==
  /\ \A w \in Waiters :
       /\ outcome[w] # "none" => pc[w] = "done"
       /\ over[w] => job \notin Running
       /\ over[w] /\ pc[w] = "answered" => heard[w] \notin Running
  /\ StoppingHidesNothing

(* Nobody who was polled once too often goes to sleep again. *)
PollInv ==
  \A w \in Waiters :
    /\ extra[w] <= 1
    /\ extra[w] > 0 => (aborted[w] \/ late[w]) /\ pc[w] \notin {"idle", "sleep"}

-----------------------------------------------------------------------------
(* What one waiter's step, and what everybody else's, can change. *)
LEMMA VerdictValues ==
  ASSUME TypeOK, NEW w \in Waiters
  PROVE  /\ Concludes(w) \in {"fetch", "noResult", "stopped", "timedOut", "sleep"}
         /\ Concludes(w) = "fetch" => heard[w] \in Ready
         /\ Concludes(w) = "noResult" => heard[w] \in Refunded
         /\ Concludes(w) \in {"stopped", "timedOut", "sleep"} => heard[w] \in Running
         /\ Concludes(w) = "sleep" => ~aborted[w] /\ ~late[w]
  BY DEF TypeOK, Concludes, Verdict, PyVerdict, Status, Terminal, Ready, Refunded, Running

LEMMA TypeInit == Init => TypeOK
<1> SUFFICES ASSUME Init PROVE TypeOK
  OBVIOUS
<1>1. "queued" \in Status /\ "other" \in Status /\ "none" \in Outcomes
  BY DEF Status, Running, Outcomes
<1>2. interval \in [Waiters -> {Poll} \cup 0 .. MaxPoll] /\ extra \in [Waiters -> 0 .. 2]
  BY SMT DEF Init
<1> QED BY <1>1, <1>2, PollsAssumption DEF Init, TypeOK

LEMMA TypeStep == TypeOK /\ [Next]_vars => TypeOK'
<1> SUFFICES ASSUME TypeOK, [Next]_vars PROVE TypeOK'
  OBVIOUS
<1> USE DEF TypeOK, jobVars, waiterVars
<1>1. ASSUME JobMoves \/ BodyDeleted \/ OthersFetch PROVE TypeOK'
  BY <1>1 DEF JobMoves, BodyDeleted, OthersFetch, Status, Running, Ready, Refunded
<1>2. ASSUME NEW w \in Waiters, Start(w) PROVE TypeOK'
  BY <1>2 DEF Start, Ask
<1>3. ASSUME NEW w \in Waiters, Wake(w) PROVE TypeOK'
  <2>1. Longer(interval[w]) \in 0 .. MaxPoll
    BY PollsAssumption DEF Longer
  <2> QED BY <1>3, <2>1 DEF Wake, Ask
<1>4. ASSUME NEW w \in Waiters, Decide(w) PROVE TypeOK'
  <2>1. Concludes(w) \in Outcomes \cup {"fetch", "sleep"}
    BY VerdictValues DEF Outcomes
  <2>2. outcome' \in [Waiters -> Outcomes]
    BY <1>4, <2>1 DEF Decide
  <2>3. pc' \in [Waiters -> {"idle", "asking", "answered", "sleep", "fetching", "done", "hung"}]
    BY <1>4 DEF Decide
  <2>4. "other" \in Status
    BY DEF Status, Running
  <2> QED BY <1>4, <2>2, <2>3, <2>4 DEF Decide
<1>5. ASSUME NEW w \in Waiters, Settles(w) PROVE TypeOK'
  BY <1>5 DEF Settles, StatusServed, Throws, BodyHangs, ResultServed, ResultRefused,
              Status, Running, Ready, Outcomes
<1>6. ASSUME NEW w \in Waiters, CallerAborts(w) \/ TimeIsUp(w) PROVE TypeOK'
  <2>1. CASE CallerAborts(w)
    <3>1. \A v \in Python : v # w /\ v \in Waiters
      BY <2>1, PollsAssumption DEF CallerAborts
    <3> QED BY <2>1, <3>1 DEF CallerAborts
  <2>2. CASE TimeIsUp(w)
    BY <2>2 DEF TimeIsUp
  <2> QED BY <1>6, <2>1, <2>2
<1>7. CASE UNCHANGED vars
  BY <1>7 DEF vars
<1> QED BY <1>1, <1>2, <1>3, <1>4, <1>5, <1>6, <1>7 DEF Next, Step, Over

(* Every variable of wait() keeps its type, and no pause is longer than the   *)
(* limit except the first one the caller asked for.                           *)
THEOREM TypeCorrect == Spec => []TypeOK
  BY TypeInit, TypeStep, PTL DEF Spec

-----------------------------------------------------------------------------
LEMMA VerdictInit == Init => VerdictInv
  BY DEF Init, VerdictInv, VerdictIsTrue

LEMMA VerdictStep == TypeOK /\ VerdictInv /\ [Next]_vars => VerdictInv'
<1> SUFFICES ASSUME TypeOK, VerdictInv, [Next]_vars PROVE VerdictInv'
  OBVIOUS
<1> USE DEF VerdictInv, VerdictIsTrue, TypeOK, jobVars, waiterVars
<1>1. ASSUME JobMoves \/ BodyDeleted \/ OthersFetch PROVE VerdictInv'
  BY <1>1 DEF JobMoves, BodyDeleted, OthersFetch, Running, Ready, Refunded
<1>2. ASSUME NEW w \in Waiters, Start(w) \/ Wake(w) PROVE VerdictInv'
  BY <1>2 DEF Start, Wake, Ask
<1>3. ASSUME NEW w \in Waiters, Decide(w) PROVE VerdictInv'
  <2>1. Concludes(w) = "fetch" => job \in Ready
    BY <1>3, VerdictValues DEF Decide
  <2>2. Concludes(w) = "noResult" => job \in Refunded
    BY <1>3, VerdictValues DEF Decide
  <2>3. Concludes(w) \notin {"completion", "refused"}
    BY VerdictValues
  <2> QED BY <1>3, <2>1, <2>2, <2>3 DEF Decide
<1>4. ASSUME NEW w \in Waiters, Settles(w) PROVE VerdictInv'
  BY <1>4 DEF Settles, StatusServed, Throws, BodyHangs, ResultServed, ResultRefused,
              Ready, Refunded
<1>5. ASSUME NEW w \in Waiters, CallerAborts(w) \/ TimeIsUp(w) PROVE VerdictInv'
  BY <1>5 DEF CallerAborts, TimeIsUp
<1>6. CASE UNCHANGED vars
  BY <1>6 DEF vars
<1> QED BY <1>1, <1>2, <1>3, <1>4, <1>5, <1>6 DEF Next, Step, Over

(* Whatever a wait said of the job stays true of it: nobody is told "no       *)
(* result, refunded" of a job that was charged.                               *)
THEOREM VerdictsStayTrue == Spec => []VerdictIsTrue
<1>1. VerdictInv => VerdictIsTrue
  BY DEF VerdictInv
<1> QED BY TypeInit, TypeStep, VerdictInit, VerdictStep, <1>1, PTL DEF Spec

-----------------------------------------------------------------------------
LEMMA OverInit == Init => OverInv
  BY DEF Init, OverInv, StoppingHidesNothing

LEMMA OverStep == TypeOK /\ OverInv /\ [Next]_vars => OverInv'
<1> SUFFICES ASSUME TypeOK, OverInv, [Next]_vars PROVE OverInv'
  OBVIOUS
<1> USE DEF OverInv, StoppingHidesNothing, TypeOK, jobVars, waiterVars
<1>1. ASSUME JobMoves \/ BodyDeleted \/ OthersFetch PROVE OverInv'
  BY <1>1 DEF JobMoves, BodyDeleted, OthersFetch, Running
<1>2. ASSUME NEW w \in Waiters, Start(w) \/ Wake(w) PROVE OverInv'
  BY <1>2 DEF Start, Wake, Ask
<1>3. ASSUME NEW w \in Waiters, Decide(w) PROVE OverInv'
  <2>1. Concludes(w) \in {"stopped", "timedOut"} => ~over[w]
    BY <1>3, VerdictValues DEF Decide
  <2> QED BY <1>3, <2>1 DEF Decide
<1>4. ASSUME NEW w \in Waiters, Settles(w) PROVE OverInv'
  BY <1>4 DEF Settles, StatusServed, Throws, BodyHangs, ResultServed, ResultRefused,
              Running
<1>5. ASSUME NEW w \in Waiters, CallerAborts(w) \/ TimeIsUp(w) PROVE OverInv'
  BY <1>5 DEF CallerAborts, TimeIsUp
<1>6. CASE UNCHANGED vars
  BY <1>6 DEF vars
<1> QED BY <1>1, <1>2, <1>3, <1>4, <1>5, <1>6 DEF Next, Step, Over

(* An abort or a deadline never hides a job that was over before the last     *)
(* poll was sent.                                                             *)
THEOREM NoResultIsHidden == Spec => []StoppingHidesNothing
<1>1. OverInv => StoppingHidesNothing
  BY DEF OverInv
<1> QED BY TypeInit, TypeStep, OverInit, OverStep, <1>1, PTL DEF Spec

-----------------------------------------------------------------------------
LEMMA PollInit == Init => PollInv
<1> SUFFICES ASSUME Init PROVE PollInv
  OBVIOUS
<1>1. \A w \in Waiters : extra[w] = 0
  BY DEF Init
<1>2. 0 <= 1 /\ ~(0 > 0)
  BY SMT
<1> QED BY <1>1, <1>2, Zenon DEF PollInv

LEMMA PollStep == TypeOK /\ PollInv /\ [Next]_vars => PollInv'
<1> SUFFICES ASSUME TypeOK, PollInv, [Next]_vars PROVE PollInv'
  OBVIOUS
<1> USE DEF PollInv, TypeOK, jobVars, waiterVars
<1>1. ASSUME JobMoves \/ BodyDeleted \/ OthersFetch PROVE PollInv'
  BY <1>1 DEF JobMoves, BodyDeleted, OthersFetch
<1>2. ASSUME NEW w \in Waiters, Start(w) \/ Wake(w) PROVE PollInv'
  BY <1>2 DEF Start, Wake, Ask
<1>3. ASSUME NEW w \in Waiters, Decide(w) PROVE PollInv'
  <2>1. Concludes(w) = "sleep" => extra[w] = 0
    BY VerdictValues
  <2> QED BY <1>3, <2>1 DEF Decide
<1>4. ASSUME NEW w \in Waiters, Settles(w) PROVE PollInv'
  BY <1>4 DEF Settles, StatusServed, Throws, BodyHangs, ResultServed, ResultRefused
<1>5. ASSUME NEW w \in Waiters, CallerAborts(w) \/ TimeIsUp(w) PROVE PollInv'
  BY <1>5 DEF CallerAborts, TimeIsUp
<1>6. CASE UNCHANGED vars
  BY <1>6 DEF vars
<1> QED BY <1>1, <1>2, <1>3, <1>4, <1>5, <1>6 DEF Next, Step, Over

(* After an abort or the deadline a wait polls at most once more.             *)
THEOREM AtMostOnePollMore == Spec => []OnePollMore
<1>1. TypeOK /\ PollInv => OnePollMore
  BY DEF PollInv, OnePollMore, TypeOK
<1> QED BY TypeInit, TypeStep, PollInit, PollStep, <1>1, PTL DEF Spec
=============================================================================
