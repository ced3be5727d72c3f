------------------------------ MODULE ChatProofs ----------------------------
(***************************************************************************)
(* What holds of a turn for every number of retries, every chain, every    *)
(* identity and every set of answers the gateway may give.                 *)
(***************************************************************************)
EXTENDS Chat, FiniteSetTheorems, TLAPS

-----------------------------------------------------------------------------
(* The taxonomy.                                                              *)

LEMMA ErrorClassType == ASSUME NEW a \in Answer PROVE ErrorClass(a) \in Classes
  <1>1. InvalidRequestClass(a) \in Classes
    BY DEF InvalidRequestClass, Classes
  <1>2. QED
    BY <1>1 DEF ErrorClass, Classes

LEMMA BodilessType == ASSUME NEW a \in Answer PROVE Bodiless(a) \in Answer
  BY DEF Bodiless, Answer, Types, Codes, Params

(* "A charged error is never retryable": whatever class a refusal is given,   *)
(* with its body or without, errorFrom does not call it retryable once the    *)
(* answer carries a receipt (src/src/errors.ts).                              *)
THEOREM ChargedIsNeverRetryable ==
  ASSUME NEW a \in Answer, a.charged
  PROVE  ~Retryable(a) /\ ~Retryable(Bodiless(a))
  <1>1. ~Retryable(a)
    BY DEF Retryable
  <1>2. Bodiless(a).charged
    BY DEF Bodiless, Answer
  <1>3. ~Retryable(Bodiless(a))
    BY <1>2 DEF Retryable
  <1>4. QED
    BY <1>1, <1>3

-----------------------------------------------------------------------------
(* Types.  The loop only pauses while it has an attempt left, and what it     *)
(* reads of a response is one of the gateway's answers.                       *)

TypeInv == /\ TypeOK
           /\ pc = "sleep" => attempt < MaxRetries
           /\ response.answer \in Answers \cup {NoAnswer}

LEMMA NoAnswerType == NoAnswer \in Answer /\ ~NoAnswer.charged
  BY DEF NoAnswer, Answer, Types, Codes, Params

LEMMA RetryableType == ASSUME NEW a \in Answer PROVE Retryable(a) \in BOOLEAN
  BY DEF Retryable, Answer

LEMMA OutcomeTypes ==
  /\ \A a \in Answer : Data(a) \in Outcome /\ Failure(a) \in Outcome
  /\ Stream \in Outcome /\ RawError \in Outcome /\ NoOutcome \in Outcome
  /\ Fault("Timeout") \in Outcome /\ Fault("Connection") \in Outcome
  /\ CallerAborted \in Outcome
  <1>1. ASSUME NEW a \in Answer PROVE Data(a) \in Outcome /\ Failure(a) \in Outcome
    <2>1. ErrorClass(a) \in Classes /\ Retryable(a) \in BOOLEAN /\ a.charged \in BOOLEAN
      BY ErrorClassType, RetryableType DEF Answer
    <2>2. QED
      BY <2>1 DEF Data, Failure, Outcome
  <1>2. QED
    BY <1>1 DEF Stream, RawError, NoOutcome, Fault, CallerAborted, Outcome, Classes

LEMMA KeyOfType == ASSUME NEW i \in Nat PROVE KeyOf(i) \in Seq(Nat)
  BY ChatAssumption DEF KeyOf

(* However a wait inside the loop ends, it ends in a pause or in an outcome.  *)
PausesOrEnds ==
  /\ attempt' = attempt
  /\ \/ pc' = "sleep" /\ attempt < MaxRetries /\ outcome' = outcome
     \/ pc' = "done" /\ outcome' \in Outcome

LEMMA RetryOrEnds ==
  ASSUME TypeInv, NEW o \in Outcome, RetryOr(o) PROVE PausesOrEnds
  BY DEF RetryOr, Settle, PausesOrEnds

LEMMA ConcludeEnds ==
  ASSUME TypeInv, NEW a \in Answer, Conclude(a) PROVE PausesOrEnds
  <1>1. CASE Ok(a)
    BY <1>1, OutcomeTypes DEF Conclude, Settle, PausesOrEnds
  <1>2. CASE ~Ok(a) /\ RetryOr(Failure(a))
    BY <1>2, OutcomeTypes, RetryOrEnds
  <1>3. CASE ~Ok(a) /\ Settle(Failure(a))
    BY <1>3, OutcomeTypes DEF Settle, PausesOrEnds
  <1>4. QED
    BY <1>1, <1>2, <1>3 DEF Conclude

LEMMA BodyReadsEnds == ASSUME TypeInv, BodyReads PROVE PausesOrEnds
  <1>0. AnswersAssumption /\ response.answer \in Answer /\ CallerAborted \in Outcome
    BY AnswersAssumption, OutcomeTypes, NoAnswerType DEF TypeInv, TypeOK
  <1>1. CASE aborted
    <2>1. Settle(CallerAborted)
      BY <1>1 DEF BodyReads, BodyEnds, SettledEnds, CommittedCut, Unless
    <2>2. QED
      BY <1>0, <2>1 DEF Settle, PausesOrEnds
  <1>2. CASE ~aborted
    <2>1. ASSUME NEW reading \in {"whole", "garbled", "cut"}, BodyEnds(reading)
          PROVE  PausesOrEnds
      <3> DEFINE a == response.answer
      <3>1. a \in Answer /\ Bodiless(a) \in Answer
        BY <1>0, BodilessType
      <3>2. Conclude(a) \/ Conclude(Bodiless(a)) \/ Settle(RawError)
        BY <1>2, <2>1 DEF BodyEnds, Unless
      <3>3. CASE Settle(RawError)
        BY <3>1, <3>3, OutcomeTypes DEF Settle, PausesOrEnds
      <3>4. QED
        BY <3>1, <3>2, <3>3, ConcludeEnds
    <2>2. ASSUME NEW a \in Answers, SettledEnds(a) PROVE PausesOrEnds
      BY <1>2, <2>2, AnswersAssumption, ConcludeEnds DEF SettledEnds, Unless
    <2>3. ASSUME CommittedCut PROVE PausesOrEnds
      BY <1>2, <2>3, NoAnswerType, OutcomeTypes, RetryOrEnds DEF CommittedCut, Unless
    <2>4. QED
      BY <2>1, <2>2, <2>3 DEF BodyReads
  <1>3. QED
    BY <1>1, <1>2

LEMMA PendingType == Pending \in [committed : BOOLEAN, answer : Answer]
                     /\ Pending.answer = NoAnswer
  BY NoAnswerType DEF Pending

LEMMA TypeInvInit == Init => TypeInv
  <1> SUFFICES ASSUME Init PROVE TypeInv
    OBVIOUS
  <1>1. 0 \in 0 .. MaxRetries /\ 0 \in 0 .. MaxMembers - 1
    BY ChatAssumption, MaxRetriesAssumption
  <1>2. response \in [committed : BOOLEAN, answer : Answer] /\ response.answer = NoAnswer
    BY PendingType DEF Init, RequestInit
  <1>3. outcome \in Outcome
    BY OutcomeTypes DEF Init, RequestInit
  <1>4. key \in Seq(Nat)
    BY DEF Init, RequestInit
  <1>5. QED
    BY <1>1, <1>2, <1>3, <1>4 DEF Init, RequestInit, GatewayInit, TypeInv, TypeOK

LEMMA TypeInvStep == TypeInv /\ [Next]_vars => TypeInv'
  <1> SUFFICES ASSUME TypeInv, [Next]_vars PROVE TypeInv'
    OBVIOUS
  <1> USE DEF TypeInv, TypeOK
  <1>1. CASE Open
    BY <1>1 DEF Open, requestVars, localVars, gatewayVars
  <1>2. CASE CallMember
    <2>1. KeyOf(index) \in Seq(Nat) /\ 0 \in 0 .. MaxRetries
      BY KeyOfType, MaxRetriesAssumption
    <2>2. /\ pc' = "top" /\ key' = KeyOf(index) /\ raw' \in BOOLEAN /\ attempt' = 0
          /\ timedOut' = FALSE /\ response' = Pending /\ outcome' = NoOutcome
          /\ UNCHANGED <<chatVars, gatewayVars, aborted, sent, paid, unanswered>>
      BY <1>2 DEF CallMember, Start
    <2>3. QED
      BY <2>1, <2>2, PendingType, OutcomeTypes DEF chatVars, gatewayVars
  <1>3. CASE MemberReturns
    <2>1. index' \in 0 .. MaxMembers - 1
      BY <1>3, ChatAssumption DEF MemberReturns, Requests
    <2>2. QED
      BY <1>3, <2>1 DEF MemberReturns, gatewayVars
  <1>4. CASE Send /\ UNCHANGED chatVars
    <2>1. Outgoing \in [key : Seq(Nat), n : 0 .. MaxRetries]
      BY DEF Outgoing, Live
    <2>2. QED
      BY <1>4, <2>1, NoAnswerType, OutcomeTypes
         DEF Send, SendOrRefuse, Settle, chatVars, gatewayVars
  <1>5. CASE TimerFires /\ UNCHANGED chatVars
    BY <1>5 DEF TimerFires, chatVars, gatewayVars
  <1>6. CASE FetchRejects /\ UNCHANGED chatVars
    <2>1. PausesOrEnds
      BY <1>6, NoAnswerType, OutcomeTypes, RetryOrEnds
         DEF FetchRejects, Settle, PausesOrEnds
    <2>2. QED
      BY <1>6, <2>1 DEF FetchRejects, PausesOrEnds, chatVars
  <1>7. CASE StreamOpens /\ UNCHANGED chatVars
    BY <1>7, NoAnswerType, OutcomeTypes DEF StreamOpens, Settle, chatVars, gatewayVars
  <1>8. CASE CommitArrives /\ UNCHANGED chatVars
    BY <1>8, NoAnswerType DEF CommitArrives, Committed, chatVars, gatewayVars
  <1>9. CASE Wake /\ UNCHANGED chatVars
    <2>1. attempt' \in 0 .. MaxRetries
      BY <1>9, MaxRetriesAssumption DEF Wake, Settle
    <2>2. QED
      BY <1>9, <2>1, PendingType, OutcomeTypes
         DEF Wake, Settle, chatVars, gatewayVars
  <1>10. CASE BodyReads /\ UNCHANGED chatVars
    <2>1. PausesOrEnds
      BY <1>10, BodyReadsEnds
    <2>2. /\ UNCHANGED <<gatewayVars, key, raw, timedOut, response, aborted, sent>>
          /\ paid' \in BOOLEAN /\ unanswered' \in SUBSET Seq(Nat)
      BY <1>10, AnswersAssumption
         DEF BodyReads, BodyEnds, SettledEnds, CommittedCut, Answer
    <2>3. QED
      BY <1>10, <2>1, <2>2 DEF PausesOrEnds, chatVars, gatewayVars
  <1>11. ASSUME NEW a \in Answers, HeadArrives(a), UNCHANGED chatVars PROVE TypeInv'
    BY <1>11, AnswersAssumption, OutcomeTypes
       DEF HeadArrives, HeadOf, Settle, chatVars, gatewayVars
  <1>12. CASE GatewayStep /\ UNCHANGED chatVars
    BY <1>12 DEF GatewayStep, Arrive, Finish, chatVars, requestVars, localVars
  <1>13. CASE CallerAborts /\ UNCHANGED chatVars
    BY <1>13 DEF CallerAborts, chatVars, localVars, gatewayVars
  <1>14. CASE UNCHANGED vars
    BY <1>14 DEF vars, chatVars, requestVars, localVars, gatewayVars
  <1>15. QED
    BY <1>1, <1>2, <1>3, <1>4, <1>5, <1>6, <1>7, <1>8, <1>9, <1>10, <1>11,
       <1>12, <1>13, <1>14 DEF Next, Over, RequestStep

LEMMA TypeInvHolds == Spec => []TypeInv
  BY TypeInvInit, TypeInvStep, PTL DEF Spec

(* Every variable keeps its type, and the loop never counts beyond its retry  *)
(* budget, however fetch, timer, body and abort interleave (transport.ts:140).*)
THEOREM TypeCorrect == Spec => []TypeOK
  <1>1. TypeInv => TypeOK
    BY DEF TypeInv
  <1>2. QED
    BY <1>1, TypeInvHolds, PTL

-----------------------------------------------------------------------------
(* One charge for each member.  Every attempt carries the key of a member     *)
(* already tried, and the gateway runs or has charged one attempt per key.    *)

KeysInv ==
  /\ turn = "new" => pc = "idle"
  /\ pc \notin {"idle", "done"} => turn = "open" /\ key = KeyOf(index)
  /\ \A r \in sent : \E i \in 0 .. index : r.key = KeyOf(i)
  /\ \A r, s \in running \cup charged : r.key = s.key => r = s

(* The two kinds of step that matter to the keys, and all the others.         *)
LEMMA WhoSends ==
  ASSUME [Next]_vars
  PROVE  \/ Send /\ ~aborted /\ UNCHANGED chatVars
         \/ GatewayStep /\ UNCHANGED <<chatVars, requestVars>>
         \/ UNCHANGED <<sent, running, charged>>
  BY DEF Next, Open, CallMember, Start, MemberReturns, Over, RequestStep, Send,
         SendOrRefuse, TimerFires, FetchRejects, StreamOpens, CommitArrives, Wake,
         BodyReads, BodyEnds, SettledEnds, CommittedCut, HeadArrives, GatewayStep,
         CallerAborts, vars, requestVars, gatewayVars

LEMMA KeysInvInit == Init => KeysInv
  BY DEF Init, RequestInit, GatewayInit, KeysInv

(* pc, key, index and turn move together.                                     *)
LEMMA LoopInsideTurn ==
  ASSUME TypeInv, KeysInv, [Next]_vars
  PROVE  /\ turn' = "new" => pc' = "idle"
         /\ pc' \notin {"idle", "done"} => turn' = "open" /\ key' = KeyOf(index')
  <1> USE DEF KeysInv
  <1>1. CASE Open
    BY <1>1 DEF Open, requestVars, localVars
  <1>2. CASE CallMember
    BY <1>2 DEF CallMember, Start, chatVars
  <1>3. CASE MemberReturns
    BY <1>3 DEF MemberReturns
  <1>4. CASE (RequestStep \/ GatewayStep \/ CallerAborts) /\ UNCHANGED chatVars
    <2>1. UNCHANGED key
      BY <1>4 DEF RequestStep, Send, SendOrRefuse, TimerFires, FetchRejects,
        StreamOpens, CommitArrives, Wake, BodyReads, BodyEnds, SettledEnds,
        CommittedCut, HeadArrives, GatewayStep, CallerAborts, requestVars, localVars
    <2>2. pc' = pc \/ pc \notin {"idle", "done"}
      BY <1>4 DEF RequestStep, Send, TimerFires, FetchRejects,
        StreamOpens, CommitArrives, Wake, BodyReads, BodyEnds, SettledEnds,
        CommittedCut, HeadArrives, GatewayStep, CallerAborts, requestVars, localVars
    <2>3. QED
      BY <1>4, <2>1, <2>2 DEF chatVars
  <1>5. CASE UNCHANGED vars
    BY <1>5 DEF vars, chatVars, requestVars, localVars
  <1>6. QED
    BY <1>1, <1>2, <1>3, <1>4, <1>5 DEF Next, Over

LEMMA KeysInvStep == TypeInv /\ KeysInv /\ [Next]_vars => KeysInv'
  <1> SUFFICES ASSUME TypeInv, KeysInv, [Next]_vars PROVE KeysInv'
    OBVIOUS
  <1>0. index \in Nat /\ index' \in {index, index + 1}
    BY DEF TypeInv, TypeOK, Next, Open, CallMember, MemberReturns, Over, chatVars, vars
  <1>1. CASE Send /\ ~aborted /\ UNCHANGED chatVars
    <2>1. sent' = sent \cup {Live} /\ Live.key = KeyOf(index)
      BY <1>1 DEF Send, SendOrRefuse, Outgoing, Live, KeysInv
    <2>2. \A r \in sent' : \E i \in 0 .. index' : r.key = KeyOf(i)
      BY <1>0, <1>1, <2>1 DEF KeysInv, chatVars
    <2>3. UNCHANGED <<running, charged>>
      BY <1>1 DEF Send, SendOrRefuse
    <2>4. QED
      BY <2>2, <2>3, LoopInsideTurn DEF KeysInv
  <1>2. CASE GatewayStep /\ UNCHANGED <<chatVars, requestVars>>
    <2>1. \A r, s \in running' \cup charged' : r.key = s.key => r = s
      <3>1. ASSUME NEW t \in inflight, Arrive(t)
            PROVE  \A r, s \in running' \cup charged' : r.key = s.key => r = s
        BY <3>1 DEF Arrive, Knows, KeysInv
      <3>2. ASSUME NEW t \in running, Finish(t)
            PROVE  running' \cup charged' \subseteq running \cup charged
        BY <3>2 DEF Finish
      <3>3. QED
        BY <1>2, <3>1, <3>2 DEF GatewayStep, KeysInv
    <2>2. UNCHANGED <<sent, index>>
      BY <1>2 DEF requestVars, chatVars
    <2>3. QED
      BY <2>1, <2>2, LoopInsideTurn DEF KeysInv
  <1>3. CASE UNCHANGED <<sent, running, charged>>
    <2>1. \A r \in sent' : \E i \in 0 .. index' : r.key = KeyOf(i)
      BY <1>0, <1>3 DEF KeysInv
    <2>2. QED
      BY <1>3, <2>1, LoopInsideTurn DEF KeysInv
  <1>4. QED
    BY <1>1, <1>2, <1>3, WhoSends

LEMMA KeysInvHolds == Spec => []KeysInv
  BY TypeInvHolds, KeysInvInit, KeysInvStep, PTL DEF Spec

(* A charge is told by its key, and a key by the member it was made for.      *)
LEMMA OneChargePerKey ==
  ASSUME TypeInv, KeysInv PROVE Cardinality(charged) <= index + 1
  <1> DEFINE memberOf == [r \in charged |-> CHOOSE i \in 0 .. index : r.key = KeyOf(i)]
  <1>1. \A r \in charged : memberOf[r] \in 0 .. index /\ r.key = KeyOf(memberOf[r])
    BY DEF TypeInv, TypeOK, KeysInv
  <1>2. memberOf \in Injection(charged, 0 .. index)
    BY <1>1 DEF Injection, IsInjective, KeysInv
  <1>3. index \in Nat
    BY DEF TypeInv, TypeOK
  <1>4. IsFiniteSet(0 .. index) /\ Cardinality(0 .. index) = index + 1
    BY <1>3, FS_Interval
  <1>5. QED
    BY <1>2, <1>4, FS_Injection

(* "A retry of a POST reuses its idempotency key, so a retry cannot bill      *)
(* twice" (transport.ts:135-141, client.ts:129): whatever is lost, late or    *)
(* abandoned, the account is charged at most once per member of the chain.    *)
THEOREM AtMostOneCharge == Spec => []OneChargePerMember
  <1>1. TypeInv /\ KeysInv => OneChargePerMember
    BY OneChargePerKey DEF OneChargePerMember
  <1>2. QED
    BY <1>1, TypeInvHolds, KeysInvHolds, PTL

-----------------------------------------------------------------------------
(* After a charge.  The transport never retries a charged error, but the      *)
(* chain does advance on a capability refusal, whatever it cost: that nothing *)
(* is sent after a charge rests on the gateway refusing a capability for free.*)

CapabilityIsFree == \A a \in Answers : ErrorClass(a) = "Capability" => ~a.charged

Final(o) == o.kind = "error" => ~Advances(o)
PaidInv == paid => aborted \/ (pc = "done" /\ Final(outcome))

LEMMA PaidInvInit == Init => PaidInv
  BY DEF Init, RequestInit, PaidInv

(* A charged answer, read to its end by a caller who is still there, is final.*)
LEMMA ChargedIsFinal ==
  ASSUME TypeInv, CapabilityIsFree, NEW a \in Answers, NEW b \in {a, Bodiless(a)},
         a.charged, Conclude(b)
  PROVE  pc' = "done" /\ Final(outcome')
  <1>1. a \in Answer /\ b \in Answer /\ b.charged
    <2>1. a \in Answer
      BY AnswersAssumption
    <2>2. Bodiless(a) \in Answer /\ Bodiless(a).charged = a.charged
      BY <2>1, BodilessType DEF Bodiless
    <2>3. QED
      BY <2>1, <2>2
  <1>2. ErrorClass(b) # "Capability"
    <2>1. Bodiless(a).type = "http_status"
      BY DEF Bodiless, HttpType
    <2>2. ErrorClass(Bodiless(a)) \in {"Unavailable", "Error"}
      BY <2>1 DEF ErrorClass
    <2>3. QED
      BY <2>2 DEF CapabilityIsFree
  <1>3. Retryable(b) = FALSE
    BY <1>1, RetryableType, ChargedIsNeverRetryable
  <1>4. Settle(Data(b)) \/ Settle(Failure(b))
    BY <1>3 DEF Conclude
  <1>5. QED
    <2>1. /\ Data(b).kind = "data"
          /\ Failure(b).retryable = FALSE /\ Failure(b).class # "Capability"
      BY <1>2, <1>3 DEF Data, Failure
    <2>2. Final(Data(b)) /\ Final(Failure(b))
      BY <2>1 DEF Final, Advances
    <2>3. QED
      BY <1>4, <2>2 DEF Settle

LEMMA ReadingIsFinal ==
  ASSUME TypeInv, CapabilityIsFree, BodyReads, ~paid, paid', ~aborted
  PROVE  pc' = "done" /\ Final(outcome')
  <1>1. ASSUME NEW reading \in {"whole", "garbled", "cut"}, BodyEnds(reading)
        PROVE  pc' = "done" /\ Final(outcome')
    <2> DEFINE a == response.answer
    <2>1. a.charged
      BY <1>1 DEF BodyEnds
    <2>2. a \in Answers
      BY <2>1, NoAnswerType DEF TypeInv
    <2>3. Conclude(a) \/ Conclude(Bodiless(a)) \/ Settle(RawError)
      BY <1>1 DEF BodyEnds, Unless
    <2>4. CASE Settle(RawError)
      BY <2>4 DEF Settle, RawError, Final
    <2>5. QED
      BY <2>1, <2>2, <2>3, <2>4, ChargedIsFinal
  <1>2. ASSUME NEW a \in Answers, SettledEnds(a)
        PROVE  pc' = "done" /\ Final(outcome')
    BY <1>2, ChargedIsFinal DEF SettledEnds, Unless
  <1>3. QED
    BY <1>1, <1>2 DEF BodyReads, CommittedCut

LEMMA PaidInvStep ==
  ASSUME CapabilityIsFree
  PROVE  TypeInv /\ PaidInv /\ [Next]_vars => PaidInv'
  <1> SUFFICES ASSUME TypeInv, PaidInv, [Next]_vars, paid', ~aborted'
               PROVE  pc' = "done" /\ Final(outcome')
    BY DEF PaidInv, TypeInv, TypeOK
  <1>0. ~aborted
    BY DEF Next, Open, CallMember, Start, MemberReturns, Over, RequestStep, Send,
           TimerFires, FetchRejects, StreamOpens, CommitArrives, Wake, BodyReads,
           BodyEnds, SettledEnds, CommittedCut, HeadArrives, GatewayStep,
           CallerAborts, vars, requestVars
  <1>1. CASE ~paid
    <2>1. BodyReads
      BY <1>1 DEF Next, Open, CallMember, Start, MemberReturns, Over, RequestStep,
           Send, TimerFires, FetchRejects, StreamOpens, CommitArrives, Wake,
           HeadArrives, GatewayStep, CallerAborts, vars, requestVars
    <2>2. QED
      BY <1>0, <1>1, <2>1, ReadingIsFinal
  <1>2. CASE paid
    <2>1. pc = "done" /\ Final(outcome)
      BY <1>0, <1>2 DEF PaidInv
    <2>2. CASE MemberReturns
      BY <2>1, <2>2 DEF MemberReturns, Final
    <2>3. CASE ~MemberReturns
      BY <2>1, <2>3 DEF Next, Open, CallMember, Start, Over, RequestStep,
           Send, TimerFires, FetchRejects, StreamOpens, CommitArrives, Wake, BodyReads,
           BodyEnds, SettledEnds, CommittedCut, HeadArrives, GatewayStep,
           CallerAborts, vars, requestVars, localVars
    <2>4. QED
      BY <2>2, <2>3
  <1>3. QED
    BY <1>1, <1>2 DEF TypeInv, TypeOK

(* "A charged error is never retried: neither the transport nor a client-side *)
(* fallback chain re-sends it" (CHANGELOG.md:63-66): once a receipt was read  *)
(* the turn sends nothing more, if the gateway refuses capabilities for free. *)
THEOREM NothingIsSentAfterACharge ==
  ASSUME CapabilityIsFree PROVE Spec => PaidEndsTurn
  <1>1. TypeInv /\ PaidInv /\ [Next]_vars => [paid => sent' = sent]_vars
    <2> SUFFICES ASSUME PaidInv, [Next]_vars, paid PROVE sent' = sent
      OBVIOUS
    <2>1. aborted \/ pc # "top"
      BY DEF PaidInv
    <2>2. QED
      BY <2>1, WhoSends DEF Send, requestVars
  <1>2. QED
    BY <1>1, TypeInvHolds, PaidInvInit, PaidInvStep, PTL DEF Spec, PaidEndsTurn

(* "Cancellation cannot return a completion or send a retry or fallback       *)
(* request": after the caller's abort nothing is sent and no body is handed   *)
(* up, at whichever await the abort found the request (transport.ts:141-214). *)
THEOREM CancellationIsFinal == Spec => AbortIsFinal
  <1>1. TypeInv /\ [Next]_vars =>
          [aborted => /\ sent' = sent
                      /\ outcome'.kind = "data" => outcome.kind = "data"]_vars
    <2> SUFFICES ASSUME TypeInv, [Next]_vars, aborted
                 PROVE  sent' = sent /\ (outcome'.kind = "data" => outcome.kind = "data")
      OBVIOUS
    <2>1. sent' = sent
      BY WhoSends DEF requestVars
    <2>2. outcome' \in {outcome, NoOutcome, CallerAborted, Stream}
      <3>1. CASE BodyReads
        BY <3>1 DEF BodyReads, BodyEnds, SettledEnds, CommittedCut, Unless, Settle
      <3>2. CASE ~BodyReads
        BY <3>2 DEF Next, Open, CallMember, Start, MemberReturns, Over, RequestStep,
             Send, SendOrRefuse, Settle, TimerFires, FetchRejects, StreamOpens,
             CommitArrives, Wake, HeadArrives, GatewayStep, CallerAborts, vars,
             requestVars, localVars
      <3>3. QED
        BY <3>1, <3>2
    <2>3. QED
      <3>1. /\ NoOutcome.kind = "none" /\ CallerAborted.kind = "error"
            /\ Stream.kind = "stream"
        BY DEF NoOutcome, CallerAborted, Fault, Stream
      <3>2. QED
        BY <2>1, <2>2, <3>1
  <1>2. QED
    BY <1>1, TypeInvHolds, PTL DEF Spec, AbortIsFinal

-----------------------------------------------------------------------------
(* The refinement of BilledTurn.                                              *)

(* The attempts made for the member being tried, as the abstract turn counts  *)
(* them.                                                                      *)
Tried == {r.n : r \in {s \in sent : s.key = KeyOf(index)}}
Settled == HandedUp("data") \/ HandedUp("stream")

(* A member's attempts are numbered upwards from none, and a turn is over     *)
(* exactly as its last request went.                                          *)
AttemptsInv ==
  /\ turn = "new" => sent = {}
  /\ turn = "completed" => Settled
  /\ turn = "thrown" => ~Settled
  /\ turn = "open" /\ pc = "idle" => Tried = {}
  /\ turn = "open" => \A n \in Tried : n <= attempt
  /\ pc = "top" => attempt \notin Tried
  /\ pc \in {"fetch", "body", "sleep"} => Tried # {}

LEMMA KeysDiffer ==
  ASSUME NEW i \in Nat, NEW j \in Nat, KeyOf(i) = KeyOf(j) PROVE i = j
  <1>1. CASE i # 0 /\ j # 0
    <2>1. KeyOf(i)[Len(Identity) + 1] = i /\ KeyOf(j)[Len(Identity) + 1] = j
      BY <1>1, ChatAssumption DEF KeyOf
    <2>2. QED
      BY <2>1
  <1>2. CASE i = 0 \/ j = 0
    <2>1. \A k \in Nat : Len(KeyOf(k)) = IF k = 0 THEN Len(Identity) ELSE Len(Identity) + 1
      BY ChatAssumption DEF KeyOf
    <2>2. Len(KeyOf(i)) = Len(KeyOf(j)) /\ Len(Identity) \in Nat
      BY ChatAssumption
    <2>3. QED
      BY <1>2, <2>1, <2>2
  <1>3. QED
    BY <1>1, <1>2

LEMMA AttemptsInvInit == Init => AttemptsInv
  BY DEF Init, RequestInit, AttemptsInv, Tried, Settled, HandedUp

LEMMA AttemptsInvStep == TypeInv /\ KeysInv /\ AttemptsInv /\ [Next]_vars => AttemptsInv'
  <1> SUFFICES ASSUME TypeInv, KeysInv, AttemptsInv, [Next]_vars PROVE AttemptsInv'
    OBVIOUS
  <1> USE DEF AttemptsInv
  <1>0. index \in Nat /\ attempt \in Nat /\ MaxRetries \in Nat
    BY MaxRetriesAssumption DEF TypeInv, TypeOK
  <1>1. CASE Open
    <2>1. UNCHANGED <<Tried, pc, attempt, outcome, sent>>
      BY <1>1 DEF Open, Tried, requestVars, localVars
    <2>2. pc = "idle" /\ Tried = {}
      BY <1>1 DEF Open, KeysInv, Tried
    <2>3. QED
      BY <1>1, <2>1, <2>2 DEF Open, Settled, HandedUp
  <1>2. CASE CallMember
    <2>1. UNCHANGED <<Tried, sent>> /\ Tried = {}
      BY <1>2 DEF CallMember, Start, Tried, chatVars
    <2>2. QED
      BY <1>2, <2>1 DEF CallMember, Start, chatVars, Settled, HandedUp
  <1>3. CASE MemberReturns
    <2>1. CASE index' = index
      <3>1. UNCHANGED <<Tried, sent, attempt, pc, outcome>>
        BY <1>3, <1>0, <2>1 DEF MemberReturns, Tried
      <3>2. QED
        BY <1>3, <1>0, <2>1, <3>1 DEF MemberReturns, Settled, HandedUp
    <2>2. CASE index' = index + 1
      <3>1. \A r \in sent : r.key # KeyOf(index + 1)
        BY <1>0, KeysDiffer DEF KeysInv
      <3>2. Tried' = {}
        BY <1>3, <2>2, <3>1 DEF MemberReturns, Tried
      <3>3. turn' = "open" /\ pc' = "idle"
        BY <1>3, <1>0, <2>2 DEF MemberReturns
      <3>4. QED
        BY <3>2, <3>3
    <2>3. QED
      BY <1>3, <2>1, <2>2 DEF MemberReturns
  <1>4. CASE Send /\ UNCHANGED chatVars
    <2>1. CASE aborted
      BY <1>4, <2>1 DEF Send, SendOrRefuse, Settle, CallerAborted, Fault, KeysInv,
                        chatVars, Tried, Settled, HandedUp
    <2>2. CASE ~aborted
      <3>1. Live.key = KeyOf(index) /\ Live.n = attempt /\ sent' = sent \cup {Live}
        BY <1>4, <2>2 DEF Send, SendOrRefuse, Outgoing, Live, KeysInv
      <3>2. Tried' = Tried \cup {attempt}
        BY <1>4, <3>1 DEF Tried, chatVars
      <3>3. QED
        BY <1>0, <1>4, <2>2, <3>2 DEF Send, SendOrRefuse, KeysInv, chatVars
    <2>3. QED
      BY <2>1, <2>2
  <1>5. CASE Wake /\ UNCHANGED chatVars
    <2>1. UNCHANGED Tried
      BY <1>5 DEF Wake, Tried, chatVars
    <2>2. turn = "open"
      BY <1>5 DEF Wake, KeysInv
    <2>3. CASE aborted
      BY <1>5, <2>1, <2>2, <2>3 DEF Wake, Settle, chatVars
    <2>4. CASE ~aborted
      <3>1. pc' = "top" /\ attempt' = attempt + 1 /\ turn' = "open"
        BY <1>5, <2>2, <2>4 DEF Wake, chatVars
      <3>2. \A n \in Tried : n \in Nat /\ n <= attempt
        BY <2>2 DEF Tried, TypeInv, TypeOK
      <3>3. QED
        BY <1>0, <2>1, <3>1, <3>2
    <2>5. QED
      BY <2>3, <2>4
  <1>6. ASSUME UNCHANGED <<chatVars, sent, attempt>>,
               pc \in {"fetch", "body"}, pc' \in {"fetch", "body", "sleep", "done"}
        PROVE  AttemptsInv'
    <2>1. UNCHANGED Tried
      BY <1>6 DEF Tried, chatVars
    <2>2. turn' = "open"
      BY <1>6 DEF KeysInv, chatVars
    <2>3. turn' # "new" /\ turn' # "completed" /\ turn' # "thrown" /\ pc' # "idle"
          /\ pc' # "top" /\ Tried # {} /\ \A n \in Tried : n <= attempt
      BY <1>6, <2>2 DEF KeysInv, chatVars
    <2>4. QED
      BY <1>6, <2>1, <2>3
  <1>7. ASSUME UNCHANGED <<chatVars, sent, attempt, pc, outcome>> PROVE AttemptsInv'
    BY <1>7 DEF chatVars, Tried, Settled, HandedUp
  <1>8. CASE (FetchRejects \/ StreamOpens \/ CommitArrives \/ BodyReads) /\ UNCHANGED chatVars
    <2>1. CASE FetchRejects
      BY <1>6, <1>8, <2>1 DEF FetchRejects, RetryOr, Settle
    <2>2. CASE StreamOpens \/ CommitArrives
      BY <1>6, <1>8, <2>2 DEF StreamOpens, CommitArrives, Settle
    <2>3. CASE BodyReads
      <3>1. pc = "body" /\ UNCHANGED sent
        BY <2>3 DEF BodyReads, BodyEnds, SettledEnds, CommittedCut
      <3>2. PausesOrEnds
        BY <2>3, BodyReadsEnds
      <3>3. QED
        BY <1>6, <1>8, <3>1, <3>2 DEF PausesOrEnds
    <2>4. QED
      BY <1>8, <2>1, <2>2, <2>3
  <1>9. ASSUME NEW a \in Answers, HeadArrives(a), UNCHANGED chatVars PROVE AttemptsInv'
    BY <1>6, <1>9 DEF HeadArrives, Settle
  <1>10. CASE (TimerFires \/ CallerAborts \/ GatewayStep) /\ UNCHANGED chatVars
    BY <1>7, <1>10 DEF TimerFires, CallerAborts, GatewayStep, requestVars, localVars
  <1>11. CASE UNCHANGED vars
    BY <1>7, <1>11 DEF vars, requestVars, localVars
  <1>12. QED
    BY <1>1, <1>2, <1>3, <1>4, <1>5, <1>8, <1>9, <1>10, <1>11
       DEF Next, Over, RequestStep

LEMMA AttemptsInvHolds == Spec => []AttemptsInv
  BY TypeInvHolds, KeysInvHolds, AttemptsInvInit, AttemptsInvStep, PTL DEF Spec

-----------------------------------------------------------------------------
(* Every step maps to a step of the abstract turn or to none.                 *)

LEMMA InitRefines == Init => Billed!Init
  BY DEF Init, RequestInit, Billed!Init, AbstractState, HandedUp

LEMMA OutcomeKinds ==
  /\ \A a : Data(a).kind = "data" /\ Failure(a).kind = "error"
  /\ \A c : Fault(c).kind = "error"
  /\ CallerAborted.kind = "error" /\ RawError.kind = "raw" /\ Stream.kind = "stream"
  BY DEF Data, Failure, Fault, CallerAborted, RawError, Stream

LEMMA ReadingKinds ==
  ASSUME BodyReads, pc' = "done" PROVE outcome'.kind # "stream"
  <1>1. ASSUME NEW a, Conclude(a) PROVE outcome'.kind # "stream"
    BY <1>1, OutcomeKinds DEF Conclude, RetryOr, Settle
  <1>2. CASE aborted
    BY <1>2, OutcomeKinds DEF BodyReads, BodyEnds, SettledEnds, CommittedCut, Unless, Settle
  <1>3. CASE ~aborted
    <2>1. ASSUME NEW reading \in {"whole", "garbled", "cut"}, BodyEnds(reading)
          PROVE  outcome'.kind # "stream"
      <3>1. \/ \E a : Conclude(a)
            \/ Settle(RawError)
        BY <1>3, <2>1 DEF BodyEnds, Unless
      <3>2. QED
        BY <1>1, <3>1, OutcomeKinds DEF Settle
    <2>2. ASSUME NEW a \in Answers, SettledEnds(a) PROVE outcome'.kind # "stream"
      BY <1>1, <1>3, <2>2 DEF SettledEnds, Unless
    <2>3. ASSUME CommittedCut PROVE outcome'.kind # "stream"
      BY <1>3, <2>3, OutcomeKinds DEF CommittedCut, Unless, RetryOr, Settle
    <2>4. QED
      BY <2>1, <2>2, <2>3 DEF BodyReads
  <1>4. QED
    BY <1>2, <1>3

(* While the loop is inside a request the turn is open.                       *)
LEMMA OpenInside ==
  ASSUME KeysInv, pc \notin {"idle", "done"} PROVE AbstractState = "open"
  BY DEF KeysInv, AbstractState, HandedUp

LEMMA OutcomeRefines ==
  ASSUME TypeInv, KeysInv, AttemptsInv, UNCHANGED <<chatVars, sent, aborted>>,
         pc \in {"fetch", "body"}, pc' \in {"fetch", "body", "sleep", "done"},
         pc' = "done" /\ outcome'.kind = "data" => ~aborted,
         paid' \in {paid, TRUE},
         pc' = "done" /\ outcome'.kind = "stream" => UNCHANGED paid
  PROVE  [Billed!Next]_(Billed!turnVars)
  <1>1. AbstractState = "open" /\ turn = "open" /\ turn' = "open"
    BY OpenInside DEF KeysInv, chatVars
  <1>2. Tried # {} /\ Tried' = Tried /\ index' = index
    BY DEF AttemptsInv, Tried, chatVars
  <1>3. CASE pc' = "done" /\ outcome'.kind = "data"
    <2>1. AbstractState' = "returned"
      BY <1>3 DEF AbstractState, HandedUp
    <2>2. Billed!Return
      BY <1>1, <1>2, <1>3, <2>1 DEF Billed!Return, Tried
    <2>3. QED
      BY <2>2 DEF Billed!Next
  <1>4. CASE pc' = "done" /\ outcome'.kind = "stream"
    <2>1. AbstractState' = "streaming"
      BY <1>4 DEF AbstractState, HandedUp
    <2>2. Billed!OpenStream
      BY <1>1, <1>2, <1>4, <2>1 DEF Billed!OpenStream, Tried
    <2>3. QED
      BY <2>2 DEF Billed!Next
  <1>5. CASE ~(pc' = "done" /\ outcome'.kind \in {"data", "stream"})
    <2>1. AbstractState' = "open"
      BY <1>1, <1>5 DEF AbstractState, HandedUp
    <2>2. CASE UNCHANGED paid
      BY <1>1, <1>2, <2>1, <2>2 DEF Billed!turnVars, Tried
    <2>3. CASE ~UNCHANGED paid
      <3>1. Billed!ReadBill
        BY <1>1, <1>2, <2>1, <2>3 DEF Billed!ReadBill, Tried
      <3>2. QED
        BY <3>1 DEF Billed!Next
    <2>4. QED
      BY <2>2, <2>3
  <1>6. QED
    BY <1>3, <1>4, <1>5

LEMMA StepRefines ==
  TypeInv /\ KeysInv /\ PaidInv /\ AttemptsInv /\ [Next]_vars
    => [Billed!Next]_(Billed!turnVars)
  <1> SUFFICES ASSUME TypeInv, KeysInv, PaidInv, AttemptsInv, [Next]_vars
               PROVE  [Billed!Next]_(Billed!turnVars)
    OBVIOUS
  <1>0. index \in Nat /\ attempt \in 0 .. MaxRetries
    BY DEF TypeInv, TypeOK
  <1>1. CASE Open
    <2>1. pc = "idle" /\ AbstractState = "open"
      BY <1>1 DEF Open, KeysInv, AbstractState, HandedUp
    <2>2. UNCHANGED <<pc, outcome, sent, index, paid, aborted>>
      BY <1>1 DEF Open, requestVars, localVars
    <2>3. AbstractState' \in {"open", "failed"}
      BY <2>1, <2>2 DEF AbstractState, HandedUp
    <2>4. UNCHANGED <<index, Tried, paid, aborted>>
      BY <2>2 DEF Tried
    <2>5. QED
      BY <2>1, <2>3, <2>4 DEF Billed!Next, Billed!Fail, Billed!turnVars, Tried
  <1>2. CASE CallMember
    <2>1. UNCHANGED <<index, Tried, paid, aborted, AbstractState>>
      BY <1>2 DEF CallMember, Start, chatVars, Tried, AbstractState, HandedUp
    <2>2. QED
      BY <2>1 DEF Billed!turnVars, Tried
  <1>3. CASE MemberReturns
    <2>1. UNCHANGED <<sent, paid, aborted, outcome>> /\ pc = "done" /\ turn = "open"
      BY <1>3 DEF MemberReturns
    <2>2. CASE outcome.kind \in {"data", "stream"}
      <3>1. UNCHANGED <<index, Tried, AbstractState>>
        BY <1>3, <2>2 DEF MemberReturns, Tried, AbstractState, HandedUp
      <3>2. QED
        BY <2>1, <3>1 DEF Billed!turnVars, Tried
    <2>3. CASE outcome.kind \notin {"data", "stream"} /\ turn' = "thrown"
      <3>1. AbstractState = "open" /\ AbstractState' = "failed"
        BY <2>1, <2>3 DEF AbstractState, HandedUp
      <3>2. UNCHANGED <<index, Tried>>
        BY <1>3, <2>1, <2>3 DEF MemberReturns, Tried
      <3>3. Billed!Fail
        BY <2>1, <3>1, <3>2 DEF Billed!Fail, Tried
      <3>4. QED
        BY <3>3 DEF Billed!Next
    <2>4. CASE outcome.kind \notin {"data", "stream"} /\ turn' # "thrown"
      <3>1. /\ outcome.kind = "error" /\ Advances(outcome)
            /\ index + 1 < request.members /\ index' = index + 1
            /\ pc' = "idle" /\ turn' = "open"
        BY <1>3, <2>4 DEF MemberReturns
      <3>2. AbstractState = "open" /\ AbstractState' = "open"
        BY <2>1, <2>4, <3>1 DEF AbstractState, HandedUp
      <3>3. paid => aborted
        BY <3>1 DEF PaidInv, Final
      <3>4. index + 1 < MaxMembers
        BY <1>0, <3>1, ChatAssumption DEF TypeInv, TypeOK, Requests
      <3>5. Tried' = {}
        BY <3>1, AttemptsInvStep DEF AttemptsInv
      <3>6. Billed!Fallback
        BY <2>1, <3>1, <3>2, <3>3, <3>4, <3>5 DEF Billed!Fallback, Tried
      <3>7. QED
        BY <3>6 DEF Billed!Next
    <2>5. QED
      BY <2>2, <2>3, <2>4
  <1>4. CASE Send /\ UNCHANGED chatVars
    <2>1. AbstractState = "open" /\ turn' = "open" /\ UNCHANGED <<index, paid, aborted>>
      BY <1>4, OpenInside DEF Send, KeysInv, chatVars
    <2>2. CASE aborted
      <3>1. UNCHANGED <<Tried, AbstractState>>
        BY <1>4, <2>1, <2>2 DEF Send, SendOrRefuse, Settle, CallerAborted, Fault, Tried,
                                AbstractState, HandedUp, chatVars
      <3>2. QED
        BY <2>1, <3>1 DEF Billed!turnVars, Tried
    <2>3. CASE ~aborted
      <3>1. Live.key = KeyOf(index) /\ Live.n = attempt /\ sent' = sent \cup {Live}
        BY <1>4, <2>3 DEF Send, SendOrRefuse, Outgoing, Live, KeysInv
      <3>2. Tried' = Tried \cup {attempt} /\ attempt \notin Tried
        BY <1>4, <2>1, <3>1 DEF Tried, AttemptsInv, Send
      <3>3. ~paid
        BY <1>4, <2>3 DEF PaidInv, Send
      <3>4. AbstractState' = "open"
        BY <1>4, <2>1, <2>3 DEF Send, SendOrRefuse, AbstractState, HandedUp
      <3>5. Billed!Attempt
        BY <1>0, <2>1, <2>3, <3>2, <3>3, <3>4 DEF Billed!Attempt, Tried
      <3>6. QED
        BY <3>5 DEF Billed!Next
    <2>4. QED
      BY <2>2, <2>3
  <1>5. CASE Wake /\ UNCHANGED chatVars
    <2>1. AbstractState = "open" /\ turn' = "open" /\ UNCHANGED <<index, sent, paid, aborted>>
      BY <1>5, OpenInside DEF Wake, KeysInv, chatVars
    <2>2. AbstractState' = "open"
      BY <1>5, <2>1 DEF Wake, Settle, CallerAborted, Fault, AbstractState, HandedUp
    <2>3. QED
      BY <2>1, <2>2 DEF Billed!turnVars
  <1>6. CASE FetchRejects /\ UNCHANGED chatVars
    <2>1. pc' \in {"sleep", "done"} /\ (pc' = "done" => outcome'.kind = "error")
      BY <1>6, OutcomeKinds DEF FetchRejects, RetryOr, Settle
    <2>2. QED
      BY <1>6, <2>1, OutcomeRefines DEF FetchRejects
  <1>7. CASE (StreamOpens \/ CommitArrives) /\ UNCHANGED chatVars
    BY <1>7, OutcomeKinds, OutcomeRefines DEF StreamOpens, CommitArrives, Settle
  <1>8. ASSUME NEW a \in Answers, HeadArrives(a), UNCHANGED chatVars
        PROVE  [Billed!Next]_(Billed!turnVars)
    BY <1>8, OutcomeKinds, OutcomeRefines DEF HeadArrives, Settle
  <1>9. CASE BodyReads /\ UNCHANGED chatVars
    <2>1. pc = "body" /\ paid' \in {paid, TRUE} /\ UNCHANGED <<sent, aborted>>
      BY <1>9, AnswersAssumption, NoAnswerType
         DEF BodyReads, BodyEnds, SettledEnds, CommittedCut, TypeInv, TypeOK, Answer
    <2>2. aborted => Settle(CallerAborted)
      BY <1>9 DEF BodyReads, BodyEnds, SettledEnds, CommittedCut, Unless
    <2>3. PausesOrEnds
      BY <1>9, BodyReadsEnds
    <2>4. pc' = "done" => outcome'.kind # "stream"
      BY <1>9, ReadingKinds
    <2>5. pc' = "done" /\ outcome'.kind = "data" => ~aborted
      BY <2>2, OutcomeKinds DEF Settle
    <2>6. QED
      BY <1>9, <2>1, <2>3, <2>4, <2>5, OutcomeRefines DEF PausesOrEnds
  <1>10. CASE (TimerFires \/ GatewayStep) /\ UNCHANGED chatVars
    BY <1>10 DEF TimerFires, GatewayStep, requestVars, localVars, chatVars,
                 Billed!turnVars, AbstractState, HandedUp
  <1>11. CASE CallerAborts /\ UNCHANGED chatVars
    <2>1. Billed!Cancel
      BY <1>11 DEF CallerAborts, localVars, chatVars, Billed!Cancel, AbstractState, HandedUp
    <2>2. QED
      BY <2>1 DEF Billed!Next
  <1>12. CASE UNCHANGED vars
    BY <1>12 DEF vars, requestVars, localVars, chatVars, Billed!turnVars,
                 AbstractState, HandedUp
  <1>13. QED
    BY <1>1, <1>2, <1>3, <1>4, <1>5, <1>6, <1>7, <1>8, <1>9, <1>10, <1>11, <1>12
       DEF Next, Over, RequestStep

(* A turn implements BilledTurn: the chain is only walked forward, a member   *)
(* is tried at most MaxRetries + 1 times, and neither a charge nor the        *)
(* caller's abort is followed by another request (client.ts:107-140 over      *)
(* transport.ts:132-237).                                                     *)
THEOREM TurnImplementsBilledTurn ==
  ASSUME CapabilityIsFree PROVE Spec => ImplementsBilledTurn
  <1>1. Spec => []PaidInv
    BY TypeInvHolds, PaidInvInit, PaidInvStep, PTL DEF Spec
  <1>2. QED
    BY <1>1, InitRefines, StepRefines, TypeInvHolds, KeysInvHolds, AttemptsInvHolds, PTL
       DEF Spec, ImplementsBilledTurn, Billed!Spec

-----------------------------------------------------------------------------
(* The verdict.  As long as every attempt under the key got an answer, the    *)
(* client knows the account: once the head of an answer is in, no attempt     *)
(* under the key is left at the gateway to be charged later, and the key was  *)
(* charged exactly if that answer carries the receipt.                        *)

Ours(S) == {r \in S : r.key = key}
Told(bill) == Ours(inflight \cup running) = {} /\ (bill <=> ChargedKey)
OneOutstanding == Ours(inflight \cup running \cup charged) \subseteq {Live}
IsVerdict(o) == o.kind = "error" /\ o.class \notin {"Timeout", "Connection"}

AnsweredInv ==
  /\ pc \in {"top", "sleep"} => Told(FALSE)
  /\ pc = "fetch" \/ (pc = "body" /\ response.committed) => OneOutstanding
  /\ pc = "body" /\ ~response.committed => Told(response.answer.charged)
  /\ pc = "done" /\ IsVerdict(outcome) => Told(outcome.charged)

VerdictInv ==
  /\ turn = "new" => outcome.kind = "none"
  /\ turn = "thrown" => pc = "done" \/ outcome.kind = "none"
  /\ key \notin unanswered => AnsweredInv

LEMMA VerdictInvInit == Init => VerdictInv
  <1> SUFFICES ASSUME Init PROVE VerdictInv
    OBVIOUS
  <1>1. pc = "idle" /\ outcome.kind = "none"
    BY DEF Init, RequestInit, NoOutcome
  <1>2. AnsweredInv
    BY <1>1 DEF AnsweredInv
  <1>3. QED
    BY <1>1, <1>2 DEF VerdictInv

(* What the gateway gets on with cannot unsettle what was told.               *)
LEMMA GatewayKeepsItsWord ==
  ASSUME AnsweredInv, GatewayStep PROVE AnsweredInv'
  <1>1. UNCHANGED <<pc, key, attempt, response, outcome>>
    BY DEF GatewayStep, requestVars, localVars
  <1>2. /\ (inflight \cup running \cup charged)' \subseteq inflight \cup running \cup charged
        /\ (inflight \cup running)' \subseteq inflight \cup running
        /\ charged' \subseteq charged \cup running /\ charged \subseteq charged'
    BY DEF GatewayStep, Arrive, Finish
  <1>3. OneOutstanding => OneOutstanding'
    BY <1>1, <1>2 DEF OneOutstanding, Ours, Live
  <1>4. ASSUME NEW bill, Told(bill)
        PROVE  Ours(inflight \cup running)' = {} /\ (bill <=> ChargedKey')
    BY <1>1, <1>2, <1>4 DEF Told, Ours, ChargedKey
  <1>5. QED
    BY <1>1, <1>3, <1>4 DEF AnsweredInv, Told

(* An answer to the only attempt outstanding tells the bill.                  *)
LEMMA AnswersTell ==
  ASSUME TypeInv, OneOutstanding, NEW a \in Answer, CanAnswer(Live, a)
  PROVE  Told(a.charged)
  <1>1. Live.key = key
    BY DEF Live
  <1>2. Ours(inflight \cup running) = {}
    BY DEF OneOutstanding, Ours, CanAnswer
  <1>3. a.charged => ChargedKey
    BY <1>1 DEF CanAnswer, ChargedKey
  <1>4. ~a.charged => ~ChargedKey
    BY DEF CanAnswer, ChargedKey, OneOutstanding, Ours
  <1>5. QED
    BY <1>2, <1>3, <1>4 DEF Told, Answer

(* An answer that is read to its end, or refused a second time, is passed on  *)
(* with its bill; the loop only goes round after one that cost nothing.       *)
LEMMA ConcludeTells ==
  ASSUME NEW a \in Answer, NEW b \in {a, Bodiless(a)}, Told(a.charged), Conclude(b),
         UNCHANGED <<gatewayVars, key>>
  PROVE  /\ pc' \in {"sleep", "done"}
         /\ pc' = "sleep" => Told(FALSE)'
         /\ pc' = "done" /\ IsVerdict(outcome') => Told(outcome.charged)'
  <1>1. b \in Answer /\ b.charged = a.charged /\ a.charged \in BOOLEAN
    BY BodilessType DEF Bodiless, Answer
  <1>2. ASSUME NEW bill PROVE Told(bill) <=> /\ Ours(inflight \cup running)' = {}
                                             /\ bill <=> ChargedKey'
    BY DEF Told, Ours, ChargedKey, gatewayVars
  <1>3. CASE Settle(Data(b))
    BY <1>3 DEF Settle, Data, IsVerdict
  <1>4. CASE Settle(Failure(b))
    <2>1. pc' = "done" /\ outcome'.charged = a.charged
      BY <1>1, <1>4 DEF Settle, Failure
    <2>2. QED
      BY <1>2, <2>1 DEF Told
  <1>5. CASE Retryable(b) /\ pc' = "sleep"
    <2>1. a.charged = FALSE
      BY <1>1, <1>5 DEF Retryable
    <2>2. QED
      BY <1>2, <1>5, <2>1 DEF Told
  <1>6. QED
    BY <1>3, <1>4, <1>5 DEF Conclude, RetryOr

LEMMA ReadingTells ==
  ASSUME TypeInv, VerdictInv, BodyReads, key \notin unanswered'
  PROVE  AnsweredInv'
  <1>0. /\ pc = "body" /\ UNCHANGED <<gatewayVars, key, response>> /\ key \notin unanswered
        /\ response.answer \in Answer
    BY AnswersAssumption, NoAnswerType
       DEF BodyReads, BodyEnds, SettledEnds, CommittedCut, TypeInv, TypeOK
  <1>1. AnsweredInv
    BY <1>0 DEF VerdictInv
  <1>2. CASE aborted
    <2>1. Settle(CallerAborted)
      BY <1>2 DEF BodyReads, BodyEnds, SettledEnds, CommittedCut, Unless
    <2>2. QED
      BY <2>1 DEF Settle, CallerAborted, Fault, IsVerdict, AnsweredInv
  <1>3. CASE ~aborted
    <2>1. ASSUME NEW reading \in {"whole", "garbled", "cut"}, BodyEnds(reading)
          PROVE  AnsweredInv'
      <3> DEFINE a == response.answer
      <3>1. Told(a.charged)
        BY <1>0, <1>1, <2>1 DEF BodyEnds, AnsweredInv
      <3>2. Conclude(a) \/ Conclude(Bodiless(a)) \/ Settle(RawError)
        BY <1>3, <2>1 DEF BodyEnds, Unless
      <3>3. CASE Settle(RawError)
        BY <3>3 DEF Settle, RawError, IsVerdict, AnsweredInv
      <3>4. CASE Conclude(a) \/ Conclude(Bodiless(a))
        BY <1>0, <3>1, <3>4, ConcludeTells DEF AnsweredInv
      <3>5. QED
        BY <3>2, <3>3, <3>4
    <2>2. ASSUME NEW a \in Answers, SettledEnds(a) PROVE AnsweredInv'
      <3>1. OneOutstanding /\ CanAnswer(Live, a) /\ a \in Answer /\ Conclude(a)
        BY <1>1, <1>3, <2>2, AnswersAssumption DEF SettledEnds, AnsweredInv, Unless
      <3>2. Told(a.charged)
        BY <3>1, AnswersTell
      <3>3. QED
        BY <1>0, <3>1, <3>2, ConcludeTells DEF AnsweredInv
    <2>3. ~CommittedCut
      BY <1>0 DEF CommittedCut
    <2>4. QED
      BY <2>1, <2>2, <2>3 DEF BodyReads
  <1>4. QED
    BY <1>2, <1>3

(* A member that is called for the first time has sent nothing yet.           *)
LEMMA FreshKeyOwesNothing ==
  ASSUME TypeInv, AttemptsInv, CallMember PROVE AnsweredInv'
  <1>1. Tried = {} /\ key' = KeyOf(index) /\ pc' = "top" /\ UNCHANGED gatewayVars
    BY DEF AttemptsInv, CallMember, Start
  <1>2. \A r \in inflight \cup running \cup charged : r.key # key'
    <2>1. inflight \cup running \cup charged \subseteq sent
      BY DEF TypeInv, TypeOK
    <2>2. \A r \in sent : r.key # KeyOf(index)
      BY <1>1 DEF Tried
    <2>3. QED
      BY <1>1, <2>1, <2>2
  <1>3. Ours(inflight \cup running)' = {} /\ ~ChargedKey'
    BY <1>1, <1>2 DEF Ours, ChargedKey, gatewayVars
  <1>4. QED
    BY <1>1, <1>3 DEF AnsweredInv, Told

LEMMA VerdictInvStep ==
  TypeInv /\ KeysInv /\ AttemptsInv /\ VerdictInv /\ [Next]_vars => VerdictInv'
  <1> SUFFICES ASSUME TypeInv, KeysInv, AttemptsInv, VerdictInv, [Next]_vars
               PROVE  VerdictInv'
    OBVIOUS
  <1>1. CASE Open
    <2>1. UNCHANGED <<requestVars, gatewayVars>> /\ pc = "idle" /\ outcome.kind = "none"
      BY <1>1 DEF Open, KeysInv, VerdictInv
    <2>2. QED
      BY <2>1 DEF VerdictInv, AnsweredInv, requestVars, localVars
  <1>2. CASE CallMember
    <2>1. turn' = "open"
      BY <1>2 DEF CallMember, chatVars
    <2>2. QED
      BY <1>2, <2>1, FreshKeyOwesNothing DEF VerdictInv
  <1>3. CASE MemberReturns
    <2>1. /\ UNCHANGED <<key, outcome, unanswered, response, attempt, gatewayVars>>
          /\ pc = "done" /\ pc' \in {"idle", "done"}
          /\ turn' # "new" /\ (turn' = "thrown" => pc' = "done")
      BY <1>3 DEF MemberReturns
    <2>2. ASSUME AnsweredInv PROVE AnsweredInv'
      BY <2>1, <2>2 DEF AnsweredInv, Told, Ours, ChargedKey, gatewayVars
    <2>3. QED
      BY <2>1, <2>2 DEF VerdictInv
  <1>4. ASSUME UNCHANGED chatVars, pc \notin {"idle", "done"},
               key' = key, key \notin unanswered' => AnsweredInv'
        PROVE  VerdictInv'
    <2>1. turn' = "open"
      BY <1>4 DEF KeysInv, chatVars
    <2>2. QED
      BY <1>4, <2>1 DEF VerdictInv
  <1>5. CASE Send /\ UNCHANGED chatVars
    <2>1. CASE aborted
      <3>1. pc' = "done" /\ outcome' = CallerAborted
        BY <1>5, <2>1 DEF Send, SendOrRefuse, Settle
      <3>2. AnsweredInv'
        BY <3>1 DEF AnsweredInv, CallerAborted, Fault, IsVerdict
      <3>3. QED
        BY <1>4, <1>5, <3>2 DEF Send
    <2>2. CASE ~aborted
      <3>1. /\ pc' = "fetch" /\ inflight' = inflight \cup {Live}
            /\ UNCHANGED <<key, attempt, running, charged, unanswered>>
        BY <1>5, <2>2 DEF Send, SendOrRefuse, Outgoing
      <3>2. ASSUME key \notin unanswered PROVE AnsweredInv'
        <4>1. Ours(inflight \cup running) = {} /\ ~ChargedKey
          BY <1>5, <3>2 DEF VerdictInv, AnsweredInv, Told, Send
        <4>2. OneOutstanding'
          BY <3>1, <4>1 DEF OneOutstanding, Ours, ChargedKey, Live
        <4>3. QED
          BY <3>1, <4>2 DEF AnsweredInv
      <3>3. QED
        BY <1>4, <1>5, <3>1, <3>2 DEF Send
    <2>3. QED
      BY <2>1, <2>2
  <1>6. CASE FetchRejects /\ UNCHANGED chatVars
    BY <1>4, <1>6 DEF FetchRejects
  <1>7. CASE StreamOpens /\ UNCHANGED chatVars
    <2>1. AnsweredInv'
      BY <1>7 DEF StreamOpens, Settle, Stream, AnsweredInv, IsVerdict
    <2>2. QED
      BY <1>4, <1>7, <2>1 DEF StreamOpens
  <1>8. CASE CommitArrives /\ UNCHANGED chatVars
    <2>1. key \notin unanswered => OneOutstanding
      BY <1>8 DEF CommitArrives, VerdictInv, AnsweredInv
    <2>2. key \notin unanswered => OneOutstanding'
      BY <1>8, <2>1 DEF CommitArrives, OneOutstanding, Ours, Live, gatewayVars
    <2>3. key \notin unanswered' => AnsweredInv'
      BY <1>8, <2>2 DEF CommitArrives, AnsweredInv, Committed
    <2>4. QED
      BY <1>4, <1>8, <2>3 DEF CommitArrives
  <1>9. CASE Wake /\ UNCHANGED chatVars
    <2>1. CASE aborted
      <3>1. pc' = "done" /\ outcome' = CallerAborted
        BY <1>9, <2>1 DEF Wake, Settle
      <3>2. AnsweredInv'
        BY <3>1 DEF AnsweredInv, CallerAborted, Fault, IsVerdict
      <3>3. QED
        BY <1>4, <1>9, <3>2 DEF Wake
    <2>2. CASE ~aborted
      <3>1. pc' = "top" /\ UNCHANGED <<key, unanswered, gatewayVars>> /\ pc = "sleep"
        BY <1>9, <2>2 DEF Wake
      <3>2. key \notin unanswered => AnsweredInv'
        BY <3>1 DEF VerdictInv, AnsweredInv, Told, Ours, ChargedKey, gatewayVars
      <3>3. QED
        BY <1>4, <1>9, <3>1, <3>2
    <2>3. QED
      BY <2>1, <2>2
  <1>10. CASE BodyReads /\ UNCHANGED chatVars
    <2>1. pc = "body" /\ key' = key
      BY <1>10 DEF BodyReads, BodyEnds, SettledEnds, CommittedCut
    <2>2. QED
      BY <1>4, <1>10, <2>1, ReadingTells
  <1>11. ASSUME NEW a \in Answers, HeadArrives(a), UNCHANGED chatVars PROVE VerdictInv'
    <2>1. UNCHANGED <<key, attempt, unanswered, gatewayVars>> /\ pc = "fetch"
      BY <1>11 DEF HeadArrives, Settle
    <2>2. ASSUME key \notin unanswered PROVE AnsweredInv'
      <3>1. Told(a.charged) /\ a \in Answer
        BY <1>11, <2>1, <2>2, AnswersTell, AnswersAssumption
           DEF VerdictInv, AnsweredInv, HeadArrives
      <3>2. \/ pc' = "done" /\ outcome' = Stream
            \/ pc' = "body" /\ response' = HeadOf(a)
        BY <1>11 DEF HeadArrives, Settle
      <3>3. CASE pc' = "done" /\ outcome' = Stream
        BY <3>3 DEF AnsweredInv, Stream, IsVerdict
      <3>4. CASE pc' = "body" /\ response' = HeadOf(a)
        <4>1. ~response'.committed /\ response'.answer.charged = a.charged
          BY <3>4 DEF HeadOf
        <4>2. /\ Ours(inflight \cup running)' = {}
              /\ response'.answer.charged <=> ChargedKey'
          BY <2>1, <3>1, <4>1 DEF Told, Ours, ChargedKey, gatewayVars
        <4>3. QED
          BY <3>4, <4>1, <4>2 DEF AnsweredInv, Told
      <3>5. QED
        BY <3>2, <3>3, <3>4
    <2>3. QED
      BY <1>4, <1>11, <2>1, <2>2
  <1>12. CASE GatewayStep /\ UNCHANGED chatVars
    BY <1>12, GatewayKeepsItsWord DEF GatewayStep, VerdictInv, requestVars, localVars, chatVars
  <1>13. ASSUME UNCHANGED <<turn, pc, key, attempt, response, outcome, unanswered, gatewayVars>>
         PROVE  VerdictInv'
    <2>1. ASSUME AnsweredInv PROVE AnsweredInv'
      BY <1>13, <2>1 DEF AnsweredInv, Told, OneOutstanding, Ours, ChargedKey, Live,
                         gatewayVars
    <2>2. QED
      BY <1>13, <2>1 DEF VerdictInv
  <1>14. CASE (TimerFires \/ CallerAborts) /\ UNCHANGED chatVars
    BY <1>13, <1>14 DEF TimerFires, CallerAborts, chatVars, localVars
  <1>15. CASE UNCHANGED vars
    BY <1>13, <1>15 DEF vars, chatVars, requestVars, localVars
  <1>16. QED
    BY <1>1, <1>2, <1>3, <1>5, <1>6, <1>7, <1>8, <1>9, <1>10, <1>11, <1>12, <1>14, <1>15
       DEF Next, Over, RequestStep

(* Timeouts and broken connections claim nothing of the account; every other  *)
(* error does.  Where each attempt got its answer, an error without a receipt *)
(* means that the account was not charged under the member's key and will not *)
(* be, and one with a receipt that it was (transport.ts:162-231).             *)
THEOREM TheVerdictIsTheBill == Spec => []VerdictIsTheBill
  <1>1. VerdictInv => VerdictIsTheBill
    BY OutcomeTypes DEF VerdictInv, AnsweredInv, VerdictIsTheBill, IsVerdict, Told
  <1>2. Spec => []VerdictInv
    BY TypeInvHolds, KeysInvHolds, AttemptsInvHolds, VerdictInvInit, VerdictInvStep, PTL
       DEF Spec
  <1>3. QED
    BY <1>1, <1>2, PTL
=============================================================================
