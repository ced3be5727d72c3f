----------------------------- MODULE PyChatProofs ---------------------------
(***************************************************************************)
(* What holds of a Python turn for every number of retries, every request, *)
(* native or foreign, every identity and every set of answers the gateway  *)
(* may give.                                                               *)
(***************************************************************************)
EXTENDS PyStream, FiniteSetTheorems, WellFoundedInduction, TLAPS

-----------------------------------------------------------------------------
(* The taxonomy.                                                              *)

(* One refusal, one error: error_from (errors.py:202) and errorFrom           *)
(* (src/src/errors.ts:198) give every refusal the same class, and the two     *)
(* SDKs agree on which may be sent again.                                     *)
THEOREM SdksAgree ==
  ASSUME NEW a \in Answer
  PROVE  PyErrorClass(a) = ErrorClass(a) /\ PyRetryable(a) = Retryable(a)
  <1>1. PyErrorClass(a) = ErrorClass(a)
    <2>1. a.type \in Types
      BY DEF Answer
    <2>2. QED
      BY <2>1 DEF PyErrorClass, ErrorClass, InvalidRequestClass, ByType, Types, HttpType
  <1>2. QED
    BY <1>1 DEF PyRetryable, Retryable, Answer

(* "A charged error is never retryable" (errors.py:43), and stays so when its *)
(* body is not JSON, if error_from was given the receipt.                     *)
LEMMA ErrorTypes ==
  ASSUME NEW a \in Answer
  PROVE  /\ PyErrorClass(a) \in Classes /\ PyRetryable(a) \in BOOLEAN
         /\ a.charged => ~PyRetryable(a)
  <1>1. InvalidRequestClass(a) \in Classes
    BY DEF InvalidRequestClass, Classes
  <1>2. ErrorClass(a) \in Classes
    BY <1>1 DEF ErrorClass, Classes
  <1>3. QED
    BY <1>2, SdksAgree DEF PyRetryable, Answer

-----------------------------------------------------------------------------
(* Types.  The loop only pauses while it has an attempt left.                 *)

TypeInv == TypeOK /\ (pc = "sleep" => attempt < MaxRetries)

LEMMA NoAnswerType == NoAnswer \in Answer
  BY DEF NoAnswer, Answer, Types, Codes, Params

LEMMA HeadTypes ==
  /\ NoHead \in [committed : BOOLEAN, answer : Answer]
  /\ Committed \in [committed : BOOLEAN, answer : Answer]
  /\ \A a \in Answer : HeadOf(a) \in [committed : BOOLEAN, answer : Answer]
  BY NoAnswerType DEF NoHead, Committed, HeadOf

LEMMA ForgottenTypes ==
  ASSUME NEW a \in Answer PROVE Unreceipted(a) \in Answer /\ Bodiless(a) \in Answer
  <1>1. Unreceipted(a) \in Answer
    BY DEF Unreceipted, Answer
  <1>2. Bodiless(a) \in Answer
    BY DEF Bodiless, Answer, Types, Codes, Params
  <1>3. QED
    BY <1>1, <1>2

LEMMA OutcomeTypes ==
  /\ \A kind \in {"none", "data", "stream", "raw", "refused"}, c \in BOOLEAN : Result(kind, c) \in Outcome
  /\ \A c \in Classes : Fault(c) \in Outcome
  /\ \A a \in Answer : Failure(a) \in Outcome
  <1>1. ASSUME NEW a \in Answer PROVE Failure(a) \in Outcome
    <2>1. PyErrorClass(a) \in Classes /\ PyRetryable(a) \in BOOLEAN /\ a.charged \in BOOLEAN
      BY ErrorTypes DEF Answer
    <2>2. QED
      BY <2>1 DEF Failure, Outcome
  <1>2. QED
    BY <1>1 DEF Result, Fault, Outcome

LEMMA FaultTypes == Fault("Timeout") \in Outcome /\ Fault("Connection") \in Outcome
  BY OutcomeTypes DEF Classes

(* A shim makes a ChatRequest of every foreign request it does not refuse.    *)
LEMMA ForeignTypes == ASSUME NEW a \in Foreign PROVE Translated(a) \in ChatRequest
  <1>1. /\ a.model \in Entries /\ a.models \in Seq(Entries) /\ a.allow \in BOOLEAN
        /\ a.fields \in SUBSET STRING
    BY DEF Foreign
  <1>2. a.policy.quota \in Nat
    BY DEF Foreign, Policy
  <1>3. <<>> \in Seq(Entries) /\ <<>> \in Seq(Nat) /\ <<>> \in Seq(Amount)
    OBVIOUS
  <1>4. CeilingFromPolicy(a.policy) \in Seq(Amount)
    <2>1. [integer |-> TRUE, nano |-> a.policy.quota * 10000000] \in Amount
      BY <1>2 DEF Amount
    <2>2. QED
      BY <2>1 DEF CeilingFromPolicy
  <1>5. a.fields \cap BodyFields \subseteq ChatFields /\ {"client", "prompt_cache"} \subseteq ChatFields
    BY DEF ChatFields
  <1>6. FromOpenRouter(a) \in ChatRequest
    <2>1. /\ (a.fields \cap BodyFields)
             \cup (IF a.fields \cap (Titles \cup {"user"}) # {} THEN {"client"} ELSE {})
             \in SUBSET (ChatFields \cup EmbeddingsFields)
          /\ a.fields \cap Unmodelled \in SUBSET STRING
      BY <1>1, <1>5
    <2>2. QED
      BY <1>1, <1>3, <2>1 DEF FromOpenRouter, Plain, ChatRequest
  <1>7. FromHelicone(a) \in ChatRequest
    <2>1. (IF "helicone-user-id" \in a.fields THEN {"client"} ELSE {})
          \cup (IF "helicone-cache-enabled" \in a.fields /\ a.word = "false"
                THEN {"prompt_cache"} ELSE {}) \in SUBSET (ChatFields \cup EmbeddingsFields)
      BY <1>5
    <2>2. (IF "helicone-request-id" \in a.fields THEN FreshKey ELSE <<>>) \in Seq(Nat)
      BY <1>3, WireAssumption
    <2>3. (IF "helicone-ratelimit-policy" \in a.fields
           THEN CeilingFromPolicy(a.policy) ELSE <<>>) \in Seq(Amount)
      BY <1>3, <1>4
    <2>4. {} \in SUBSET STRING
      OBVIOUS
    <2>5. QED
      BY <1>1, <1>3, <2>1, <2>2, <2>3, <2>4 DEF FromHelicone, Plain, ChatRequest
  <1>8. FromVercel(a) \in ChatRequest
    BY <1>1, <1>3 DEF FromVercel, Plain, ChatRequest
  <1>9. QED
    BY <1>6, <1>7, <1>8 DEF Translated

LEMMA RequestTypes == ASSUME NEW t \in Turns PROVE RequestOf(t) \in ChatRequest
  <1>1. t.ask \in Native \/ t.ask \in Foreign
    BY PyChatAssumption
  <1>2. CASE t.ask.shim = "none"
    <2>1. t.ask \in Native
      BY <1>1, <1>2 DEF Foreign
    <2>2. QED
      BY <1>2, <2>1 DEF RequestOf, Native
  <1>3. CASE t.ask.shim # "none"
    <2>1. t.ask \in Foreign
      BY <1>1, <1>3 DEF Native
    <2>2. QED
      BY <1>3, <2>1, ForeignTypes DEF RequestOf
  <1>4. QED
    BY <1>2, <1>3

LEMMA ChainType ==
  ASSUME NEW r \in ChatRequest
  PROVE  /\ Chain(r) \in Seq(Entries) /\ Len(Chain(r)) = Len(r.fallback_models) + 1
         /\ Len(r.fallback_models) \in Nat
  BY DEF ChatRequest, Chain

LEMMA KeyOfType == ASSUME TypeInv, NEW i \in Nat PROVE KeyOf(i) \in Seq(Nat)
  <1>1. TurnIdentity(request) \in Seq(Nat)
    BY RequestTypes, WireAssumption DEF TypeInv, TypeOK, ChatRequest, TurnIdentity
  <1>2. QED
    BY <1>1 DEF KeyOf

LEMMA MembersType == ASSUME TypeInv PROVE Len(Members) \in Nat \ {0}
  BY RequestTypes, ChainType DEF TypeInv, TypeOK, Members, ChatRequest

LEMMA IndexType == ASSUME TypeInv PROVE index \in Nat
  BY MembersType DEF TypeInv, TypeOK

LEMMA LiveType == TypeInv => Live \in Attempts(index)
  <1> SUFFICES ASSUME TypeInv PROVE Live \in Attempts(index)
    OBVIOUS
  <1>1. index \in 0 .. index /\ attempt \in 0 .. MaxRetries /\ KeyOf(index) \in Seq(Nat)
    BY IndexType, KeyOfType DEF TypeInv, TypeOK
  <1>2. QED
    BY <1>1 DEF Live, Attempts

(* However an exchange ends, it ends in a pause or in an outcome.             *)
PausesOrEnds ==
  \/ pc' = "sleep" /\ attempt < MaxRetries /\ outcome' = outcome
  \/ pc' = "done" /\ outcome' \in Outcome

LEMMA SettleEnds == ASSUME NEW o \in Outcome, Settle(o) PROVE PausesOrEnds
  BY DEF Settle, PausesOrEnds

LEMMA RetryOrEnds == ASSUME NEW o \in Outcome, RetryOr(o) PROVE PausesOrEnds
  BY SettleEnds DEF RetryOr, PausesOrEnds

LEMMA ConcludeEnds == ASSUME NEW a \in Answer, Conclude(a) PROVE PausesOrEnds
  <1>1. a.charged \in BOOLEAN
    BY DEF Answer
  <1>2. Result("data", a.charged) \in Outcome /\ Failure(a) \in Outcome
    BY <1>1, OutcomeTypes
  <1>3. QED
    BY <1>2, SettleEnds, RetryOrEnds DEF Conclude

LEMMA StopsEnds == ASSUME NEW how, Stops(how) PROVE PausesOrEnds
  BY OutcomeTypes, FaultTypes, SettleEnds, RetryOrEnds DEF Stops

LEMMA BodyReadsEnds == ASSUME TypeInv, BodyReads PROVE PausesOrEnds
  <1>1. ASSUME NEW a \in {response.answer, Bodiless(response.answer)}, BodyEnds(a)
        PROVE  PausesOrEnds
    <2>1. a \in Answer /\ Unreceipted(a) \in Answer
      BY ForgottenTypes DEF TypeInv, TypeOK
    <2>2. Settle(Failure(Unreceipted(a))) \/ Conclude(a)
      BY <1>1 DEF BodyEnds
    <2>3. QED
      BY <2>1, <2>2, OutcomeTypes, SettleEnds, ConcludeEnds
  <1>2. ASSUME NEW a \in Answers, SettledEnds(a) PROVE PausesOrEnds
    BY <1>2, AnswersAssumption, ConcludeEnds DEF SettledEnds
  <1>3. ASSUME NEW how, BodyBreaks(how) PROVE PausesOrEnds
    BY <1>3, StopsEnds DEF BodyBreaks
  <1>4. ASSUME CommittedCut PROVE PausesOrEnds
    BY <1>4, FaultTypes, RetryOrEnds DEF CommittedCut
  <1>5. QED
    BY <1>1, <1>2, <1>3, <1>4 DEF BodyReads

LEMMA TypeInvInit == Init => TypeInv
  <1> SUFFICES ASSUME Init PROVE TypeInv
    OBVIOUS
  <1>1. 0 \in 0 .. MaxRetries /\ 0 \in 0 .. Len(Members) - 1
    BY PyChatAssumption, RequestTypes, ChainType DEF Init, Members
  <1>2. Result("none", FALSE) \in Outcome
    BY OutcomeTypes
  <1>3. QED
    BY <1>1, <1>2, HeadTypes DEF Init, GatewayInit, TypeInv, TypeOK

(* A request is never changed, so what may be sent of it stays.               *)
LEMMA RequestStays ==
  ASSUME TypeInv, [Next]_vars
  PROVE  /\ UNCHANGED <<asked, request>> /\ (Members)' = Members
         /\ \A i \in Nat : Attempts(i)' = Attempts(i) /\ KeyOf(i)' = KeyOf(i)
         /\ \A i \in Nat : Attempts(i) \subseteq Attempts(i + 1)
  <1>1. UNCHANGED <<asked, request>>
    BY DEF Next, Open, Send, NoAnswerComes, CertificateFails, HeadArrives, EarlyHead, BodyReads,
           BodyEnds, SettledEnds, BodyBreaks, CommittedCut, Wake, MemberReturns, GatewayStep,
           Over, vars, callVars
  <1>2. (Members)' = Members
    BY <1>1 DEF Members
  <1>3. \A i \in Nat : Attempts(i)' = Attempts(i) /\ KeyOf(i)' = KeyOf(i)
    BY <1>1 DEF Attempts, MemberOf, Members, Whole, KeyOf
  <1>4. \A i \in Nat : Attempts(i) \subseteq Attempts(i + 1)
    BY DEF Attempts
  <1>5. QED
    BY <1>1, <1>2, <1>3, <1>4

(* A member is entered with its headers written, or refused.                  *)
LEMMA Entered ==
  ASSUME NEW i, Enter(i)
  PROVE  (pc' = "send" /\ outcome' = outcome) \/ (pc' = "done" /\ outcome' \in Outcome)
  BY OutcomeTypes DEF Enter

LEMMA TypeInvStep == TypeInv /\ [Next]_vars => TypeInv'
  <1> SUFFICES ASSUME TypeInv, [Next]_vars PROVE TypeInv'
    OBVIOUS
  <1>0. /\ 0 \in 0 .. MaxRetries /\ index \in Nat
        /\ Live \in Attempts(index) /\ Live.key \in Seq(Nat)
    BY PyChatAssumption, LiveType, IndexType, KeyOfType DEF Live
  <1> USE RequestStays DEF TypeInv, TypeOK
  <1>1. CASE Open
    <2>1. \/ UNCHANGED <<pc, outcome>>
          \/ pc' = "send" /\ outcome' = outcome
          \/ pc' = "done" /\ outcome' \in Outcome
      BY <1>1, Entered DEF Open
    <2>2. QED
      BY <1>1, <2>1 DEF Open, histories, gatewayVars
  <1>2. CASE Send
    BY <1>0, <1>2 DEF Send, Outgoing, callVars
  <1>3. ASSUME NEW how, NoAnswerComes(how) PROVE TypeInv'
    <2>1. PausesOrEnds /\ Live.key \in Seq(Nat)
      BY <1>0, <1>3, StopsEnds DEF NoAnswerComes
    <2>2. QED
      BY <1>3, <2>1 DEF NoAnswerComes, PausesOrEnds, callVars
  <1>4. CASE CertificateFails
    <2>1. PausesOrEnds /\ Live.key \in Seq(Nat)
      BY <1>0, <1>4, OutcomeTypes, FaultTypes, SettleEnds DEF CertificateFails
    <2>2. QED
      BY <1>4, <2>1 DEF CertificateFails, PausesOrEnds, callVars
  <1>5. ASSUME NEW a \in Answers, HeadArrives(a) PROVE TypeInv'
    <2>1. response' \in [committed : BOOLEAN, answer : Answer]
      BY <1>5, AnswersAssumption, HeadTypes DEF HeadArrives
    <2>2. (pc' = "done" /\ outcome' \in Outcome) \/ (pc' = "read" /\ outcome' = outcome)
      BY <1>5, OutcomeTypes DEF HeadArrives, Settle
    <2>3. QED
      BY <1>5, <2>1, <2>2 DEF HeadArrives, callVars, histories, gatewayVars
  <1>6. CASE EarlyHead
    <2>1. /\ response' \in [committed : BOOLEAN, answer : Answer]
          /\ (pc' = "done" /\ outcome' \in Outcome) \/ (pc' = "read" /\ outcome' = outcome)
      BY <1>6, OutcomeTypes, HeadTypes DEF EarlyHead, Settle
    <2>2. QED
      BY <1>6, <2>1 DEF EarlyHead, callVars, histories, gatewayVars
  <1>7. CASE BodyReads
    <2>1. PausesOrEnds /\ Live.key \in Seq(Nat)
      BY <1>0, <1>7, BodyReadsEnds
    <2>2. /\ UNCHANGED <<callVars, attempt, response, sent, gatewayVars>>
          /\ unanswered' \in {unanswered, unanswered \cup {Live.key}}
      BY <1>7 DEF BodyReads, BodyEnds, SettledEnds, BodyBreaks, CommittedCut
    <2>3. paid' \in BOOLEAN
      <3>1. ASSUME NEW a \in {response.answer, Bodiless(response.answer)}, BodyEnds(a)
            PROVE  paid' \in BOOLEAN
        BY <3>1, ForgottenTypes DEF BodyEnds, Answer
      <3>2. QED
        BY <1>7, <3>1, AnswersAssumption
           DEF BodyReads, SettledEnds, BodyBreaks, CommittedCut, Answer
    <2>4. QED
      BY <2>1, <2>2, <2>3 DEF PausesOrEnds, callVars, gatewayVars
  <1>8. CASE Wake
    <2>1. attempt' \in 0 .. MaxRetries
      BY <1>8, PyChatAssumption DEF Wake, Up
    <2>2. QED
      BY <1>8, <2>1, HeadTypes DEF Wake, callVars, histories, gatewayVars
  <1>9. CASE MemberReturns
    <2>1. index' \in 0 .. Len(Members) - 1 /\ index' \in {index, index + 1}
      BY <1>0, <1>9, MembersType DEF MemberReturns
    <2>2. /\ turn' \in {"open", "completed", "thrown"} /\ attempt' \in 0 .. MaxRetries
          /\ response' \in [committed : BOOLEAN, answer : Answer]
      BY <1>0, <1>9, HeadTypes DEF MemberReturns
    <2>3. \/ UNCHANGED <<pc, outcome>>
          \/ pc' = "send" /\ outcome' = outcome
          \/ pc' = "done" /\ outcome' \in Outcome
      BY <1>9, Entered DEF MemberReturns
    <2>4. sent' \subseteq Attempts(index')
      BY <1>0, <1>9, <2>1 DEF MemberReturns, histories
    <2>5. (pc' = "sleep" => attempt' < MaxRetries)
      BY <1>9, <2>3 DEF MemberReturns
    <2>6. QED
      BY <1>9, <2>1, <2>2, <2>3, <2>4, <2>5 DEF MemberReturns, histories, gatewayVars
  <1>10. CASE GatewayStep
    BY <1>10 DEF GatewayStep, Arrive, Finish, callVars, loopVars, histories
  <1>11. CASE UNCHANGED vars
    BY <1>11 DEF vars, callVars, loopVars, histories, gatewayVars
  <1>12. QED
    BY <1>1, <1>2, <1>3, <1>4, <1>5, <1>6, <1>7, <1>8, <1>9, <1>10, <1>11
       DEF Next, Over

LEMMA TypeInvHolds == Spec => []TypeInv
  BY TypeInvInit, TypeInvStep, PTL DEF Spec

(* Every variable keeps its type, and request() never counts beyond its retry *)
(* budget, however exchanges are cut, time out or are refused (client.py:151).*)
THEOREM TypeCorrect == Spec => []TypeOK
  <1>1. TypeInv => TypeOK
    BY DEF TypeInv
  <1>2. QED
    BY <1>1, TypeInvHolds, PTL

-----------------------------------------------------------------------------
(* One charge for each member, by the same invariant of the keys as in        *)
(* ChatProofs; here the key is not kept in a variable but follows from index. *)

KeysInv ==
  /\ \A r \in sent : \E i \in 0 .. index : r.key = KeyOf(i)
  /\ \A r, s \in running \cup charged : r.key = s.key => r = s

LEMMA WhoSends ==
  ASSUME [Next]_vars
  PROVE  \/ Send
         \/ GatewayStep
         \/ UNCHANGED <<sent, running, charged>>
  BY DEF Next, Open, NoAnswerComes, CertificateFails, HeadArrives, EarlyHead,
         BodyReads, BodyEnds, SettledEnds, BodyBreaks, CommittedCut, Wake,
         MemberReturns, Over, vars, histories, gatewayVars

LEMMA ChainGoesForward ==
  ASSUME TypeInv, [Next]_vars PROVE index \in Nat /\ index' \in {index, index + 1}
  <1>1. index \in Nat
    BY DEF TypeInv, TypeOK
  <1>2. CASE MemberReturns
    BY <1>1, <1>2 DEF MemberReturns
  <1>3. CASE ~MemberReturns
    <2>1. UNCHANGED index
      BY <1>3 DEF Next, Open, Send, NoAnswerComes, CertificateFails, HeadArrives,
         EarlyHead, BodyReads, BodyEnds, SettledEnds, BodyBreaks, CommittedCut,
         Wake, GatewayStep, Over, vars, callVars
    <2>2. QED
      BY <1>1, <2>1
  <1>4. QED
    BY <1>2, <1>3

LEMMA KeysInvStep == TypeInv /\ KeysInv /\ [Next]_vars => KeysInv'
  <1> SUFFICES ASSUME TypeInv, KeysInv, [Next]_vars PROVE KeysInv'
    OBVIOUS
  <1>0. \A i \in Nat : KeyOf(i)' = KeyOf(i)
    BY RequestStays
  <1>1. \A i \in 0 .. index : i \in 0 .. index' /\ i \in Nat
    BY ChainGoesForward
  <1>2. CASE Send
    <2>1. sent' = sent \cup {Live} /\ Live.key = KeyOf(index) /\ index \in 0 .. index
      BY <1>2, ChainGoesForward DEF Send, Outgoing, Live
    <2>2. UNCHANGED <<running, charged>>
      BY <1>2 DEF Send
    <2>3. QED
      BY <1>0, <1>1, <2>1, <2>2 DEF KeysInv
  <1>3. CASE GatewayStep
    <2>1. ASSUME NEW t \in inflight, Arrive(t)
          PROVE  \A r, s \in running' \cup charged' : r.key = s.key => r = s
      BY <2>1 DEF Arrive, Knows, KeysInv
    <2>2. ASSUME NEW t \in running, Finish(t)
          PROVE  running' \cup charged' \subseteq running \cup charged
      BY <2>2 DEF Finish
    <2>3. UNCHANGED <<sent, index>>
      BY <1>3 DEF GatewayStep, callVars, histories
    <2>4. QED
      BY <1>0, <1>3, <2>1, <2>2, <2>3 DEF GatewayStep, KeysInv
  <1>4. CASE UNCHANGED <<sent, running, charged>>
    BY <1>0, <1>1, <1>4 DEF KeysInv
  <1>5. QED
    BY <1>2, <1>3, <1>4, WhoSends

LEMMA KeysInvHolds == Spec => []KeysInv
  <1>1. Init => KeysInv
    BY DEF Init, GatewayInit, KeysInv
  <1>2. QED
    BY <1>1, TypeInvHolds, KeysInvStep, PTL DEF Spec

LEMMA OneEach ==
  ASSUME TypeInv, KeysInv
  PROVE  IsFiniteSet(charged) /\ Cardinality(charged) <= index + 1
  <1> DEFINE memberOf == [r \in charged |-> CHOOSE i \in 0 .. index : r.key = KeyOf(i)]
  <1>1. \A r \in charged : memberOf[r] \in 0 .. index /\ r.key = KeyOf(memberOf[r])
    BY DEF TypeInv, TypeOK, KeysInv
  <1>2. memberOf \in Injection(charged, 0 .. index)
    BY <1>1 DEF Injection, IsInjective, KeysInv
  <1>3. IsFiniteSet(0 .. index) /\ Cardinality(0 .. index) = index + 1
    BY IndexType, FS_Interval
  <1>4. QED
    BY <1>2, <1>3, FS_Injection

(* "Retries transport faults and retryable statuses with the same idempotency *)
(* key" (client.py:137): whatever is lost, cut or late, the account is        *)
(* charged at most once per member of the chain.                              *)
THEOREM AtMostOneCharge == Spec => []OneChargePerMember
  <1>1. TypeInv /\ KeysInv => OneChargePerMember
    BY OneEach DEF OneChargePerMember
  <1>2. QED
    BY <1>1, TypeInvHolds, KeysInvHolds, PTL

-----------------------------------------------------------------------------
(* What is refused is never sent, and no chain is walked without consent.     *)

GoodInv == pc # "idle" \/ index > 0 \/ sent # {} => ~Refused

LEMMA GoodInvHolds == Spec => []GoodInv
  <1>1. Init => GoodInv
    BY DEF Init, GoodInv
  <1>2. TypeInv /\ GoodInv /\ [Next]_vars => GoodInv'
    <2> SUFFICES ASSUME TypeInv, GoodInv, [Next]_vars PROVE GoodInv'
      OBVIOUS
    <2>1. Refused' = Refused
      BY RequestStays DEF Refused
    <2>2. CASE Open
      BY <2>1, <2>2 DEF Open, GoodInv, histories
    <2>3. CASE ~Open /\ pc = "idle"
      <3>1. UNCHANGED <<pc, index, sent>>
        BY <2>3 DEF Next, Send, NoAnswerComes, CertificateFails, HeadArrives, EarlyHead,
           BodyReads, BodyEnds, SettledEnds, BodyBreaks, CommittedCut, Wake, MemberReturns,
           GatewayStep, Over, vars, callVars, loopVars, histories
      <3>2. QED
        BY <2>1, <3>1 DEF GoodInv
    <2>4. CASE pc # "idle"
      BY <2>1, <2>4 DEF GoodInv
    <2>5. QED
      BY <2>2, <2>3, <2>4
  <1>3. QED
    BY <1>1, <1>2, TypeInvHolds, PTL DEF Spec

(* Who may be charged twice has accepted it.                                  *)
LEMMA ChainsAreOptedInto ==
  ASSUME TypeInv, ~Refused, index > 0
  PROVE  asked.op = "chat" /\ OptedIn(asked.ask)
  <1>1. /\ asked \in Turns /\ request = RequestOf(asked) /\ request \in ChatRequest
        /\ index \in 0 .. Len(Members) - 1
    BY RequestTypes DEF TypeInv, TypeOK
  <1>2. asked.op = "chat"
    <2>1. asked.op # "chat" => Len(Members) = 1
      BY DEF Members
    <2>2. Len(Members) > 1
      <3> DEFINE n == Len(Members)
      <3>1. n \in Nat /\ index \in 0 .. n - 1 /\ index \in Nat
        BY <1>1, MembersType, IndexType
      <3> HIDE DEF n
      <3>2. n > 1
        BY <3>1
      <3>3. QED
        BY <3>2 DEF n
    <2>3. QED
      BY <2>1, <2>2
  <1>3. request.fallback_models # <<>>
    <2>1. Len(request.fallback_models) > 0
      BY <1>1, <1>2, ChainType DEF Members
    <2>2. QED
      BY <2>1
  <1>4. request.allow_client_fallback
    BY <1>2, <1>3 DEF Refused, OperationRefused, ChainRefused
  <1>5. CASE asked.ask.shim = "none"
    BY <1>1, <1>2, <1>4, <1>5 DEF RequestOf, OptedIn
  <1>6. CASE asked.ask.shim # "none"
    <2> DEFINE a == asked.ask
    <2>1. request = Translated(a)
      BY <1>1, <1>6 DEF RequestOf
    <2>2. CASE a.shim = "openrouter"
      <3>1. request.allow_client_fallback = (~("route" \in a.fields) /\ a.allow)
        BY <2>1, <2>2 DEF Translated, FromOpenRouter, Plain
      <3>2. QED
        BY <1>2, <1>4, <2>2, <3>1 DEF OptedIn
    <2>3. CASE a.shim = "helicone"
      <3>1. request.fallback_models = <<>>
        BY <2>1, <2>3 DEF Translated, FromHelicone, Plain
      <3>2. QED
        BY <1>3, <3>1
    <2>4. CASE a.shim \notin {"openrouter", "helicone"}
      <3>1. request.allow_client_fallback = a.allow
        BY <2>1, <2>4 DEF Translated, FromVercel, Plain
      <3>2. QED
        BY <1>2, <1>4, <1>6, <2>4, <3>1 DEF OptedIn
    <2>5. QED
      BY <2>2, <2>3, <2>4
  <1>7. QED
    BY <1>5, <1>6

(* "fallback_models is a CLIENT-SIDE chain of separate billed requests"       *)
(* (chat.py:118): nobody pays twice for a turn without having accepted it.    *)
THEOREM OneBillOrConsent == Spec => []OneBillUnlessOptedIn
  <1>1. TypeInv /\ KeysInv /\ GoodInv => OneBillUnlessOptedIn
    <2> SUFFICES ASSUME TypeInv, KeysInv, GoodInv, Cardinality(charged) > 1
                 PROVE  asked.op = "chat" /\ OptedIn(asked.ask)
      BY DEF OneBillUnlessOptedIn
    <2>1. Cardinality(charged) \in Nat /\ Cardinality(charged) <= index + 1 /\ index \in Nat
      BY OneEach, FS_CardinalityType, IndexType
    <2>2. index > 0
      BY <2>1
    <2>3. QED
      BY <2>2, ChainsAreOptedInto DEF GoodInv
  <1>2. QED
    BY <1>1, TypeInvHolds, KeysInvHolds, GoodInvHolds, PTL

-----------------------------------------------------------------------------
(* Every attempt carries what was asked for.                                  *)

(* What every request on the wire has of the request it was built from.       *)
LEMMA OnTheWire ==
  ASSUME NEW op \in {"chat", "stream", "defer"}, NEW r \in ChatRequest
  PROVE  LET w == WireOf(op, r) IN
         /\ {"model", "messages"} \subseteq w.body /\ r.given \cap BodyFields \subseteq w.body
         /\ r.extra_body \subseteq w.body /\ ("defer" \in r.given => "defer" \in w.body)
         /\ \A f \in r.given \cap DOMAIN HeaderOf : HeaderOf[f] \in w.headers
         /\ (r.request_id # <<>> => "x-request-id" \in w.headers)
         /\ w.ceiling = r.max_cost_nano_usd /\ w.chain = ServerChain(r)
         /\ ("model" \notin r.extra_body => w.model = r.model)
  BY DEF WireOf, ChatBody, Headers

LEMMA EmbeddingsOnTheWire ==
  ASSUME NEW r \in ChatRequest, r.given \subseteq EmbeddingsFields, "tokens" \notin r.given
  PROVE  LET w == WireOf("embed", r) IN
         (\A f \in r.given : Written(r, w, f)) /\ w.ceiling = r.max_cost_nano_usd
  BY DEF WireOf, EmbeddingsBody, Headers, Written, EmbeddingsFields, HeaderOf

(* The members of a chain differ in the model alone.                          *)
LEMMA MemberTypes ==
  ASSUME TypeInv, NEW i \in 0 .. index
  PROVE  LET r == MemberOf(i) IN
         /\ r \in ChatRequest /\ request.given \subseteq r.given
         /\ r.given \subseteq request.given \cup {"defer", "deadline_seconds"}
         /\ (asked.op # "defer" => r.given = request.given)
         /\ r.model = Members[i + 1] /\ r.extra_body = request.extra_body
         /\ r.max_cost_nano_usd = request.max_cost_nano_usd /\ r.request_id = request.request_id
         /\ r.server_fallback_models = request.server_fallback_models
  <1>1. request \in ChatRequest /\ i + 1 \in 1 .. Len(Members) /\ i \in Nat
    BY RequestTypes, IndexType, MembersType DEF TypeInv, TypeOK
  <1>2. Members \in Seq(Entries)
    <2>1. request.model \in Entries
      BY <1>1 DEF ChatRequest
    <2>2. QED
      BY <1>1, <2>1, ChainType DEF Members
  <1>3. Members[i + 1] \in Entries
    BY <1>1, <1>2
  <1>4. /\ Whole \in ChatRequest /\ request.given \subseteq Whole.given
        /\ Whole.given \subseteq request.given \cup {"defer", "deadline_seconds"}
        /\ (asked.op # "defer" => Whole.given = request.given)
        /\ Whole.extra_body = request.extra_body /\ Whole.request_id = request.request_id
        /\ Whole.max_cost_nano_usd = request.max_cost_nano_usd
        /\ Whole.server_fallback_models = request.server_fallback_models
    BY <1>1 DEF Whole, Deferred, ChatRequest, ChatFields
  <1>5. QED
    BY <1>3, <1>4 DEF MemberOf, ChatRequest

(* Of the natural numbers that share something there is a least: by the       *)
(* well-foundedness of set inclusion.                                         *)
LEMMA Least ==
  ASSUME NEW T, T \subseteq Nat, T # {} PROVE \E x \in T : \A y \in T : x <= y
  <1> DEFINE R == StrictSubsetOrdering(Nat)
             U == {0 .. x : x \in T}
  <1>1. IsWellFoundedOn(R, FiniteSubsetsOf(Nat))
    BY FS_StrictSubsetOrderingWellFounded
  <1>2. U \subseteq FiniteSubsetsOf(Nat) /\ U # {}
    <2>1. \A x \in T : IsFiniteSet(0 .. x) /\ 0 .. x \subseteq Nat
      BY FS_Interval
    <2>2. QED
      BY <2>1 DEF FiniteSubsetsOf
  <1>3. PICK u \in U : \A v \in U : ~(<<v, u>> \in R)
    <2> HIDE DEF R, U
    <2>1. QED
      BY <1>1, <1>2, WFMin
  <1>4. PICK x \in T : u = 0 .. x
    OBVIOUS
  <1>5. ASSUME NEW y \in T, y < x PROVE FALSE
    <2>1. x \in 0 .. x /\ x \notin 0 .. y /\ 0 .. y \subseteq 0 .. x
      BY <1>5
    <2>2. <<0 .. y, 0 .. x>> \in R
      BY <2>1 DEF StrictSubsetOrdering
    <2>3. QED
      BY <1>3, <1>4, <2>2
  <1>6. QED
    BY <1>5

(* server_fallback_header loses no model but the one that is asked for.       *)
LEMMA EveryModelSurvives ==
  ASSUME NEW r \in ChatRequest, NEW i \in DOMAIN r.server_fallback_models,
         r.server_fallback_models[i] # r.model
  PROVE  \E j \in DOMAIN ServerChain(r) : ServerChain(r)[j] = r.server_fallback_models[i]
  <1> DEFINE c == r.server_fallback_models
             T == {j \in DOMAIN c : c[j] = c[i]}
  <1>1. c \in Seq(Entries) /\ DOMAIN c = 1 .. Len(c) /\ Len(c) \in Nat
    BY DEF ChatRequest
  <1>2. T \subseteq Nat /\ i \in T
    BY <1>1
  <1>3. PICK j \in T : \A k \in T : j <= k
    <2> HIDE DEF T
    <2>1. QED
      BY <1>2, Least
  <1>4. \A k \in 1 .. j - 1 : c[k] # c[j]
    BY <1>1, <1>3
  <1>5. j \in Survivors(r)
    BY <1>3, <1>4 DEF Survivors
  <1>6. QED
    BY <1>3, <1>5 DEF ServerChain

(* The native requests: what is given is written.                             *)
LEMMA NativeIsHonoured ==
  ASSUME TypeInv, ~Refused, asked.ask.shim = "none", NEW i \in 0 .. index
  PROVE  Honoured(asked.ask, WireOf(asked.op, MemberOf(i)))
  <1> DEFINE r == MemberOf(i)
             w == WireOf(asked.op, r)
  <1>1. /\ asked \in Turns /\ request = asked.ask.request
        /\ asked.op \in {"chat", "stream", "defer", "embed"}
        /\ request.given \subseteq IF asked.op = "embed" THEN EmbeddingsFields ELSE ChatFields
    BY PyChatAssumption DEF TypeInv, TypeOK, RequestOf
  <1>2. /\ r \in ChatRequest /\ request.given \subseteq r.given
        /\ (asked.op # "defer" => r.given = request.given)
        /\ r.max_cost_nano_usd = request.max_cost_nano_usd
    BY MemberTypes
  <1> HIDE DEF r
  <1>3. CASE asked.op = "embed"
    <2>1. r.given \subseteq EmbeddingsFields /\ "tokens" \notin r.given
      BY <1>1, <1>2, <1>3 DEF Refused, OperationRefused
    <2>2. w = WireOf("embed", r)
      BY <1>3
    <2> HIDE DEF w
    <2>3. (\A f \in r.given : Written(r, w, f)) /\ w.ceiling = r.max_cost_nano_usd
      BY <1>2, <2>1, <2>2, EmbeddingsOnTheWire
    <2>4. QED
      BY <1>1, <1>2, <2>3 DEF Honoured, Written, w, r
  <1>4. CASE asked.op # "embed"
    <2>1. request.given \subseteq ChatFields /\ asked.op \in {"chat", "stream", "defer"}
      BY <1>1, <1>4
    <2>2. ASSUME NEW f \in request.given PROVE Written(asked.ask.request, w, f)
      <3>1. f \in r.given /\ (f \in BodyFields \/ f = "defer" \/ f \in DOMAIN HeaderOf)
        BY <1>2, <2>1 DEF ChatFields, HeaderOf
      <3>2. QED
        BY <1>2, <2>1, <3>1, OnTheWire DEF Written
    <2>3. w.ceiling = request.max_cost_nano_usd
      BY <1>2, <2>1, OnTheWire
    <2>4. QED
      BY <1>1, <2>2, <2>3 DEF Honoured, r
  <1>5. QED
    BY <1>3, <1>4

(* What a translated request keeps of the foreign one.                        *)
LEMMA ForeignIsKept ==
  ASSUME NEW a \in Foreign, ~Refuses(a), NEW f \in a.fields \cap Known(a)
  PROVE  LET t == Translated(a) IN
         \/ f \in {"model", "messages"}
         \/ f \in BodyFields /\ f \in t.given
         \/ f \in Unmodelled /\ f \in t.extra_body
         \/ f \in Titles \cup {"user", "helicone-user-id"} /\ "client" \in t.given
         \/ f = "helicone-request-id" /\ t.request_id = FreshKey
         \/ f = "helicone-cache-enabled" /\ "prompt_cache" \in t.given
         \/ f = "helicone-ratelimit-policy" /\ t.max_cost_nano_usd = CeilingFromPolicy(a.policy)
         \/ f \in HeliconeProperties \cup {"route"}
  <1> USE DEF Translated
  <1>1. CASE a.shim = "openrouter"
    BY <1>1 DEF FromOpenRouter, Plain, Refuses, OpenRouterRefuses, Known
  <1>2. CASE a.shim = "helicone"
    <2>1. f \in HeliconeInert \cup HeliconeProperties
      BY <1>2 DEF Known, Refuses, HeliconeRefuses
    <2>2. f = "helicone-cache-enabled" => a.word = "false"
      <3>1. f = "helicone-cache-enabled" => a.word # "true"
        BY <1>2 DEF Refuses, HeliconeRefuses
      <3>2. f = "helicone-cache-enabled" => a.word \in {"true", "false"}
        BY <1>2, <2>1 DEF Known, HeliconeInert, HeliconeProperties, HeliconeRefused,
                          HeliconeUnknown
      <3>3. QED
        BY <3>1, <3>2
    <2>3. QED
      BY <1>2, <2>1, <2>2 DEF FromHelicone, Plain, HeliconeInert
  <1>3. CASE a.shim \notin {"openrouter", "helicone"}
    <2>1. a.shim = "vercel"
      BY <1>3 DEF Foreign
    <2>2. QED
      BY <1>3, <2>1 DEF Known, Refuses, VercelRefuses
  <1>4. QED
    BY <1>1, <1>2, <1>3

(* A chain without fallbacks is its primary. *)
LEMMA Alone == ASSUME NEW S, NEW x \in S PROVE <<x>> \o <<>> = <<x>>
  OBVIOUS

LEMMA ForeignIsHonoured ==
  ASSUME TypeInv, ~Refused, asked.ask.shim # "none", NEW i \in 0 .. index
  PROVE  Honoured(asked.ask, WireOf(asked.op, MemberOf(i)))
  <1> DEFINE a == asked.ask
             r == MemberOf(i)
             w == WireOf(asked.op, r)
  <1>1. /\ asked \in Turns /\ request = Translated(a) /\ a \in Foreign /\ ~Refuses(a)
        /\ asked.op \in {"chat", "stream", "defer"} /\ request \in ChatRequest
    BY PyChatAssumption, RequestTypes DEF TypeInv, TypeOK, RequestOf, Refused, Native
  <1>2. /\ r \in ChatRequest /\ request.given \subseteq r.given
        /\ r.model = Members[i + 1] /\ r.extra_body = request.extra_body
        /\ r.max_cost_nano_usd = request.max_cost_nano_usd /\ r.request_id = request.request_id
        /\ r.server_fallback_models = request.server_fallback_models
    BY MemberTypes
  <1> HIDE DEF r, a
  <1>3. /\ {"model", "messages"} \subseteq w.body /\ r.given \cap BodyFields \subseteq w.body
        /\ r.extra_body \subseteq w.body
        /\ \A f \in r.given \cap DOMAIN HeaderOf : HeaderOf[f] \in w.headers
        /\ (r.request_id # <<>> => "x-request-id" \in w.headers)
        /\ w.ceiling = r.max_cost_nano_usd /\ w.chain = ServerChain(r)
        /\ ("model" \notin r.extra_body => w.model = r.model)
    BY <1>1, <1>2, OnTheWire
  <1>4. /\ ("client" \in r.given => "x-conifer-client" \in w.headers)
        /\ ("prompt_cache" \in r.given => "x-conifer-cache" \in w.headers)
    BY <1>3 DEF HeaderOf
  <1> HIDE DEF w
  <1>5. ASSUME NEW f \in a.fields \cap Known(a) PROVE Carried(a, w, f)
    <2>1. \/ f \in {"model", "messages"}
          \/ f \in BodyFields /\ f \in request.given
          \/ f \in Unmodelled /\ f \in request.extra_body
          \/ f \in Titles \cup {"user", "helicone-user-id"} /\ "client" \in request.given
          \/ f = "helicone-request-id" /\ request.request_id = FreshKey
          \/ f = "helicone-cache-enabled" /\ "prompt_cache" \in request.given
          \/ f = "helicone-ratelimit-policy"
             /\ request.max_cost_nano_usd = CeilingFromPolicy(a.policy)
          \/ f \in HeliconeProperties \cup {"route"}
      BY <1>1, ForeignIsKept
    <2>2. QED
      BY <1>2, <1>3, <1>4, <2>1, WireAssumption DEF Carried
  <1>6. SubstitutesCarried(a, w, Members)
    <2>1. Members = IF asked.op = "chat" THEN Chain(request) ELSE <<request.model>>
      BY DEF Members
    <2>2. /\ request.model = a.model /\ a.model \in Entries /\ a.models \in Seq(Entries)
          /\ request.extra_body \subseteq Unmodelled
      BY <1>1 DEF Translated, FromOpenRouter, FromHelicone, FromVercel, Plain, Foreign
    <2>3. CASE a.shim = "helicone" \/ (a.shim = "openrouter" /\ "route" \in a.fields)
      <3>1. request.fallback_models = <<>> /\ request.server_fallback_models = a.models
        BY <1>1, <2>3 DEF Translated, FromOpenRouter, FromHelicone, Plain
      <3>2. Members = <<a.model>>
        BY <2>1, <2>2, <3>1 DEF Chain
      <3>3. i = 0
        <4>1. index \in 0 .. Len(Members) - 1 /\ Len(Members) = 1
          BY <3>2 DEF TypeInv, TypeOK
        <4>2. QED
          BY <4>1
      <3>4. w.model = a.model /\ r.model = a.model
        BY <1>2, <1>3, <2>2, <3>2, <3>3 DEF Unmodelled
      <3>5. \A k \in DOMAIN a.models : a.models[k] # r.model =>
              \E j \in DOMAIN w.chain : w.chain[j] = a.models[k]
        BY <1>2, <1>3, <3>1, EveryModelSurvives
      <3>6. QED
        BY <2>3, <3>2, <3>4, <3>5 DEF SubstitutesCarried, Listed
    <2>4. CASE ~(a.shim = "helicone" \/ (a.shim = "openrouter" /\ "route" \in a.fields))
      <3>1. request.fallback_models = a.models
        BY <1>1, <2>4 DEF Translated, FromOpenRouter, FromVercel, Plain
      <3>2. asked.op # "chat" => a.models = <<>>
        BY <1>1, <3>1 DEF Refused, OperationRefused
      <3>3. CASE asked.op = "chat"
        <4>1. Members = <<a.model>> \o a.models
          BY <2>1, <2>2, <3>1, <3>3 DEF Chain
        <4>2. QED
          BY <2>4, <4>1 DEF SubstitutesCarried
      <3>4. CASE asked.op # "chat"
        <4>1. a.models = <<>> /\ <<a.model>> \o <<>> = <<a.model>>
          BY <2>2, <3>2, <3>4, Alone
        <4>2. Members = <<a.model>> \o a.models
          BY <2>1, <2>2, <3>4, <4>1
        <4>3. QED
          BY <2>4, <4>2 DEF SubstitutesCarried
      <3>5. QED
        BY <3>3, <3>4
    <2>5. QED
      BY <2>3, <2>4
  <1>7. QED
    BY <1>5, <1>6 DEF Honoured, a, r, w

(* "A field Conifer cannot honour raises with the field named, so a migration *)
(* never silently changes what runs or what it costs" (portability.py:1-3):   *)
(* of the fields a shim knows, whatever request they come in, none is lost on *)
(* any attempt of any member.                                                 *)
THEOREM KnownFieldsAreKept == Spec => []NothingIsDropped
  <1>1. TypeInv /\ GoodInv => NothingIsDropped
    <2> SUFFICES ASSUME TypeInv, GoodInv, NEW s \in sent PROVE Honoured(asked.ask, s.wire)
      BY DEF NothingIsDropped
    <2>1. PICK i \in 0 .. index : s.wire = WireOf(asked.op, MemberOf(i))
      BY DEF TypeInv, TypeOK, Attempts
    <2>2. ~Refused
      BY DEF GoodInv
    <2>3. QED
      BY <2>1, <2>2, NativeIsHonoured, ForeignIsHonoured
  <1>2. QED
    BY <1>1, TypeInvHolds, GoodInvHolds, PTL

-----------------------------------------------------------------------------
(* pc, turn and the attempts made for the member being tried move together.   *)

Tried == {r.n : r \in {s \in sent : s.key = KeyOf(index)}}
Settled == HandedUp("data") \/ HandedUp("stream")

AttemptsInv ==
  /\ turn = "new" => pc = "idle" /\ sent = {} /\ outcome.kind = "none"
  /\ turn = "open" => pc # "idle" /\ \A n \in Tried : n <= attempt
  /\ turn = "completed" => pc = "done" /\ Settled
  /\ turn = "thrown" => ~Settled /\ (pc = "done" \/ (pc = "idle" /\ outcome.kind = "none"))
  /\ pc = "send" => attempt \notin Tried
  /\ pc \in {"wait", "read", "sleep"} => Tried # {}

LEMMA SameMember ==
  ASSUME UNCHANGED callVars
  PROVE  KeyOf(index)' = KeyOf(index) /\ (attempt' = attempt => Live' = Live)
  BY DEF callVars, KeyOf, Live, MemberOf, Members, Whole

LEMMA KeysDiffer ==
  ASSUME TypeInv, NEW i \in Nat, NEW j \in Nat, KeyOf(i) = KeyOf(j) PROVE i = j
  <1> DEFINE me == TurnIdentity(request)
  <1>0. me \in Seq(Nat)
    BY RequestTypes, WireAssumption DEF TypeInv, TypeOK, ChatRequest, TurnIdentity
  <1>1. \A k \in Nat : KeyOf(k) = IF k = 0 THEN me ELSE Append(me, k)
    BY DEF KeyOf
  <1> HIDE DEF me
  <1>2. \A k \in Nat : Len(KeyOf(k)) = IF k = 0 THEN Len(me) ELSE Len(me) + 1
    BY <1>0, <1>1
  <1>3. CASE i # 0 /\ j # 0
    <2>1. KeyOf(i)[Len(me) + 1] = i /\ KeyOf(j)[Len(me) + 1] = j
      BY <1>0, <1>1, <1>3
    <2>2. QED
      BY <2>1
  <1>4. CASE i = 0 \/ j = 0
    <2>1. Len(me) \in Nat
      BY <1>0
    <2>2. QED
      BY <1>2, <1>4, <2>1
  <1>5. QED
    BY <1>3, <1>4

LEMMA AttemptsInvInit == Init => AttemptsInv
  <1> SUFFICES ASSUME Init PROVE AttemptsInv
    OBVIOUS
  <1>1. turn = "new" /\ pc = "idle" /\ sent = {} /\ outcome.kind = "none"
    BY DEF Init, Result
  <1>2. QED
    BY <1>1 DEF AttemptsInv

(* The loop is only inside a request while the turn is open.                  *)
LEMMA OpenInside ==
  ASSUME TypeInv, AttemptsInv, pc \notin {"idle", "done"} PROVE turn = "open"
  BY DEF TypeInv, TypeOK, AttemptsInv

(* The next member has not been tried.                                        *)
LEMMA NextIsFresh ==
  ASSUME TypeInv, KeysInv, [Next]_vars, index' = index + 1, sent' = sent
  PROVE  \A r \in sent' : r.key # KeyOf(index)'
  <1>1. index \in Nat /\ \A i \in Nat : KeyOf(i)' = KeyOf(i)
    BY RequestStays, IndexType
  <1>2. KeyOf(index)' = KeyOf(index + 1)
    <2>1. UNCHANGED request
      BY RequestStays
    <2>2. QED
      BY <2>1 DEF KeyOf
  <1>3. \A r \in sent : r.key # KeyOf(index + 1)
    BY <1>1, KeysDiffer DEF KeysInv
  <1>4. QED
    BY <1>2, <1>3

LEMMA AttemptsInvStep == TypeInv /\ KeysInv /\ AttemptsInv /\ [Next]_vars => AttemptsInv'
  <1> SUFFICES ASSUME TypeInv, KeysInv, AttemptsInv, [Next]_vars PROVE AttemptsInv'
    OBVIOUS
  <1> USE DEF AttemptsInv
  <1>0. index \in Nat /\ attempt \in Nat /\ MaxRetries \in Nat
    BY PyChatAssumption, IndexType DEF TypeInv, TypeOK
  <1>1. CASE Open
    <2>1. sent = {} /\ sent' = {} /\ pc = "idle" /\ outcome.kind = "none"
      BY <1>1 DEF Open, histories
    <2>2. Tried' = {}
      BY <2>1 DEF Tried
    <2>3. CASE Refused
      BY <1>1, <2>1, <2>2, <2>3 DEF Open, Settled, HandedUp
    <2>4. CASE ~Refused
      BY <1>1, <2>1, <2>2, <2>4 DEF Open, Enter
    <2>5. QED
      BY <2>3, <2>4
  <1>2. CASE Send
    <2>1. turn = "open" /\ turn' = "open" /\ pc' = "wait" /\ attempt' = attempt
      BY <1>2, OpenInside DEF Send, callVars
    <2>2. KeyOf(index)' = KeyOf(index) /\ sent' = sent \cup {Live}
          /\ Live.key = KeyOf(index) /\ Live.n = attempt
      BY <1>2, SameMember DEF Send, Outgoing, Live
    <2>3. Tried' = Tried \cup {attempt}
      BY <2>2 DEF Tried
    <2>4. QED
      BY <1>0, <2>1, <2>3
  <1>3. CASE MemberReturns
    <2>1. CASE index' = index + 1
      <3>1. sent' = sent
        BY <1>3 DEF MemberReturns, histories
      <3>2. Tried' = {}
        BY <2>1, <3>1, NextIsFresh DEF Tried
      <3>3. turn' = "open" /\ pc' \in {"send", "done"}
        <4>1. turn' = "open" /\ Enter(index + 1)
          BY <1>0, <1>3, <2>1 DEF MemberReturns
        <4>2. QED
          BY <4>1 DEF Enter
      <3>4. QED
        BY <3>2, <3>3
    <2>2. CASE index' = index
      <3>1. /\ turn' \in {"completed", "thrown"} /\ UNCHANGED <<pc, outcome>>
            /\ pc = "done" /\ (turn' = "completed" <=> outcome.kind \in {"data", "stream"})
        BY <1>0, <1>3, <2>2 DEF MemberReturns
      <3>2. QED
        BY <3>1 DEF Settled, HandedUp
    <2>3. QED
      BY <1>3, <2>1, <2>2 DEF MemberReturns
  <1>4. CASE Wake
    <2>1. turn' = "open" /\ turn = "open" /\ pc' = "send" /\ attempt' = attempt + 1
      BY <1>4, OpenInside DEF Wake, Up, callVars
    <2>2. KeyOf(index)' = KeyOf(index) /\ sent' = sent
      BY <1>4, SameMember DEF Wake, histories
    <2>3. Tried' = Tried /\ \A n \in Tried : n \in Nat
      BY <2>2 DEF Tried, TypeInv, TypeOK, Attempts
    <2>4. QED
      BY <1>0, <2>1, <2>3
  <1>5. ASSUME UNCHANGED <<callVars, sent, attempt>>,
               pc \in {"wait", "read"}, pc' \in {"read", "sleep", "done"}
        PROVE  AttemptsInv'
    <2>1. Tried' = Tried
      BY <1>5, SameMember DEF Tried
    <2>2. turn' = "open" /\ turn = "open"
      BY <1>5, OpenInside DEF callVars
    <2>3. QED
      BY <1>5, <2>1, <2>2
  <1>6. ASSUME NEW how, NoAnswerComes(how) PROVE AttemptsInv'
    BY <1>5, <1>6, StopsEnds DEF NoAnswerComes, PausesOrEnds
  <1>7. CASE CertificateFails
    BY <1>5, <1>7 DEF CertificateFails, Settle
  <1>8. ASSUME NEW a \in Answers, HeadArrives(a) PROVE AttemptsInv'
    BY <1>5, <1>8 DEF HeadArrives, Settle, histories
  <1>9. CASE EarlyHead
    BY <1>5, <1>9 DEF EarlyHead, Settle, histories
  <1>10. CASE BodyReads
    <2>1. PausesOrEnds
      BY <1>10, BodyReadsEnds
    <2>2. pc = "read" /\ UNCHANGED <<callVars, sent, attempt>>
      BY <1>10 DEF BodyReads, BodyEnds, SettledEnds, BodyBreaks, CommittedCut
    <2>3. QED
      BY <1>5, <2>1, <2>2 DEF PausesOrEnds
  <1>11. CASE GatewayStep \/ UNCHANGED vars
    <2>1. UNCHANGED <<callVars, loopVars, histories>>
      BY <1>11 DEF GatewayStep, vars
    <2>2. Tried' = Tried
      BY <2>1, SameMember DEF Tried, histories
    <2>3. QED
      BY <2>1, <2>2 DEF callVars, loopVars, histories, Settled, HandedUp
  <1>12. QED
    BY <1>1, <1>2, <1>3, <1>4, <1>6, <1>7, <1>8, <1>9, <1>10, <1>11 DEF Next, Over

LEMMA AttemptsInvHolds == Spec => []AttemptsInv
  BY TypeInvHolds, KeysInvHolds, AttemptsInvInit, AttemptsInvStep, PTL DEF Spec

-----------------------------------------------------------------------------
(* The verdict, by the same invariant as in ChatProofs: once the head of an   *)
(* answer is in, no attempt under the key is left at the gateway to be        *)
(* charged later, and the key was charged exactly if that answer carries the  *)
(* receipt.                                                                   *)

Ours(S) == {r \in S : r.key = KeyOf(index)}
Told(bill) == Ours(inflight \cup running) = {} /\ (bill <=> ChargedKey)
OneOutstanding == Ours(inflight \cup running \cup charged) \subseteq {Live}
IsVerdict(o) == o.kind = "error" /\ o.class \notin {"Timeout", "Connection"}

AnsweredInv ==
  /\ pc \in {"send", "sleep"} => Told(FALSE)
  /\ pc = "wait" \/ (pc = "read" /\ response.committed) => OneOutstanding
  /\ pc = "read" /\ ~response.committed => Told(response.answer.charged)
  /\ pc = "done" /\ IsVerdict(outcome) /\ asked.op # "stream" => Told(outcome.charged)

VerdictInv == KeyOf(index) \notin unanswered => AnsweredInv

LEMMA VerdictInvInit == Init => VerdictInv
  <1> SUFFICES ASSUME Init PROVE VerdictInv
    OBVIOUS
  <1>1. pc = "idle"
    BY DEF Init
  <1>2. QED
    BY <1>1 DEF VerdictInv, AnsweredInv

(* What the gateway gets on with cannot unsettle what was told.               *)
LEMMA GatewayKeepsItsWord ==
  ASSUME AnsweredInv, GatewayStep PROVE AnsweredInv'
  <1>1. /\ UNCHANGED <<pc, attempt, response, outcome, asked>>
        /\ KeyOf(index)' = KeyOf(index) /\ Live' = Live
    BY SameMember DEF GatewayStep, loopVars, callVars
  <1>2. /\ (inflight \cup running \cup charged)' \subseteq inflight \cup running \cup charged
        /\ (inflight \cup running)' \subseteq inflight \cup running
        /\ charged' \subseteq charged \cup running /\ charged \subseteq charged'
    BY DEF GatewayStep, Arrive, Finish
  <1>3. OneOutstanding => OneOutstanding'
    BY <1>1, <1>2 DEF OneOutstanding, Ours
  <1>4. ASSUME NEW bill, Told(bill)
        PROVE  Ours(inflight \cup running)' = {} /\ (bill <=> ChargedKey')
    BY <1>1, <1>2, <1>4 DEF Told, Ours, ChargedKey
  <1>5. QED
    BY <1>1, <1>3, <1>4 DEF AnsweredInv, Told

(* The account as the thread's own steps see it, which leave the gateway be.  *)
LEMMA AccountStays ==
  ASSUME UNCHANGED callVars, UNCHANGED gatewayVars, NEW bill
  PROVE  Told(bill) <=> Ours(inflight \cup running)' = {} /\ (bill <=> ChargedKey')
  BY SameMember DEF Told, Ours, ChargedKey, gatewayVars

(* An answer to the only attempt outstanding tells the bill.                  *)
LEMMA AnswersTell ==
  ASSUME OneOutstanding, NEW a \in Answer, CanAnswer(Live, a)
  PROVE  Told(a.charged)
  <1>1. Live.key = KeyOf(index)
    BY DEF Live
  <1>2. Ours(inflight \cup running) = {}
    BY DEF OneOutstanding, Ours, CanAnswer
  <1>3. a.charged => ChargedKey
    BY <1>1 DEF CanAnswer, ChargedKey
  <1>4. ~a.charged => ~ChargedKey
    BY DEF CanAnswer, ChargedKey, OneOutstanding, Ours
  <1>5. QED
    BY <1>2, <1>3, <1>4 DEF Told, Answer

(* An answer that is read to its end is passed on with its bill; the loop     *)
(* only goes round after one that cost nothing.                               *)
LEMMA ConcludeTells ==
  ASSUME NEW a \in Answer, Told(a.charged), Conclude(a),
         UNCHANGED callVars, UNCHANGED gatewayVars
  PROVE  AnsweredInv'
  <1>1. a.charged \in BOOLEAN
    BY DEF Answer
  <1>2. Ours(inflight \cup running)' = {} /\ (a.charged <=> ChargedKey')
    BY AccountStays
  <1>3. CASE Settle(Result("data", a.charged))
    BY <1>3 DEF Settle, Result, IsVerdict, AnsweredInv
  <1>4. CASE Settle(Failure(a))
    <2>1. pc' = "done" /\ outcome'.charged = a.charged
      BY <1>4 DEF Settle, Failure
    <2>2. QED
      BY <1>2, <2>1 DEF Told, AnsweredInv
  <1>5. CASE PyRetryable(a) /\ pc' = "sleep"
    <2>1. a.charged = FALSE
      BY <1>1, <1>5 DEF PyRetryable
    <2>2. QED
      BY <1>2, <1>5, <2>1 DEF Told, AnsweredInv
  <1>6. QED
    BY <1>3, <1>4, <1>5 DEF Conclude, Retries, RetryOr

(* An answer that is no JSON keeps its receipt: it came in the headers.       *)
LEMMA BodilessKeeps ==
  ASSUME NEW a \in Answer PROVE Bodiless(a) \in Answer /\ Bodiless(a).charged = a.charged
  BY ForgottenTypes DEF Bodiless, Answer

LEMMA ReadingTells ==
  ASSUME TypeInv, VerdictInv, BodyReads, KeyOf(index) \notin unanswered'
  PROVE  AnsweredInv'
  <1>0. /\ pc = "read" /\ UNCHANGED callVars /\ UNCHANGED gatewayVars /\ UNCHANGED asked
        /\ KeyOf(index) \notin unanswered /\ response.answer \in Answer
    BY DEF BodyReads, BodyEnds, SettledEnds, BodyBreaks, CommittedCut, TypeInv, TypeOK, callVars
  <1>1. AnsweredInv
    BY <1>0 DEF VerdictInv
  <1>2. ASSUME NEW a \in {response.answer, Bodiless(response.answer)}, BodyEnds(a)
        PROVE  AnsweredInv'
    <2>1. CASE asked.op = "stream"
      <3>1. pc' = "done" /\ asked'.op = "stream"
        BY <1>0, <1>2, <2>1 DEF BodyEnds, Settle
      <3>2. QED
        BY <3>1 DEF AnsweredInv
    <2>2. CASE asked.op # "stream"
      <3>1. Conclude(a) /\ Told(response.answer.charged)
        BY <1>0, <1>1, <1>2, <2>2 DEF BodyEnds, AnsweredInv
      <3>2. a \in Answer /\ a.charged = response.answer.charged
        BY <1>0, BodilessKeeps
      <3>3. QED
        BY <1>0, <3>1, <3>2, ConcludeTells
    <2>3. QED
      BY <2>1, <2>2
  <1>3. ASSUME NEW a \in Answers, SettledEnds(a) PROVE AnsweredInv'
    <2>1. OneOutstanding /\ CanAnswer(Live, a) /\ a \in Answer /\ Conclude(a)
      BY <1>1, <1>3, AnswersAssumption DEF SettledEnds, AnsweredInv
    <2>2. QED
      BY <1>0, <2>1, AnswersTell, ConcludeTells
  <1>4. ~CommittedCut /\ \A how : ~BodyBreaks(how)
    BY <1>0 DEF CommittedCut, BodyBreaks, Live
  <1>5. QED
    BY <1>2, <1>3, <1>4 DEF BodyReads

LEMMA EnterKinds ==
  ASSUME NEW i, Enter(i)
  PROVE  pc' = "send" \/ (pc' = "done" /\ outcome'.kind = "refused")
  <1>1. Result("refused", FALSE).kind = "refused"
    BY DEF Result
  <1>2. QED
    BY <1>1 DEF Enter

(* A member whose headers are written, or refused, and that has sent nothing. *)
LEMMA FreshKeyOwesNothing ==
  ASSUME TypeInv, UNCHANGED gatewayVars, NEW i, Enter(i),
         \A r \in sent : r.key # KeyOf(index)'
  PROVE  AnsweredInv'
  <1>1. inflight \cup running \cup charged \subseteq sent
    BY DEF TypeInv, TypeOK
  <1>2. Ours(inflight \cup running)' = {} /\ ~ChargedKey'
    BY <1>1 DEF Ours, ChargedKey, gatewayVars
  <1>3. QED
    BY <1>2, EnterKinds DEF AnsweredInv, Told, IsVerdict

LEMMA VerdictInvStep ==
  TypeInv /\ KeysInv /\ AttemptsInv /\ VerdictInv /\ [Next]_vars => VerdictInv'
  <1> SUFFICES ASSUME TypeInv, KeysInv, AttemptsInv, VerdictInv, [Next]_vars
               PROVE  VerdictInv'
    OBVIOUS
  <1>1. CASE Open
    <2>1. sent = {} /\ UNCHANGED sent /\ UNCHANGED gatewayVars /\ pc = "idle"
      BY <1>1 DEF Open, AttemptsInv, histories
    <2>2. CASE Refused
      BY <1>1, <2>1, <2>2 DEF Open, VerdictInv, AnsweredInv
    <2>3. CASE ~Refused
      <3>1. Enter(0)
        BY <1>1, <2>3 DEF Open
      <3>2. AnsweredInv'
        BY <2>1, <3>1, FreshKeyOwesNothing
      <3>3. QED
        BY <3>2 DEF VerdictInv
    <2>4. QED
      BY <2>2, <2>3
  <1>2. CASE MemberReturns
    <2>1. UNCHANGED sent /\ UNCHANGED gatewayVars /\ UNCHANGED unanswered /\ pc = "done"
          /\ UNCHANGED <<asked, request>>
      BY <1>2 DEF MemberReturns, histories
    <2>2. CASE index' = index + 1
      <3>1. Enter(index + 1)
        BY <1>2, <2>2, IndexType DEF MemberReturns
      <3>2. \A r \in sent : r.key # KeyOf(index)'
        BY <2>1, <2>2, NextIsFresh
      <3>3. AnsweredInv'
        BY <2>1, <3>1, <3>2, FreshKeyOwesNothing
      <3>4. QED
        BY <3>3 DEF VerdictInv
    <2>3. CASE index' = index
      <3>1. UNCHANGED <<pc, outcome, response>>
        BY <1>2, <2>3, IndexType DEF MemberReturns
      <3>2. KeyOf(index)' = KeyOf(index)
        BY <2>1, <2>3 DEF KeyOf
      <3>3. ASSUME AnsweredInv PROVE AnsweredInv'
        BY <2>1, <3>1, <3>2, <3>3 DEF AnsweredInv, Told, Ours, ChargedKey, gatewayVars
      <3>4. QED
        BY <2>1, <3>2, <3>3 DEF VerdictInv
    <2>4. QED
      BY <1>2, <2>2, <2>3 DEF MemberReturns
  <1>3. ASSUME UNCHANGED callVars, KeyOf(index) \notin unanswered' => AnsweredInv'
        PROVE  VerdictInv'
    BY <1>3, SameMember DEF VerdictInv
  <1>4. CASE Send
    <2>1. /\ KeyOf(index)' = KeyOf(index) /\ Live' = Live /\ pc = "send" /\ pc' = "wait"
          /\ inflight' = inflight \cup {Live} /\ UNCHANGED <<running, charged, unanswered>>
      BY <1>4, SameMember DEF Send, Outgoing
    <2>2. ASSUME KeyOf(index) \notin unanswered PROVE AnsweredInv'
      <3>1. Ours(inflight \cup running) = {} /\ ~ChargedKey
        BY <2>1, <2>2 DEF VerdictInv, AnsweredInv, Told
      <3>2. OneOutstanding'
        BY <2>1, <3>1 DEF OneOutstanding, Ours, ChargedKey
      <3>3. QED
        BY <2>1, <3>2 DEF AnsweredInv
    <2>3. QED
      BY <1>3, <1>4, <2>1, <2>2 DEF Send
  <1>5. ASSUME NEW how, NoAnswerComes(how) PROVE VerdictInv'
    BY <1>3, <1>5 DEF NoAnswerComes, Live
  <1>6. CASE CertificateFails
    BY <1>3, <1>6 DEF CertificateFails, Live
  <1>7. ASSUME NEW a \in Answers, HeadArrives(a) PROVE VerdictInv'
    <2>1. UNCHANGED callVars /\ UNCHANGED gatewayVars /\ UNCHANGED unanswered /\ pc = "wait"
      BY <1>7 DEF HeadArrives, histories
    <2>2. ASSUME KeyOf(index) \notin unanswered PROVE AnsweredInv'
      <3>1. Told(a.charged) /\ a \in Answer
        BY <1>7, <2>1, <2>2, AnswersTell, AnswersAssumption
           DEF VerdictInv, AnsweredInv, HeadArrives
      <3>2. Ours(inflight \cup running)' = {} /\ (a.charged <=> ChargedKey')
        BY <2>1, <3>1, AccountStays
      <3>3. CASE pc' = "done" /\ outcome' = Result("stream", FALSE)
        BY <3>3 DEF AnsweredInv, Result, IsVerdict
      <3>4. CASE pc' = "read" /\ response' = HeadOf(a)
        <4>1. ~response'.committed /\ response'.answer.charged = a.charged
          BY <3>4 DEF HeadOf
        <4>2. QED
          BY <3>2, <3>4, <4>1 DEF AnsweredInv, Told
      <3>5. QED
        BY <1>7, <3>3, <3>4 DEF HeadArrives, Settle
    <2>3. QED
      BY <1>3, <2>1, <2>2
  <1>8. CASE EarlyHead
    <2>1. /\ UNCHANGED callVars /\ UNCHANGED gatewayVars /\ UNCHANGED unanswered /\ pc = "wait"
          /\ attempt' = attempt
      BY <1>8 DEF EarlyHead, histories
    <2>2. ASSUME KeyOf(index) \notin unanswered PROVE AnsweredInv'
      <3>1. OneOutstanding
        BY <2>1, <2>2 DEF VerdictInv, AnsweredInv
      <3>2. OneOutstanding'
        BY <2>1, <3>1, SameMember DEF OneOutstanding, Ours, gatewayVars
      <3>3. CASE pc' = "done" /\ outcome' = Result("stream", FALSE)
        BY <3>3 DEF AnsweredInv, Result, IsVerdict
      <3>4. CASE pc' = "read" /\ response' = Committed
        BY <3>2, <3>4 DEF AnsweredInv, Committed
      <3>5. QED
        BY <1>8, <3>3, <3>4 DEF EarlyHead, Settle
    <2>3. QED
      BY <1>3, <2>1, <2>2
  <1>9. CASE BodyReads
    <2>1. UNCHANGED callVars
      BY <1>9 DEF BodyReads, BodyEnds, SettledEnds, BodyBreaks, CommittedCut
    <2>2. QED
      BY <1>3, <1>9, <2>1, ReadingTells
  <1>10. CASE Wake
    <2>1. UNCHANGED callVars /\ UNCHANGED gatewayVars /\ UNCHANGED unanswered
          /\ pc = "sleep" /\ pc' = "send"
      BY <1>10 DEF Wake, histories
    <2>2. ASSUME KeyOf(index) \notin unanswered PROVE AnsweredInv'
      <3>1. Told(FALSE)
        BY <2>1, <2>2 DEF VerdictInv, AnsweredInv
      <3>2. Ours(inflight \cup running)' = {} /\ (FALSE <=> ChargedKey')
        BY <2>1, <3>1, AccountStays
      <3>3. QED
        BY <2>1, <3>2 DEF AnsweredInv, Told
    <2>3. QED
      BY <1>3, <2>1, <2>2
  <1>11. CASE GatewayStep
    <2>1. UNCHANGED callVars /\ UNCHANGED unanswered
      BY <1>11 DEF GatewayStep, histories
    <2>2. QED
      BY <1>3, <1>11, <2>1, GatewayKeepsItsWord DEF VerdictInv
  <1>12. CASE UNCHANGED vars
    <2>1. UNCHANGED callVars /\ UNCHANGED gatewayVars
          /\ UNCHANGED <<unanswered, asked, pc, attempt, response, outcome>>
      BY <1>12 DEF vars, callVars, loopVars, histories
    <2>2. ASSUME AnsweredInv PROVE AnsweredInv'
      BY <2>1, <2>2, SameMember
         DEF AnsweredInv, Told, OneOutstanding, Ours, ChargedKey, gatewayVars
    <2>3. QED
      BY <1>3, <2>1, <2>2 DEF VerdictInv
  <1>13. QED
    BY <1>1, <1>2, <1>4, <1>5, <1>6, <1>7, <1>8, <1>9, <1>10, <1>11, <1>12 DEF Next, Over

(* Of a chat, a deferred job or an embedding whose every attempt got its      *)
(* answer: an error without a receipt means that the account was not charged  *)
(* under the member's key and will not be, one with a receipt that it was     *)
(* (client.py:151-203).                                                       *)
THEOREM TheVerdictIsTheBill == Spec => []VerdictIsTheBill
  <1>1. AttemptsInv /\ VerdictInv => VerdictIsTheBill
    BY DEF AttemptsInv, VerdictInv, AnsweredInv, VerdictIsTheBill, IsVerdict, Told
  <1>2. Spec => []VerdictInv
    BY TypeInvHolds, KeysInvHolds, AttemptsInvHolds, VerdictInvInit, VerdictInvStep, PTL
       DEF Spec
  <1>3. QED
    BY <1>1, <1>2, AttemptsInvHolds, PTL

-----------------------------------------------------------------------------
(* After a charge.  request() never retries a charged error, and a stream     *)
(* that forgets the receipt of a refusal has no chain to advance on; but a    *)
(* chain advances on a capability refusal, whatever it cost: that nothing is  *)
(* sent after a charge rests on the gateway refusing a capability for free.   *)

CapabilityIsFree == \A a \in Answers : PyErrorClass(a) = "Capability" => ~a.charged

(* What is paid for ended the loop, and what the thread reads of a head is    *)
(* one of the gateway's answers.                                              *)
Final == Advances => asked.op = "stream"
PaidInv ==
  /\ response.answer \in Answers \cup {NoAnswer}
  /\ paid => pc = "done" /\ Final

LEMMA PaidInvInit == Init => PaidInv
  BY DEF Init, PaidInv, NoHead

LEMMA ChargedIsFinal ==
  ASSUME CapabilityIsFree, NEW a \in Answers, NEW b \in {a, Bodiless(a)}, a.charged,
         Conclude(b)
  PROVE  pc' = "done" /\ ~Advances'
  <1>1. a \in Answer /\ b \in Answer /\ b.charged
    BY AnswersAssumption, BodilessKeeps
  <1>2. PyErrorClass(b) # "Capability"
    <2>1. Bodiless(a).type = "http_status" /\ "http_status" \notin DOMAIN ByType
      BY DEF Bodiless, HttpType, ByType
    <2>2. PyErrorClass(Bodiless(a)) \in {"Unavailable", "Error"}
      BY <2>1 DEF PyErrorClass
    <2>3. QED
      BY <2>2 DEF CapabilityIsFree
  <1>3. PyRetryable(b) = FALSE
    BY <1>1, ErrorTypes
  <1>4. Settle(Result("data", b.charged)) \/ Settle(Failure(b))
    BY <1>3 DEF Conclude, Retries
  <1>5. /\ Result("data", b.charged).kind = "data"
        /\ Failure(b).retryable = FALSE /\ Failure(b).class # "Capability"
    BY <1>2, <1>3 DEF Result, Failure
  <1>6. QED
    BY <1>4, <1>5 DEF Settle, Advances

LEMMA ReadingIsFinal ==
  ASSUME CapabilityIsFree, TypeInv, PaidInv, BodyReads, ~paid, paid'
  PROVE  pc' = "done" /\ Final'
  <1>1. ASSUME NEW a \in {response.answer, Bodiless(response.answer)}, BodyEnds(a)
        PROVE  pc' = "done" /\ Final'
    <2>1. asked' = asked /\ a.charged
      BY <1>1 DEF BodyEnds, callVars
    <2>2. CASE asked.op = "stream"
      BY <1>1, <2>1, <2>2 DEF BodyEnds, Settle, Final
    <2>3. CASE asked.op # "stream"
      <3>1. response.answer \in Answer /\ response.answer.charged
        BY <2>1, BodilessKeeps DEF TypeInv, TypeOK
      <3>2. response.answer \in Answers
        <4>1. NoAnswer.charged = FALSE
          BY DEF NoAnswer
        <4>2. QED
          BY <3>1, <4>1 DEF PaidInv
      <3>3. QED
        BY <1>1, <2>3, <3>1, <3>2, ChargedIsFinal DEF BodyEnds, Final
    <2>4. QED
      BY <2>2, <2>3
  <1>2. ASSUME NEW a \in Answers, SettledEnds(a) PROVE pc' = "done" /\ Final'
    BY <1>2, ChargedIsFinal DEF SettledEnds, Final
  <1>3. QED
    BY <1>1, <1>2 DEF BodyReads, CommittedCut, BodyBreaks

LEMMA PaidInvStep ==
  ASSUME CapabilityIsFree
  PROVE  TypeInv /\ AttemptsInv /\ PaidInv /\ [Next]_vars => PaidInv'
  <1> SUFFICES ASSUME TypeInv, AttemptsInv, PaidInv, [Next]_vars PROVE PaidInv'
    OBVIOUS
  <1>1. response'.answer \in Answers \cup {NoAnswer}
    <2>1. ASSUME NEW a \in Answers, HeadArrives(a)
          PROVE  response'.answer \in Answers \cup {NoAnswer}
      BY <2>1 DEF HeadArrives, HeadOf
    <2>2. CASE EarlyHead \/ Wake \/ MemberReturns
      <3>1. Committed.answer = NoAnswer /\ NoHead.answer = NoAnswer
        BY DEF Committed, NoHead
      <3>2. response' \in {response, Committed, NoHead}
        BY <2>2 DEF EarlyHead, Wake, MemberReturns
      <3>3. QED
        BY <3>1, <3>2 DEF PaidInv
    <2>3. CASE UNCHANGED response
      BY <2>3 DEF PaidInv
    <2>4. QED
      BY <2>1, <2>2, <2>3 DEF Next, Open, Send, NoAnswerComes, CertificateFails, BodyReads,
         BodyEnds, SettledEnds, BodyBreaks, CommittedCut, GatewayStep, Over, vars, loopVars
  <1>2. CASE ~paid
    <2>1. ASSUME paid' PROVE BodyReads
      BY <1>2, <2>1 DEF Next, Open, Send, NoAnswerComes, CertificateFails, HeadArrives,
         EarlyHead, Wake, MemberReturns, GatewayStep, Over, vars, histories
    <2>2. QED
      BY <1>1, <1>2, <2>1, ReadingIsFinal DEF PaidInv
  <1>3. CASE paid
    <2>1. pc = "done" /\ Final /\ turn # "new"
      BY <1>3 DEF PaidInv, AttemptsInv
    <2>2. CASE MemberReturns
      <3>1. index \in Nat /\ (asked.op = "stream" => Len(Members) = 1)
        BY IndexType DEF Members
      <3>2. ~(Advances /\ index + 1 < Len(Members))
        <4>1. Advances => Len(Members) = 1
          BY <2>1, <3>1, Zenon DEF Final
        <4>2. Len(Members) = 1 => ~(index + 1 < Len(Members))
          BY <3>1
        <4>3. QED
          BY <4>1, <4>2, Zenon
      <3>3. UNCHANGED <<pc, outcome, asked>>
        BY <2>2, <3>2 DEF MemberReturns
      <3>4. QED
        BY <1>1, <2>1, <3>3 DEF PaidInv, Final, Advances
    <2>3. CASE ~MemberReturns
      <3>1. UNCHANGED <<pc, outcome, asked>>
        BY <2>1, <2>3 DEF Next, Open, Send, NoAnswerComes, CertificateFails, HeadArrives,
           EarlyHead, BodyReads, BodyEnds, SettledEnds, BodyBreaks, CommittedCut, Wake,
           GatewayStep, Over, vars, callVars, loopVars
      <3>2. QED
        BY <1>1, <2>1, <3>1 DEF PaidInv, Final, Advances
    <2>4. QED
      BY <2>2, <2>3
  <1>4. QED
    BY <1>2, <1>3 DEF TypeInv, TypeOK

-----------------------------------------------------------------------------
(* The refinement of BilledTurn: every step maps to a step of the abstract    *)
(* turn or to none.                                                           *)

LEMMA InitRefines == Init => Billed!Init
  <1> SUFFICES ASSUME Init PROVE Billed!Init
    OBVIOUS
  <1>1. AbstractState = "open" /\ Tried = {}
    BY DEF Init, AbstractState, HandedUp, Tried
  <1>2. QED
    BY <1>1 DEF Init, Billed!Init, Tried

(* Only a head that came in hands up a stream.                                *)
LEMMA ReadingKinds ==
  ASSUME BodyReads, pc' = "done" PROVE outcome'.kind # "stream"
  <1>1. /\ \A c : Result("data", c).kind = "data" /\ Result("raw", c).kind = "raw"
        /\ \A c : Fault(c).kind = "error" /\ Failure(c).kind = "error"
    BY DEF Result, Fault, Failure
  <1>2. ASSUME NEW a, Conclude(a) PROVE outcome'.kind # "stream"
    BY <1>1, <1>2 DEF Conclude, RetryOr, Settle
  <1>3. ASSUME NEW a, BodyEnds(a) PROVE outcome'.kind # "stream"
    <2>1. Conclude(a) \/ Settle(Failure(Unreceipted(a)))
      BY <1>3 DEF BodyEnds
    <2>2. QED
      BY <1>1, <1>2, <2>1 DEF Settle
  <1>4. ASSUME NEW a, SettledEnds(a) PROVE outcome'.kind # "stream"
    BY <1>2, <1>4 DEF SettledEnds
  <1>5. ASSUME NEW how, BodyBreaks(how) \/ CommittedCut PROVE outcome'.kind # "stream"
    BY <1>1, <1>5 DEF BodyBreaks, CommittedCut, Stops, RetryOr, Settle
  <1>6. QED
    BY <1>3, <1>4, <1>5 DEF BodyReads

LEMMA OutcomeRefines ==
  ASSUME TypeInv, AttemptsInv, UNCHANGED <<callVars, sent>>,
         pc \in {"wait", "read"}, pc' \in {"read", "sleep", "done"}, paid' \in {paid, TRUE},
         pc' = "done" /\ outcome'.kind = "stream" => UNCHANGED paid
  PROVE  [Billed!Next]_(Billed!turnVars)
  <1>1. AbstractState = "open" /\ turn = "open" /\ turn' = "open"
    BY OpenInside DEF AbstractState, HandedUp, callVars
  <1>2. Tried # {} /\ Tried' = Tried /\ index' = index
    BY SameMember DEF AttemptsInv, Tried, callVars
  <1>3. CASE pc' = "done" /\ outcome'.kind = "data"
    <2>1. AbstractState' = "returned"
      BY <1>3 DEF AbstractState, HandedUp
    <2>2. Billed!Return
      BY <1>1, <1>2, <1>3, <2>1 DEF Billed!Return, Tried
    <2>3. QED
      BY <2>2 DEF Billed!Next
  <1>4. CASE pc' = "done" /\ outcome'.kind = "stream"
    <2>1. AbstractState' = "streaming"
      BY <1>4 DEF AbstractState, HandedUp
    <2>2. Billed!OpenStream
      BY <1>1, <1>2, <1>4, <2>1 DEF Billed!OpenStream, Tried
    <2>3. QED
      BY <2>2 DEF Billed!Next
  <1>5. CASE ~(pc' = "done" /\ outcome'.kind \in {"data", "stream"})
    <2>1. AbstractState' = "open"
      BY <1>1, <1>5 DEF AbstractState, HandedUp
    <2>2. CASE UNCHANGED paid
      BY <1>1, <1>2, <2>1, <2>2 DEF Billed!turnVars, Tried
    <2>3. CASE ~UNCHANGED paid
      <3>1. Billed!ReadBill
        BY <1>1, <1>2, <2>1, <2>3 DEF Billed!ReadBill, Tried
      <3>2. QED
        BY <3>1 DEF Billed!Next
    <2>4. QED
      BY <2>2, <2>3
  <1>6. QED
    BY <1>3, <1>4, <1>5

(* The chain the abstract turn walks is no longer than the longest one.       *)
LEMMA MembersBounded == ASSUME TypeInv PROVE Len(Members) <= MaxMembers
  <1>1. asked \in Turns /\ request = RequestOf(asked)
    BY DEF TypeInv, TypeOK
  <1>2. Len(<<request.model>>) = 1 /\ MaxMembers \in Nat \ {0}
    BY PyChatAssumption
  <1>3. QED
    BY <1>1, <1>2, PyChatAssumption DEF Members

LEMMA StepRefines ==
  TypeInv /\ KeysInv /\ PaidInv /\ AttemptsInv /\ [Next]_vars
    => [Billed!Next]_(Billed!turnVars)
  <1> SUFFICES ASSUME TypeInv, KeysInv, PaidInv, AttemptsInv, [Next]_vars
               PROVE  [Billed!Next]_(Billed!turnVars)
    OBVIOUS
  <1>0. index \in Nat /\ attempt \in 0 .. MaxRetries
    BY IndexType DEF TypeInv, TypeOK
  <1>1. CASE Open
    <2>1. pc = "idle" /\ UNCHANGED <<sent, index, paid, asked, request>> /\ sent = {}
      BY <1>1 DEF Open, AttemptsInv, histories
    <2>2. Tried' = Tried
      BY <2>1 DEF Tried
    <2>3. AbstractState = "open" /\ AbstractState' \in {"open", "failed"}
      <3>1. CASE Refused
        BY <1>1, <2>1, <3>1 DEF Open, AbstractState, HandedUp
      <3>2. CASE ~Refused
        <4>1. turn' = "open" /\ (pc' = "send" \/ (pc' = "done" /\ outcome'.kind = "refused"))
          BY <1>1, <3>2, EnterKinds DEF Open
        <4>2. QED
          BY <1>1, <2>1, <4>1 DEF Open, AbstractState, HandedUp
      <3>3. QED
        BY <3>1, <3>2
    <2>4. QED
      BY <2>1, <2>2, <2>3 DEF Billed!Next, Billed!Fail, Billed!turnVars, Tried
  <1>2. CASE MemberReturns
    <2>1. UNCHANGED <<sent, paid, asked, request>> /\ pc = "done" /\ turn = "open"
      BY <1>2 DEF MemberReturns, histories
    <2>2. CASE outcome.kind \in {"data", "stream"}
      <3>1. UNCHANGED <<index, pc, outcome>> /\ turn' = "completed"
        BY <1>2, <2>2 DEF MemberReturns
      <3>2. AbstractState' = AbstractState /\ Tried' = Tried
        BY <2>1, <2>2, <3>1 DEF Tried, KeyOf, AbstractState, HandedUp
      <3>3. QED
        BY <2>1, <3>1, <3>2 DEF Billed!turnVars, Tried
    <2>3. CASE outcome.kind \notin {"data", "stream"} /\ index' = index
      <3>1. UNCHANGED <<index, pc, outcome>> /\ turn' = "thrown"
        BY <1>0, <1>2, <2>3 DEF MemberReturns
      <3>2. AbstractState = "open" /\ AbstractState' = "failed" /\ Tried' = Tried
        BY <2>1, <2>3, <3>1 DEF Tried, KeyOf, AbstractState, HandedUp
      <3>3. Billed!Fail
        BY <2>1, <3>1, <3>2 DEF Billed!Fail, Tried
      <3>4. QED
        BY <3>3 DEF Billed!Next
    <2>4. CASE outcome.kind \notin {"data", "stream"} /\ index' = index + 1
      <3>1. /\ Advances /\ index + 1 < Len(Members) /\ Enter(index + 1) /\ turn' = "open"
        BY <1>0, <1>2, <2>4 DEF MemberReturns
      <3>2. pc' = "send" \/ (pc' = "done" /\ outcome'.kind = "refused")
        BY <3>1, EnterKinds
      <3>3. AbstractState = "open" /\ AbstractState' = "open"
        BY <2>1, <2>4, <3>1, <3>2 DEF AbstractState, HandedUp
      <3>4. ~paid
        <4>1. asked.op = "stream" => Len(Members) = 1
          BY DEF Members
        <4>2. Len(Members) = 1 => ~(index + 1 < Len(Members))
          BY <1>0
        <4>3. asked.op # "stream"
          BY <3>1, <4>1, <4>2, Zenon
        <4>4. QED
          BY <3>1, <4>3, Zenon DEF PaidInv, Final
      <3>5. index + 1 < MaxMembers
        BY <1>0, <3>1, MembersBounded, MembersType, PyChatAssumption
      <3>6. Tried' = {}
        BY <2>1, <2>4, NextIsFresh DEF Tried
      <3>7. Billed!Fallback
        BY <2>1, <2>4, <3>3, <3>4, <3>5, <3>6 DEF Billed!Fallback, Tried
      <3>8. QED
        BY <3>7 DEF Billed!Next
    <2>5. QED
      BY <1>2, <2>2, <2>3, <2>4 DEF MemberReturns
  <1>3. CASE Send
    <2>1. /\ turn = "open" /\ turn' = "open" /\ pc = "send" /\ pc' = "wait"
          /\ UNCHANGED <<index, paid>>
      BY <1>3, OpenInside DEF Send, callVars
    <2>2. AbstractState = "open" /\ AbstractState' = "open"
      BY <2>1 DEF AbstractState, HandedUp
    <2>3. KeyOf(index)' = KeyOf(index) /\ sent' = sent \cup {Live}
          /\ Live.key = KeyOf(index) /\ Live.n = attempt
      BY <1>3, SameMember DEF Send, Outgoing, Live
    <2>4. Tried' = Tried \cup {attempt} /\ attempt \notin Tried
      BY <2>1, <2>3 DEF Tried, AttemptsInv
    <2>5. ~paid
      BY <2>1 DEF PaidInv
    <2>6. Billed!Attempt
      BY <1>0, <2>1, <2>2, <2>4, <2>5 DEF Billed!Attempt, Tried
    <2>7. QED
      BY <2>6 DEF Billed!Next
  <1>4. CASE Wake
    <2>1. /\ turn = "open" /\ turn' = "open" /\ pc = "sleep" /\ pc' = "send"
          /\ UNCHANGED <<index, paid, sent>>
      BY <1>4, OpenInside DEF Wake, callVars, histories
    <2>2. AbstractState = "open" /\ AbstractState' = "open"
      BY <2>1 DEF AbstractState, HandedUp
    <2>3. Tried' = Tried
      BY <1>4, <2>1, SameMember DEF Wake, Tried
    <2>4. QED
      BY <2>1, <2>2, <2>3 DEF Billed!turnVars, Tried
  <1>5. ASSUME NEW how, NoAnswerComes(how) PROVE [Billed!Next]_(Billed!turnVars)
    <2>1. pc' \in {"sleep", "done"} /\ UNCHANGED paid
      BY <1>5, StopsEnds DEF NoAnswerComes, PausesOrEnds
    <2>2. QED
      BY <1>5, <2>1, OutcomeRefines DEF NoAnswerComes
  <1>6. CASE CertificateFails
    BY <1>6, OutcomeRefines DEF CertificateFails, Settle
  <1>7. ASSUME NEW a \in Answers, HeadArrives(a) PROVE [Billed!Next]_(Billed!turnVars)
    BY <1>7, OutcomeRefines DEF HeadArrives, Settle, histories
  <1>8. CASE EarlyHead
    BY <1>8, OutcomeRefines DEF EarlyHead, Settle, histories
  <1>9. CASE BodyReads
    <2>1. pc = "read" /\ UNCHANGED <<callVars, sent>>
      BY <1>9 DEF BodyReads, BodyEnds, SettledEnds, BodyBreaks, CommittedCut
    <2>2. paid' \in {paid, TRUE}
      <3>1. ASSUME NEW a \in Answer, paid' = (paid \/ a.charged) PROVE paid' \in {paid, TRUE}
        BY <3>1 DEF TypeInv, TypeOK, Answer
      <3>2. ASSUME NEW a \in {response.answer, Bodiless(response.answer)}, BodyEnds(a)
            PROVE  a \in Answer /\ paid' = (paid \/ a.charged)
        BY <3>2, ForgottenTypes DEF BodyEnds, TypeInv, TypeOK
      <3>3. ASSUME NEW a \in Answers, SettledEnds(a)
            PROVE  a \in Answer /\ paid' = (paid \/ a.charged)
        BY <3>3, AnswersAssumption DEF SettledEnds
      <3>4. QED
        BY <1>9, <3>1, <3>2, <3>3 DEF BodyReads, BodyBreaks, CommittedCut
    <2>3. PausesOrEnds
      BY <1>9, BodyReadsEnds
    <2>4. pc' = "done" => outcome'.kind # "stream"
      BY <1>9, ReadingKinds
    <2>5. QED
      BY <2>1, <2>2, <2>3, <2>4, OutcomeRefines DEF PausesOrEnds
  <1>10. CASE GatewayStep \/ UNCHANGED vars
    <2>1. UNCHANGED callVars /\ UNCHANGED <<turn, index, pc, outcome, sent, paid>>
      BY <1>10 DEF GatewayStep, vars, callVars, loopVars, histories
    <2>2. Tried' = Tried /\ AbstractState' = AbstractState
      BY <2>1, SameMember DEF Tried, AbstractState, HandedUp
    <2>3. QED
      BY <2>1, <2>2 DEF Billed!turnVars, Tried
  <1>11. QED
    BY <1>1, <1>2, <1>3, <1>4, <1>5, <1>6, <1>7, <1>8, <1>9, <1>10 DEF Next, Over

(* A Python turn implements BilledTurn: the chain is only walked forward, a   *)
(* member is tried at most MaxRetries + 1 times, and once a receipt was read  *)
(* nothing more is sent (client.py:130-235), if the gateway refuses  *)
(* a capability for free.                                                     *)
THEOREM TurnImplementsBilledTurn ==
  ASSUME CapabilityIsFree PROVE Spec => ImplementsBilledTurn
  <1>1. Spec => []PaidInv
    BY TypeInvHolds, AttemptsInvHolds, PaidInvInit, PaidInvStep, PTL DEF Spec
  <1>2. QED
    BY <1>1, InitRefines, StepRefines, TypeInvHolds, KeysInvHolds, AttemptsInvHolds, PTL
       DEF Spec, ImplementsBilledTurn, Billed!Spec

-----------------------------------------------------------------------------
(* The reading of a stream.  Over PyStream a turn is a turn of PyChat, so     *)
(* that all of the above holds while a stream is opened and read.             *)
THEOREM StreamedTurnsAreTurns == PSSpec => Spec
  <1>1. PSInit => Init
    BY DEF PSInit
  <1>2. [PSNext]_psVars => [Next]_vars
    BY DEF PSNext, StreamStep, psVars
  <1>3. QED
    BY <1>1, <1>2, PTL DEF PSSpec, Spec

(* The chunks among the first n of a sequence, and that the loop goes on      *)
(* after them; how many of the frames that came were taken up.                *)
ChunksIn(s, n) == {i \in 1 .. n : s[i] = "chunk"}
GoesOn(s, n) == \A i \in 1 .. n : s[i] \notin {"done", "error"}
Taken == Len(came) - Len(frames) - IF over \in Frames THEN 1 ELSE 0

(* What was taken up is what came first, the chunks among it were given, and  *)
(* only the last of it, or the end of the body, ended the loop.               *)
PSTypes ==
  /\ stage \in {"new", "running", "held", "ended", "raised", "left"}
  /\ frames \in Seq(Frames) /\ over \in Tails \cup {"open", "broken"}
  /\ given \in Nat /\ came \in Seq(Frames) /\ Taken \in Nat
StreamInv ==
  /\ PSTypes
  /\ \A i \in 1 .. Len(frames) : came[Taken + i] = frames[i]
  /\ over \in Frames => came[Len(came)] = over
  /\ given = Cardinality(ChunksIn(came, Taken))
  /\ stage \notin {"ended", "raised"} => GoesOn(came, Taken)
  /\ stage = "ended" =>
       \/ Taken > 0 /\ came[Taken] = "done" /\ GoesOn(came, Taken - 1)
       \/ over \in Tails /\ Taken = Len(came) /\ GoesOn(came, Taken)

LEMMA ChunksAreFinite ==
  ASSUME NEW s, NEW n \in Nat
  PROVE  IsFiniteSet(ChunksIn(s, n)) /\ Cardinality(ChunksIn(s, n)) \in Nat
  <1>1. IsFiniteSet(1 .. n) /\ ChunksIn(s, n) \subseteq 1 .. n
    BY FS_Interval DEF ChunksIn
  <1>2. QED
    BY <1>1, FS_Subset, FS_CardinalityType

(* One frame more. *)
LEMMA OneMoreChunk ==
  ASSUME NEW s, NEW n \in Nat
  PROVE  Cardinality(ChunksIn(s, n + 1)) =
           Cardinality(ChunksIn(s, n)) + IF s[n + 1] = "chunk" THEN 1 ELSE 0
  <1>1. CASE s[n + 1] = "chunk"
    <2>1. ChunksIn(s, n + 1) = ChunksIn(s, n) \cup {n + 1} /\ n + 1 \notin ChunksIn(s, n)
      BY <1>1 DEF ChunksIn
    <2>2. QED
      BY <1>1, <2>1, ChunksAreFinite, FS_AddElement
  <1>2. CASE s[n + 1] # "chunk"
    <2>1. ChunksIn(s, n + 1) = ChunksIn(s, n)
      BY <1>2 DEF ChunksIn
    <2>2. QED
      BY <1>2, <2>1, ChunksAreFinite
  <1>3. QED
    BY <1>1, <1>2

(* What comes later changes nothing of it. *)
LEMMA AppendKeeps ==
  ASSUME NEW s \in Seq(Frames), NEW f \in Frames, NEW n \in 0 .. Len(s)
  PROVE  ChunksIn(Append(s, f), n) = ChunksIn(s, n) /\ (GoesOn(Append(s, f), n) <=> GoesOn(s, n))
  <1>1. \A i \in 1 .. n : Append(s, f)[i] = s[i]
    OBVIOUS
  <1>2. QED
    BY <1>1 DEF ChunksIn, GoesOn

(* f, the next of what came, is taken up. *)
LEMMA TakeKeeps ==
  ASSUME StreamInv, NEW f \in Frames, stage = "running", Take(f), came[Taken + 1] = f
  PROVE  /\ stage' \in {"held", "ended", "raised", "running"} /\ given' \in Nat
         /\ given' = Cardinality(ChunksIn(came, Taken + 1))
         /\ stage' \notin {"ended", "raised"} => GoesOn(came, Taken + 1)
         /\ stage' = "ended" => came[Taken + 1] = "done" /\ GoesOn(came, Taken)
  <1> DEFINE n == Taken
  <1>1. n \in Nat /\ given = Cardinality(ChunksIn(came, n)) /\ given \in Nat /\ GoesOn(came, n)
    BY DEF StreamInv, PSTypes
  <1>2. \/ f = "chunk" /\ stage' = "held" /\ given' = given + 1
        \/ f = "done" /\ stage' = "ended" /\ given' = given
        \/ f = "error" /\ stage' = "raised" /\ given' = given
        \/ f = "noise" /\ stage' = "running" /\ given' = given
    BY DEF Take, Frames
  <1> HIDE DEF n
  <1>3. given' = Cardinality(ChunksIn(came, n + 1))
    <2>1. came[n + 1] = f
      BY DEF n
    <2>2. QED
      BY <1>1, <1>2, <2>1, OneMoreChunk
  <1>4. f \notin {"done", "error"} => GoesOn(came, n + 1)
    <2>1. came[n + 1] = f
      BY DEF n
    <2>2. QED
      BY <1>1, <2>1 DEF GoesOn
  <1>5. QED
    BY <1>1, <1>2, <1>3, <1>4 DEF n

LEMMA StreamInvHolds == PSSpec => []StreamInv
  <1>1. PSInit => StreamInv
    <2>1. ASSUME PSInit PROVE Taken = 0 /\ PSTypes /\ came = <<>> /\ frames = <<>> /\ given = 0
                              /\ over = "open" /\ stage = "new"
      <3>1. <<>> \in Seq(Frames) /\ Len(<<>>) = 0 /\ "open" \notin Frames
        BY DEF Frames
      <3>2. Taken = 0
        <4>1. /\ over \notin Frames /\ Len(came) = 0 /\ Len(frames) = 0
              /\ came \in Seq(Frames) /\ frames \in Seq(Frames)
          BY <2>1, <3>1 DEF PSInit
        <4>2. Taken = Len(came) - Len(frames) - 0
          BY <4>1, Zenon DEF Taken
        <4>3. QED
          BY <4>1, <4>2, SMT
      <3>3. QED
        BY <2>1, <3>1, <3>2 DEF PSInit, PSTypes
    <2>2. ChunksIn(<<>>, 0) = {} /\ GoesOn(<<>>, 0)
      BY DEF ChunksIn, GoesOn
    <2>3. QED
      BY <2>1, <2>2, FS_EmptySet DEF StreamInv, Frames
  <1>2. StreamInv /\ [PSNext]_psVars => StreamInv'
    <2> SUFFICES ASSUME StreamInv, [PSNext]_psVars PROVE StreamInv'
      OBVIOUS
    <2>1. CASE UNCHANGED streamVars
      BY <2>1 DEF StreamInv, PSTypes, Taken, streamVars
    <2>2. ASSUME NEW f \in Frames, FrameComes(f) PROVE StreamInv'
      <3>1. /\ over = "open" /\ over' = over /\ stage' = stage /\ given' = given
            /\ came' = Append(came, f) /\ frames' = Append(frames, f)
        BY <2>2 DEF FrameComes
      <3>2. /\ Taken' = Taken /\ Taken \in 0 .. Len(came) /\ PSTypes'
            /\ Len(came) = Taken + Len(frames)
        BY <3>1 DEF StreamInv, PSTypes, Taken, Frames, Tails
      <3>3. ASSUME NEW i \in 1 .. Len(frames') PROVE came'[Taken + i] = frames'[i]
        <4>1. /\ came \in Seq(Frames) /\ frames \in Seq(Frames) /\ Len(frames') = Len(frames) + 1
              /\ Len(frames) \in Nat /\ Taken \in Nat
          BY <3>1 DEF StreamInv, PSTypes
        <4>2. CASE i \in 1 .. Len(frames)
          <5>1. came[Taken + i] = frames[i] /\ Taken + i \in 1 .. Len(came)
            BY <3>2, <4>1, <4>2 DEF StreamInv
          <5>2. QED
            BY <3>1, <4>1, <4>2, <5>1
        <4>3. CASE i = Len(frames) + 1
          <5>1. Taken + i = Len(came) + 1
            BY <3>2, <4>1, <4>3
          <5>2. came'[Len(came) + 1] = f /\ frames'[Len(frames) + 1] = f
            BY <3>1, <4>1
          <5>3. QED
            BY <4>3, <5>1, <5>2
        <4>4. QED
          BY <4>1, <4>2, <4>3
      <3>4. ChunksIn(came', Taken) = ChunksIn(came, Taken)
            /\ (GoesOn(came', Taken) <=> GoesOn(came, Taken))
        BY <3>1, <3>2, AppendKeeps DEF StreamInv, PSTypes
      <3>5. stage = "ended" =>
              Taken > 0 /\ came'[Taken] = "done" /\ GoesOn(came', Taken - 1)
        <4>1. SUFFICES ASSUME stage = "ended"
                       PROVE  Taken > 0 /\ came'[Taken] = "done" /\ GoesOn(came', Taken - 1)
          OBVIOUS
        <4>2. Taken > 0 /\ came[Taken] = "done" /\ GoesOn(came, Taken - 1)
          BY <3>1, <4>1 DEF StreamInv, Tails, Frames
        <4>3. GoesOn(came', Taken - 1)
          BY <3>1, <3>2, <4>2, AppendKeeps DEF StreamInv, PSTypes
        <4>4. came'[Taken] = came[Taken]
          BY <3>1, <3>2, <4>2 DEF StreamInv, PSTypes
        <4>5. QED
          BY <4>2, <4>3, <4>4
      <3>6. QED
        BY <3>1, <3>2, <3>3, <3>4, <3>5 DEF StreamInv, Frames
    <2>3. ASSUME NEW tail \in Tails, BodyIsOver(tail) PROVE StreamInv'
      <3>1. /\ over = "open" /\ over' = tail /\ stage' = stage /\ given' = given
            /\ came' = IF tail \in Frames THEN Append(came, tail) ELSE came
            /\ frames' = frames
        BY <2>3 DEF BodyIsOver
      <3>2. /\ Taken' = Taken /\ Taken \in 0 .. Len(came) /\ PSTypes'
            /\ Len(came) = Taken + Len(frames)
        BY <3>1 DEF StreamInv, PSTypes, Taken, Frames, Tails
      <3>3. \A i \in 1 .. Len(frames') : came'[Taken + i] = frames'[i]
        BY <3>1, <3>2 DEF StreamInv, PSTypes
      <3>4. QED
        BY <3>1, <3>2, <3>3, AppendKeeps DEF StreamInv, PSTypes, Frames, Tails
    <2>4. CASE BodyIsBroken
      BY <2>4 DEF BodyIsBroken, StreamInv, PSTypes, Taken, Frames, Tails
    <2>5. CASE Start \/ Ask \/ Leave \/ ReadFails
      BY <2>5 DEF Start, Ask, Leave, ReadFails, StreamInv, PSTypes, Taken
    <2>6. CASE ReadFrame
      <3>1. /\ stage = "running" /\ frames # <<>> /\ Take(Head(frames))
            /\ frames' = Tail(frames) /\ over' = over /\ came' = came
        BY <2>6 DEF ReadFrame
      <3>2. Head(frames) \in Frames /\ Head(frames) = frames[1] /\ Len(frames) >= 1
        BY <3>1 DEF StreamInv, PSTypes
      <3>3. Taken' = Taken + 1 /\ Taken \in Nat /\ came[Taken + 1] = Head(frames)
        BY <3>1, <3>2 DEF StreamInv, PSTypes, Taken
      <3>4. \A i \in 1 .. Len(frames') : came'[Taken + 1 + i] = frames'[i]
        BY <3>1, <3>2, <3>3 DEF StreamInv, PSTypes
      <3>5. PSTypes'
        BY <3>1, <3>2, <3>3, TakeKeeps DEF StreamInv, PSTypes
      <3>6. QED
        BY <3>1, <3>2, <3>3, <3>4, <3>5, TakeKeeps DEF StreamInv
    <2>7. CASE ReadEnd
      <3>1. /\ stage = "running" /\ frames = <<>> /\ over \in Tails /\ Take(over)
            /\ frames' = frames /\ over' = "none" /\ came' = came
        BY <2>7 DEF ReadEnd, Flushed
      <3>2. CASE over \in Frames
        <4>1. Taken + 1 = Len(came) /\ Taken' = Taken + 1 /\ Taken \in Nat /\ came[Taken + 1] = over
          BY <3>1, <3>2 DEF StreamInv, PSTypes, Taken, Frames, Tails
        <4>2. PSTypes'
          BY <3>1, <3>2, <4>1, TakeKeeps DEF StreamInv, PSTypes, Tails
        <4>3. QED
          BY <3>1, <3>2, <4>1, <4>2, TakeKeeps DEF StreamInv, Frames
      <3>3. CASE over \notin Frames
        <4>1. Taken = Len(came) /\ Taken' = Taken /\ over \in {"none", "half"}
          BY <3>1, <3>3 DEF StreamInv, PSTypes, Taken, Frames, Tails
        <4>2. given' = given /\ stage' \in {"ended", "running"}
          BY <3>1, <4>1 DEF Take
        <4>3. QED
          BY <3>1, <4>1, <4>2 DEF StreamInv, PSTypes, Frames, Tails
      <3>4. QED
        BY <3>2, <3>3
    <2>8. QED
      BY <2>1, <2>2, <2>3, <2>4, <2>5, <2>6, <2>7 DEF PSNext, StreamStep, psVars
  <1>3. QED
    BY <1>1, <1>2, PTL DEF PSSpec

(* A loop over a stream that ends by itself was given every chunk before the  *)
(* terminator or the end of the body, "retaining the existing EOF tail        *)
(* behavior" (jobs.py:47), and passed over no error frame.                    *)
THEOREM StreamsAreWhole == PSSpec => []StreamIsWhole
  <1>1. StreamInv => StreamIsWhole
    <2> SUFFICES ASSUME StreamInv, stage = "ended"
                 PROVE  /\ given = Cardinality({i \in Before : came[i] = "chunk"})
                        /\ \A i \in Before : came[i] # "error"
      BY DEF StreamIsWhole
    <2> DEFINE n == Taken
    <2>1. /\ came \in Seq(Frames) /\ DOMAIN came = 1 .. Len(came) /\ n \in 0 .. Len(came)
          /\ given = Cardinality(ChunksIn(came, n))
      BY DEF StreamInv, PSTypes, Taken
    <2>2. \/ n > 0 /\ came[n] = "done" /\ GoesOn(came, n - 1)
          \/ n = Len(came) /\ GoesOn(came, n)
      BY DEF StreamInv
    <2> HIDE DEF n
    <2>3. CASE n > 0 /\ came[n] = "done" /\ GoesOn(came, n - 1)
      <3>1. Before = 1 .. n - 1
        BY <2>1, <2>3 DEF Before, Ends, GoesOn
      <3>2. {i \in Before : came[i] = "chunk"} = ChunksIn(came, n)
        BY <2>1, <2>3, <3>1 DEF ChunksIn
      <3>3. QED
        BY <2>1, <2>3, <3>1, <3>2 DEF GoesOn
    <2>4. CASE n = Len(came) /\ GoesOn(came, n)
      <3>1. Before = 1 .. n
        BY <2>1, <2>4 DEF Before, Ends, GoesOn
      <3>2. QED
        BY <2>1, <2>4, <3>1 DEF GoesOn, ChunksIn
    <2>5. QED
      BY <2>2, <2>3, <2>4
  <1>2. QED
    BY <1>1, StreamInvHolds, PTL
=============================================================================
