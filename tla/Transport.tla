----------------------------- MODULE Transport ------------------------------
(***************************************************************************)
(* Transport.request of src/src/transport.ts: one request to the gateway,  *)
(* sent up to MaxRetries + 1 times under one idempotency key.              *)
(*                                                                         *)
(* Every await of the source is a place where the process may be           *)
(* overtaken: the wait for headers (pc = "fetch"), the reading of the body *)
(* ("body") and the pause before the next attempt ("sleep").  At each of   *)
(* them the caller may abort, the network may fail, and the gateway may    *)
(* get on with an attempt the client has already given up.                 *)
(***************************************************************************)
EXTENDS Gateway, Sequences

CONSTANT MaxRetries
ASSUME MaxRetriesAssumption == MaxRetries \in Nat

VARIABLES
  pc,         \* where request() is suspended
  key,        \* the idempotency key in the request's headers
  raw,        \* RequestSpec.raw: hand back the response for streaming
  attempt,    \* the loop counter
  aborted,    \* spec.signal.aborted: the caller gave up
  timedOut,   \* the timer of this attempt fired: its controller is aborted
  response,   \* what is known of the response once its head is in
  outcome,    \* what request() returned or threw
  sent,       \* history: the attempts handed to fetch
  paid,       \* history: an answer with a receipt was read
  unanswered  \* history: keys of which an attempt ended without a verdict
localVars == <<pc, key, raw, attempt, timedOut, response, outcome>>
requestVars == <<localVars, aborted, sent, paid, unanswered>>

Live == [key |-> key, n |-> attempt]

(* The head of a response: a definite answer, or the provisional 200 of a     *)
(* response the gateway committed before its answer existed.                  *)
NoAnswer  == [status |-> 0, type |-> HttpType, code |-> "", param |-> "",
              retryShortly |-> FALSE, charged |-> FALSE]
Pending   == [committed |-> FALSE, answer |-> NoAnswer]
Committed == [committed |-> TRUE, answer |-> NoAnswer]
HeadOf(a) == [committed |-> FALSE, answer |-> a]

(* What request() ends in.  "raw" is a rejection that is no ConiferError.     *)
Outcome == [kind : {"none", "data", "stream", "raw", "error"},
            class : Classes \cup {""}, retryable : BOOLEAN, charged : BOOLEAN]
NoOutcome == [kind |-> "none", class |-> "", retryable |-> FALSE, charged |-> FALSE]
Data(a)   == [kind |-> "data", class |-> "", retryable |-> FALSE, charged |-> a.charged]
Stream    == [kind |-> "stream", class |-> "", retryable |-> FALSE, charged |-> FALSE]
RawError  == [kind |-> "raw", class |-> "", retryable |-> FALSE, charged |-> FALSE]
Fault(c)  == [kind |-> "error", class |-> c, retryable |-> TRUE, charged |-> FALSE]
CallerAborted == Fault("Timeout")

(* A bug: the error is built without the receipt of the response. *)
MutDropsReceipt(a) == [kind |-> "error", class |-> ErrorClass(a),
                       retryable |-> FALSE, charged |-> FALSE]

(* The error errorFrom builds, with the receipt if the answer was charged.    *)
Failure(a) == [kind |-> "error", class |-> ErrorClass(a),
               retryable |-> Retryable(a), charged |-> a.charged]

-----------------------------------------------------------------------------
(* request() is over. *)
Settle(o) ==
  /\ pc' = "done"
  /\ outcome' = o
  /\ UNCHANGED attempt

(* A bug: the last attempt pauses too, one attempt too many. *)
MutRetriesOnceMore(o) ==
  IF attempt <= MaxRetries THEN pc' = "sleep" /\ UNCHANGED <<attempt, outcome>>
                           ELSE Settle(o)

(* A fault another attempt may cure: pause before it while there is one left. *)
RetryOr(o) ==
  IF attempt < MaxRetries THEN pc' = "sleep" /\ UNCHANGED <<attempt, outcome>>
                          ELSE Settle(o)

(* An answer was read to its end. *)
Conclude(a) ==
  IF Ok(a) THEN Settle(Data(a))
  ELSE IF Retryable(a) /\ a.status \in RetryableStatus THEN RetryOr(Failure(a))
  ELSE Settle(Failure(a))

-----------------------------------------------------------------------------
RequestInit ==
  /\ pc = "idle" /\ key = <<>> /\ raw = FALSE /\ attempt = 0
  /\ aborted = FALSE /\ timedOut = FALSE
  /\ response = Pending /\ outcome = NoOutcome
  /\ sent = {} /\ paid = FALSE /\ unanswered = {}

(* Enter request(): the headers, and with them the key, are fixed once.       *)
Start(k, isRaw) ==
  /\ pc = "idle"
  /\ pc' = "top" /\ key' = k /\ raw' = isRaw /\ attempt' = 0
  /\ timedOut' = FALSE /\ response' = Pending /\ outcome' = NoOutcome
  /\ UNCHANGED <<gatewayVars, aborted, sent, paid, unanswered>>

(* A bug: every attempt sends a key of its own. *)
MutFreshKey == [key |-> Append(key, attempt), n |-> attempt]

(* The attempt the loop hands to fetch. *)
Outgoing == Live

(* The top of the loop: refuse if the caller is gone, else arm the timer and  *)
(* call fetch.                                                                *)
SendOrRefuse ==
  IF aborted
  THEN Settle(CallerAborted) /\ UNCHANGED <<gatewayVars, timedOut, sent>>
  ELSE /\ pc' = "fetch" /\ timedOut' = FALSE
       /\ inflight' = inflight \cup {Outgoing} /\ sent' = sent \cup {Outgoing}
       /\ UNCHANGED <<attempt, outcome, running, charged>>

Send ==
  /\ pc = "top"
  /\ SendOrRefuse
  /\ UNCHANGED <<key, raw, response, aborted, paid, unanswered>>

(* A bug: the timer is armed once for the request, not once for each attempt. *)
MutTimerFires ==
  /\ pc = "fetch" /\ ~timedOut /\ attempt = 0
  /\ timedOut' = TRUE
  /\ UNCHANGED <<gatewayVars, pc, key, raw, attempt, response, outcome,
                 aborted, sent, paid, unanswered>>

(* setTimeout(() => controller.abort(), timeoutMs) *)
TimerFires ==
  /\ pc = "fetch" /\ ~timedOut
  /\ timedOut' = TRUE
  /\ UNCHANGED <<gatewayVars, pc, key, raw, attempt, response, outcome,
                 aborted, sent, paid, unanswered>>

(* The caller's AbortSignal fires, at any moment. *)
CallerAborts ==
  /\ ~aborted
  /\ aborted' = TRUE
  /\ UNCHANGED <<gatewayVars, localVars, sent, paid, unanswered>>

(* fetch rejects: the socket failed, or the controller was aborted.  The      *)
(* attempt may already be at the gateway, still be on its way, or be lost.    *)
FetchRejects ==
  /\ pc = "fetch"
  /\ IF aborted THEN Settle(CallerAborted)
     ELSE RetryOr(Fault(IF timedOut THEN "Timeout" ELSE "Connection"))
  /\ inflight' \in {inflight, inflight \ {Live}}
  /\ unanswered' = unanswered \cup {key}
  /\ UNCHANGED <<running, charged, key, raw, timedOut, response, aborted, sent, paid>>

(* The head of an answer arrives, and the timer is cleared.  A raw request    *)
(* that was not refused is handed back with its body unread.                  *)
HeadArrives(a) ==
  /\ pc = "fetch" /\ CanAnswer(Live, a)
  /\ response' = HeadOf(a)
  /\ IF raw /\ Ok(a) THEN Settle(Stream)
     ELSE pc' = "body" /\ UNCHANGED <<attempt, outcome>>
  /\ UNCHANGED <<gatewayVars, key, raw, timedOut, aborted, sent, paid, unanswered>>

(* The gateway opens a stream while the turn still runs: the head carries no  *)
(* settled cost.                                                              *)
StreamOpens ==
  /\ pc = "fetch" /\ raw /\ Live \in running
  /\ Settle(Stream)
  /\ UNCHANGED <<gatewayVars, key, raw, timedOut, response, aborted, sent,
                 paid, unanswered>>

(* The gateway commits a 200 before the answer exists (keepalive). *)
CommitArrives ==
  /\ pc = "fetch" /\ ~raw /\ Live \in running
  /\ response' = Committed /\ pc' = "body"
  /\ UNCHANGED <<gatewayVars, key, raw, attempt, timedOut, outcome, aborted,
                 sent, paid, unanswered>>

(* Reading ends.  Whatever it brought, an aborted caller gets his abort.      *)
Unless(reading) == IF aborted THEN Settle(CallerAborted) ELSE reading

(* The body of a definite answer ends: whole, or as text that is no JSON, or  *)
(* by a failing read, which rejects with the bare cause if the status was ok. *)
BodyEnds(reading) ==
  LET a == response.answer IN
  /\ pc = "body" /\ ~response.committed
  /\ Unless(CASE reading = "whole" -> Conclude(a)
              [] reading = "garbled" -> Conclude(IF Ok(a) THEN a ELSE Bodiless(a))
              [] reading = "cut" -> IF Ok(a) THEN Settle(RawError)
                                             ELSE Conclude(Bodiless(a)))
  /\ paid' = (paid \/ a.charged)
  /\ UNCHANGED <<gatewayVars, key, raw, timedOut, response, aborted, sent, unanswered>>

(* The body of a committed response carries conifer_receipt: the real answer. *)
SettledEnds(a) ==
  /\ pc = "body" /\ response.committed /\ CanAnswer(Live, a)
  /\ Unless(Conclude(a))
  /\ paid' = (paid \/ a.charged)
  /\ UNCHANGED <<gatewayVars, key, raw, timedOut, response, aborted, sent, unanswered>>

(* A committed body ends without a well-formed conifer_receipt. *)
CommittedCut ==
  /\ pc = "body" /\ response.committed
  /\ Unless(RetryOr(Fault("Connection")))
  /\ unanswered' = unanswered \cup {key}
  /\ UNCHANGED <<gatewayVars, key, raw, timedOut, response, aborted, sent, paid>>

(* The pause ends, by its timer or by the caller's abort, which is looked at  *)
(* before the loop goes round.                                                *)
Wake ==
  /\ pc = "sleep"
  /\ IF aborted THEN Settle(CallerAborted) /\ UNCHANGED response
     ELSE /\ pc' = "top" /\ attempt' = attempt + 1 /\ response' = Pending
          /\ UNCHANGED outcome
  /\ UNCHANGED <<gatewayVars, key, raw, timedOut, aborted, sent, paid, unanswered>>

BodyReads == \/ \E reading \in {"whole", "garbled", "cut"} : BodyEnds(reading)
             \/ \E a \in Answers : SettledEnds(a)
             \/ CommittedCut

RequestStep == \/ Send \/ TimerFires \/ FetchRejects \/ StreamOpens
               \/ CommitArrives \/ Wake \/ BodyReads
               \/ \E a \in Answers : HeadArrives(a)

GatewayStep == /\ \/ \E r \in inflight : Arrive(r)
                  \/ \E r \in running : Finish(r)
               /\ UNCHANGED requestVars
=============================================================================
