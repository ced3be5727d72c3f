------------------------------- MODULE PyChat -------------------------------
(***************************************************************************)
(* One turn of the Python client (client.py): chat(), defer(), embed() and *)
(* the opening of stream(), over request() and urllib_transport, of a      *)
(* request of the application's own or one that a shim translated.         *)
(*                                                                         *)
(* One thread, no signal to abort it: what may come between its steps is   *)
(* the gateway, which gets on with attempts the client has given up.  The  *)
(* whole exchange, body included, is one call of the transport, and every  *)
(* socket operation in it has the timeout of the client.                   *)
(***************************************************************************)
EXTENDS Gateway, PyErrors, Portability

CONSTANTS
  MaxRetries,   \* max_retries
  MaxMembers,   \* of a chain
  Turns         \* what applications ask for
Native == [shim : {"none"}, request : ChatRequest]

RequestOf(t) == IF t.ask.shim = "none" THEN t.ask.request ELSE Translated(t.ask)
ASSUME PyChatAssumption ==
  /\ MaxRetries \in Nat /\ MaxMembers \in Nat \ {0}
  /\ Turns \subseteq [op : {"chat", "stream", "defer", "embed"}, ask : Native]
                     \cup [op : {"chat", "stream", "defer"}, ask : Foreign]
  /\ \A t \in Turns :
       /\ Len(Chain(RequestOf(t))) <= MaxMembers
       /\ t.ask.shim = "none" =>
            t.ask.request.given \subseteq IF t.op = "embed" THEN EmbeddingsFields ELSE ChatFields

VARIABLES
  asked,       \* what the application asked for
  request,     \* the ChatRequest it got from the shim, or made itself
  index,       \* the member being tried
  turn,        \* "new", "open", "completed" or "thrown"
  pc,          \* where the thread is
  attempt,     \* the loop counter of request()
  response,    \* the head that came in: an answer, or a commitment to one
  outcome,     \* what request() returned or raised
  sent,        \* history: the attempts handed to the transport
  paid,        \* history: an answer with a receipt was read
  unanswered   \* history: keys of which an attempt ended without a verdict
callVars == <<asked, request, index, turn>>
loopVars == <<pc, attempt, response, outcome>>
histories == <<sent, paid, unanswered>>
vars == <<callVars, loopVars, histories, gatewayVars>>

(* defer() completes the request, and only chat() walks its chain, whose      *)
(* members differ in the model alone.                                         *)
Whole == IF asked.op = "defer" THEN Deferred(request) ELSE request
Members == IF asked.op = "chat" THEN Chain(request) ELSE <<request.model>>
MemberOf(i) == [Whole EXCEPT !.model = Members[i + 1]]

Refused == Refuses(asked.ask) \/ OperationRefused(asked.op, request)

KeyOf(i) == IF i = 0 THEN TurnIdentity(request) ELSE Append(TurnIdentity(request), i)
Live == [key |-> KeyOf(index), n |-> attempt, wire |-> WireOf(asked.op, MemberOf(index))]

(* A bug: every attempt sends a key of its own. *)
MutFreshKey == [Live EXCEPT !.key = Append(@, attempt)]

(* The headers, and with them the key, are merged once, before the loop.      *)
Outgoing == Live

NoAnswer  == [status |-> 0, type |-> HttpType, code |-> "", param |-> "",
              retryShortly |-> FALSE, charged |-> FALSE]
NoHead    == [committed |-> FALSE, answer |-> NoAnswer]
Committed == [committed |-> TRUE, answer |-> NoAnswer]
HeadOf(a) == [committed |-> FALSE, answer |-> a]

(* "raw" is an exception that is no ConiferError, "refused" one about a field *)
(* of the request (ConiferPortabilityError).                                  *)
Outcome == [kind : {"none", "data", "stream", "raw", "refused", "error"}, class : Classes \cup {""},
            retryable : BOOLEAN, charged : BOOLEAN]
Result(kind, isCharged) == [kind |-> kind, class |-> "", retryable |-> FALSE, charged |-> isCharged]
Fault(c)  == [kind |-> "error", class |-> c, retryable |-> TRUE, charged |-> FALSE]

(* A bug: charged_receipt is not asked. *)
MutFailure(a) == [kind |-> "error", class |-> PyErrorClass(a),
                  retryable |-> PyRetryable(Unreceipted(a)), charged |-> FALSE]

(* error_from(..., charged_receipt(headers)) *)
Failure(a) == [kind |-> "error", class |-> PyErrorClass(a),
               retryable |-> PyRetryable(a), charged |-> a.charged]

-----------------------------------------------------------------------------
Init == /\ asked \in Turns /\ request = RequestOf(asked) /\ index = 0 /\ turn = "new"
        /\ pc = "idle" /\ attempt = 0 /\ response = NoHead /\ outcome = Result("none", FALSE)
        /\ sent = {} /\ paid = FALSE /\ unanswered = {} /\ GatewayInit

(* Member i is about to be called: its headers are written, or refused.       *)
Enter(i) ==
  IF HeadersRefused(asked.op, MemberOf(i))
  THEN pc' = "done" /\ outcome' = Result("refused", FALSE)
  ELSE pc' = "send" /\ UNCHANGED outcome

Open == /\ turn = "new"
        /\ IF Refused THEN turn' = "thrown" /\ UNCHANGED <<pc, outcome>>
           ELSE turn' = "open" /\ Enter(0)
        /\ UNCHANGED <<asked, request, index, attempt, response, histories, gatewayVars>>

Settle(o) == pc' = "done" /\ outcome' = o

(* A bug: the last attempt pauses too, one attempt too many. *)
MutRetryOr(o) == IF attempt <= MaxRetries THEN pc' = "sleep" /\ UNCHANGED outcome ELSE Settle(o)

(* A fault another attempt may cure: pause before it while there is one left. *)
RetryOr(o) == IF attempt < MaxRetries THEN pc' = "sleep" /\ UNCHANGED outcome ELSE Settle(o)

(* A bug: the status alone decides about another attempt. *)
MutRetries(a) == a.status \in RetryableStatus

Retries(a) == PyRetryable(a) /\ a.status \in RetryableStatus

(* request() has the parsed answer. *)
Conclude(a) ==
  IF Ok(a) THEN Settle(Result("data", a.charged))
  ELSE IF Retries(a) THEN RetryOr(Failure(a)) ELSE Settle(Failure(a))

(* What stops an exchange.  request() takes TimeoutError and every other      *)
(* OSError for a fault to retry, and lets the rest pass; _open_stream catches *)
(* neither.                                                                   *)
Stops(how) ==
  IF asked.op = "stream" \/ how = "other" THEN Settle(Result("raw", FALSE))
  ELSE RetryOr(Fault(IF how = "timeout" THEN "Timeout" ELSE "Connection"))

Send ==
  /\ pc = "send" /\ pc' = "wait"
  /\ inflight' = inflight \cup {Outgoing} /\ sent' = sent \cup {Outgoing}
  /\ UNCHANGED <<callVars, attempt, response, outcome, paid, unanswered, running, charged>>

(* No head comes in: the socket fails, times out or yields no HTTP.  The      *)
(* attempt may be at the gateway already, still on its way, or lost.          *)
NoAnswerComes(how) ==
  /\ pc = "wait" /\ Stops(how)
  /\ inflight' \in {inflight, inflight \ {Live}} /\ unanswered' = unanswered \cup {Live.key}
  /\ UNCHANGED <<callVars, attempt, response, sent, paid, running, charged>>

(* The certificate does not verify: raised at once, and nothing was sent.     *)
CertificateFails ==
  /\ pc = "wait" /\ Live \in inflight /\ inflight' = inflight \ {Live}
  /\ Settle(IF asked.op = "stream" THEN Result("raw", FALSE) ELSE Fault("Connection"))
  /\ unanswered' = unanswered \cup {Live.key}
  /\ UNCHANGED <<callVars, attempt, response, sent, paid, running, charged>>

(* A stream that is not refused is handed back with its body unread.          *)
HeadArrives(a) ==
  /\ pc = "wait" /\ CanAnswer(Live, a) /\ response' = HeadOf(a)
  /\ IF asked.op = "stream" /\ Ok(a) THEN Settle(Result("stream", FALSE))
                                       ELSE pc' = "read" /\ UNCHANGED outcome
  /\ UNCHANGED <<callVars, attempt, histories, gatewayVars>>

(* The gateway opens a stream, or commits a 200, while the turn still runs.   *)
EarlyHead ==
  /\ pc = "wait" /\ Live \in running
  /\ IF asked.op = "stream" THEN Settle(Result("stream", FALSE)) /\ UNCHANGED response
     ELSE pc' = "read" /\ response' = Committed /\ UNCHANGED outcome
  /\ UNCHANGED <<callVars, attempt, histories, gatewayVars>>

(* The body ends: as JSON, or as text that is none, which parse_json makes an *)
(* error envelope of.  _open_stream forgets the receipt of a refusal.         *)
BodyEnds(a) ==
  /\ pc = "read" /\ ~response.committed
  /\ a = response.answer \/ (~Ok(response.answer) /\ a = Bodiless(response.answer))
  /\ IF asked.op = "stream" THEN Settle(Failure(Unreceipted(a))) ELSE Conclude(a)
  /\ paid' = (paid \/ a.charged)
  /\ UNCHANGED <<callVars, attempt, response, sent, unanswered, gatewayVars>>

(* The body of a committed response carries conifer_receipt: the real answer. *)
SettledEnds(a) ==
  /\ pc = "read" /\ response.committed /\ CanAnswer(Live, a)
  /\ Conclude(a) /\ paid' = (paid \/ a.charged)
  /\ UNCHANGED <<callVars, attempt, response, sent, unanswered, gatewayVars>>

(* The body breaks off: the connection is reset, it is silent for too long,   *)
(* or it is shorter than announced or no UTF-8 ("other").                     *)
BodyBreaks(how) ==
  /\ pc = "read" /\ Stops(how)
  /\ unanswered' = unanswered \cup {Live.key}
  /\ UNCHANGED <<callVars, attempt, response, sent, paid, gatewayVars>>

(* A committed body that is short, or has no conifer_receipt, is a connection *)
(* fault.                                                                     *)
CommittedCut ==
  /\ pc = "read" /\ response.committed /\ RetryOr(Fault("Connection"))
  /\ unanswered' = unanswered \cup {Live.key}
  /\ UNCHANGED <<callVars, attempt, response, sent, paid, gatewayVars>>

(* A bug: the loop counter stays. *)
MutUp(n) == n

Up(n) == n + 1

Wake ==
  /\ pc = "sleep" /\ pc' = "send" /\ attempt' = Up(attempt) /\ response' = NoHead
  /\ UNCHANGED <<callVars, outcome, histories, gatewayVars>>

(* A retryable failure or a capability refusal moves to the next model.       *)
Advances == outcome.kind = "error" /\ (outcome.retryable \/ outcome.class = "Capability")

MemberReturns ==
  /\ turn = "open" /\ pc = "done"
  /\ IF outcome.kind \in {"data", "stream"}
     THEN turn' = "completed" /\ UNCHANGED <<index, pc, attempt, response, outcome>>
     ELSE IF Advances /\ index + 1 < Len(Members)
     THEN /\ index' = index + 1 /\ attempt' = 0 /\ response' = NoHead
          /\ Enter(index + 1) /\ UNCHANGED turn
     ELSE turn' = "thrown" /\ UNCHANGED <<index, pc, attempt, response, outcome>>
  /\ UNCHANGED <<asked, request, histories, gatewayVars>>

Breaks == {"reset", "timeout", "other"}
BodyReads == \/ \E a \in {response.answer, Bodiless(response.answer)} : BodyEnds(a)
             \/ \E a \in Answers : SettledEnds(a)
             \/ \E how \in Breaks : BodyBreaks(how)
             \/ CommittedCut

GatewayStep == /\ \/ \E r \in inflight : Arrive(r)
                  \/ \E r \in running : Finish(r)
               /\ UNCHANGED <<callVars, loopVars, histories>>

(* The turn is over; what is left happens at the gateway. *)
Over == turn \in {"completed", "thrown"} /\ UNCHANGED vars

Next == \/ Open \/ Send \/ CertificateFails \/ EarlyHead \/ Wake \/ MemberReturns \/ Over
        \/ \E how \in Breaks : NoAnswerComes(how)
        \/ \E a \in Answers : HeadArrives(a)
        \/ BodyReads \/ GatewayStep

(* The thread runs, pauses end, and the wait for a head, whose length is      *)
(* bounded, ends by the timeout if by nothing else.  A body need not end:     *)
(* every few bytes of it start the timeout afresh.                            *)
Fairness == WF_vars(Open \/ Send \/ Wake \/ MemberReturns) /\ WF_vars(NoAnswerComes("timeout"))

Spec == Init /\ [][Next]_vars
FairSpec == Spec /\ Fairness

-----------------------------------------------------------------------------
(* Every variable has its type, the loop stays within its retry budget, and   *)
(* nothing is sent but the requests of members that were tried.               *)
Attempts(i) == [key : Seq(Nat), n : 0 .. MaxRetries,
                wire : {WireOf(asked.op, MemberOf(j)) : j \in 0 .. i}]
TypeOK ==
  /\ asked \in Turns /\ request = RequestOf(asked) /\ index \in 0 .. Len(Members) - 1
  /\ turn \in {"new", "open", "completed", "thrown"}
  /\ pc \in {"idle", "send", "wait", "read", "sleep", "done"} /\ attempt \in 0 .. MaxRetries
  /\ response \in [committed : BOOLEAN, answer : Answer] /\ outcome \in Outcome
  /\ sent \subseteq Attempts(index)
  /\ paid \in BOOLEAN /\ unanswered \in SUBSET Seq(Nat)
  /\ inflight \in SUBSET sent /\ running \in SUBSET sent /\ charged \in SUBSET sent

(* "Retries ... with the same idempotency key" (client.py:137): whatever is   *)
(* lost, late or cut short, each member of the chain is charged at most once. *)
OneChargePerMember == Cardinality(charged) <= index + 1

(* Where every attempt for a key got a verdict, the error that chat() or      *)
(* defer() raises carries a receipt exactly if the key was charged.           *)
ChargedKey == \E r \in charged : r.key = KeyOf(index)
VerdictIsTheBill ==
  /\ turn = "thrown" /\ outcome.kind = "error" /\ asked.op # "stream"
  /\ outcome.class \notin {"Timeout", "Connection"} /\ KeyOf(index) \notin unanswered
  => (outcome.charged <=> ChargedKey)

(* The turn ends, unless a body trickles for ever. *)
TurnEnds == <>(turn \in {"completed", "thrown"}) \/ <>[](pc = "read")

(* The turn implements BilledTurn, of which nobody ever cancels one.          *)
HandedUp(kind) == outcome.kind = kind /\ pc = "done"
AbstractState ==
  IF HandedUp("data") THEN "returned"
  ELSE IF HandedUp("stream") THEN "streaming"
  ELSE IF turn = "thrown" THEN "failed" ELSE "open"
Billed == INSTANCE BilledTurn WITH
  member <- index, bill <- paid, cancelled <- FALSE, state <- AbstractState,
  attempts <- {r.n : r \in {s \in sent : s.key = KeyOf(index)}}
ImplementsBilledTurn == Billed!Spec

(* "A field Conifer cannot honour raises with the field named, so a migration *)
(* never silently changes what runs or what it costs" (portability.py:1-3):   *)
(* every attempt, of every member of a chain, carries all that the            *)
(* application asked for that its shim has a rule for, and no attempt of      *)
(* another model is sent than those it listed.                                *)
Honoured(ask, w) ==
  IF ask.shim = "none"
  THEN /\ \A f \in ask.request.given : Written(ask.request, w, f)
       /\ w.ceiling = ask.request.max_cost_nano_usd
  ELSE /\ \A f \in ask.fields \cap Known(ask) : Carried(ask, w, f)
       /\ SubstitutesCarried(ask, w, Members)
NothingIsDropped == \A r \in sent : Honoured(asked.ask, r.wire)

(* "fallback_models is a CLIENT-SIDE chain of separate billed requests. Set   *)
(* allow_client_fallback=True to accept that" (chat.py:118-123): whatever     *)
(* failed or was lost, nobody pays twice for a turn without having accepted   *)
(* it, and a server-side chain is never paid for twice.                       *)
OptedIn(ask) == IF ask.shim = "none" THEN ask.request.allow_client_fallback
                ELSE ask.allow /\ (ask.shim = "openrouter" => "route" \notin ask.fields)
OneBillUnlessOptedIn == Cardinality(charged) > 1 => asked.op = "chat" /\ OptedIn(asked.ask)

(* cards/portability.card.json: a field that is neither refused nor mapped    *)
(* may not be silently dropped: NothingIsDropped of every field, those no     *)
(* shim has a rule for included.                                              *)
EverythingIsCarriedOrRefused ==
  \A r \in sent : asked.ask.shim # "none" =>
    \A f \in asked.ask.fields : Carried(asked.ask, r.wire, f)

(* CHANGELOG.md:51-53: "`ConiferError.receipt` (`receipt` in Python) holds    *)
(* the settled receipt of an error that was charged": every error raised for  *)
(* an answer that has a receipt has it too.                                   *)
ErrorHasItsReceipt ==
  /\ turn = "thrown" /\ outcome.kind = "error" /\ outcome.class \notin {"Timeout", "Connection"}
  /\ response.answer.charged
  => outcome.charged
=============================================================================
