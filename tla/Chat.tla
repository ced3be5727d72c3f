-------------------------------- MODULE Chat --------------------------------
(***************************************************************************)
(* One turn of the client (chat(), stream() and defer() of client.ts, and  *)
(* embeddings.create()): the chain of models is resolved, and each member  *)
(* is one Transport request under a key of its own, until one answers or   *)
(* one fails for good.                                                     *)
(***************************************************************************)
EXTENDS Transport, FiniteSets

CONSTANTS
  MaxMembers,   \* the longest chain considered
  Identity      \* turnIdentity(request), as a sequence of its segments
ASSUME ChatAssumption == MaxMembers \in Nat \ {0} /\ Identity \in Seq(Nat)

VARIABLES
  request,   \* what the caller asked: operation, chain, opt-in; can it be sent
  index,     \* the member being tried
  turn       \* "new", "open", "completed" or "thrown"
chatVars == <<request, index, turn>>
vars == <<chatVars, requestVars, gatewayVars>>

Requests == {r \in [op : {"chat", "stream", "defer", "embed"}, members : 1 .. MaxMembers,
                    allowClientFallback : BOOLEAN, sendable : BOOLEAN] :
               r.op = "embed" => r.members = 1}

(* A request that is not sendable has what its operation does not take (defer *)
(* in chat(), a server-side chain in defer(), token ids), or a ceiling or a   *)
(* server-side chain that no header can carry, whichever member sends it.  A  *)
(* client-side chain is a series of separately billed requests: it has to be  *)
(* asked for (resolveChain), and is neither streamed nor deferred.            *)
Refused == \/ ~request.sendable
           \/ /\ request.members > 1
              /\ request.op # "chat" \/ ~request.allowClientFallback

(* The key of member i: the turn's identity, suffixed after the first.        *)
KeyOf(i) == IF i = 0 THEN Identity ELSE Append(Identity, i)

(* A bug: the chain also moves on from a failure that was paid for.           *)
MutAdvances(o) == o.class \notin {"Payment", "Auth"}

(* A retryable failure or a capability refusal moves to the next model.       *)
Advances(o) == o.retryable \/ o.class = "Capability"

-----------------------------------------------------------------------------
Init == /\ request \in Requests /\ index = 0 /\ turn = "new"
        /\ RequestInit /\ GatewayInit

Open == /\ turn = "new"
        /\ turn' = IF Refused THEN "thrown" ELSE "open"
        /\ UNCHANGED <<request, index, requestVars, gatewayVars>>

CallMember == /\ turn = "open"
              /\ Start(KeyOf(index), request.op = "stream")
              /\ UNCHANGED chatVars

(* The request came back: hand its result up, move on, or throw.              *)
MemberReturns ==
  /\ turn = "open" /\ pc = "done"
  /\ IF outcome.kind \in {"data", "stream"}
     THEN turn' = "completed" /\ UNCHANGED <<index, pc>>
     ELSE IF outcome.kind = "error" /\ Advances(outcome) /\ index + 1 < request.members
     THEN index' = index + 1 /\ pc' = "idle" /\ UNCHANGED turn
     ELSE turn' = "thrown" /\ UNCHANGED <<index, pc>>
  /\ UNCHANGED <<request, key, raw, attempt, timedOut, response, outcome,
                 aborted, sent, paid, unanswered, gatewayVars>>

(* The turn is over; what is left happens at the gateway. *)
Over == turn \in {"completed", "thrown"} /\ UNCHANGED vars

Next == \/ Open \/ CallMember \/ MemberReturns \/ Over
        \/ (RequestStep \/ GatewayStep) /\ UNCHANGED chatVars
        \/ turn \in {"new", "open"} /\ CallerAborts /\ UNCHANGED chatVars

(* The client's own steps and its timers run, and a fetch or a body settles   *)
(* once its controller is aborted.  The caller need not abort, the gateway    *)
(* need not get anywhere, and a body, once begun, need not end: the timer was *)
(* cleared when its head came in.                                             *)
Fairness ==
  /\ WF_vars(Open) /\ WF_vars(CallMember) /\ WF_vars(MemberReturns)
  /\ WF_vars((Send \/ TimerFires \/ Wake) /\ UNCHANGED chatVars)
  /\ WF_vars((timedOut \/ aborted) /\ FetchRejects /\ UNCHANGED chatVars)
  /\ WF_vars(aborted /\ BodyReads /\ UNCHANGED chatVars)

Spec == Init /\ [][Next]_vars
FairSpec == Spec /\ Fairness

-----------------------------------------------------------------------------
(* Every variable has its type; in particular the loop never counts beyond    *)
(* its retry budget.                                                          *)
TypeOK ==
  /\ request \in Requests /\ index \in 0 .. MaxMembers - 1
  /\ turn \in {"new", "open", "completed", "thrown"}
  /\ pc \in {"idle", "top", "fetch", "body", "sleep", "done"}
  /\ key \in Seq(Nat) /\ raw \in BOOLEAN /\ attempt \in 0 .. MaxRetries
  /\ aborted \in BOOLEAN /\ timedOut \in BOOLEAN
  /\ response \in [committed : BOOLEAN, answer : Answer]
  /\ outcome \in Outcome
  /\ sent \in SUBSET [key : Seq(Nat), n : 0 .. MaxRetries]
  /\ paid \in BOOLEAN /\ unanswered \in SUBSET Seq(Nat)
  /\ inflight \in SUBSET sent /\ running \in SUBSET sent /\ charged \in SUBSET sent

(* "A retry of a POST reuses its idempotency key, so a retry cannot bill      *)
(* twice": whatever is lost, late or abandoned, the account is charged at     *)
(* most once for each member of the chain that was tried.                     *)
OneChargePerMember == Cardinality(charged) <= index + 1

(* "A charged error is never retried", and a chain does not fall back from    *)
(* one: once an answer with a receipt was read the turn sends nothing more.   *)
PaidEndsTurn == [][paid => sent' = sent]_vars

(* "Cancellation cannot return a completion or send a retry or fallback       *)
(* request": after the caller's abort nothing is sent and no body that ends   *)
(* later is handed up.                                                        *)
AbortIsFinal ==
  [][aborted => /\ sent' = sent
                /\ outcome'.kind = "data" => outcome.kind = "data"]_vars

(* The gateway's verdict, where every attempt got one, is the truth about the *)
(* account: a refusal without a receipt was not charged, and a receipt (on a  *)
(* completion or an error) was.  Timeouts and broken connections claim        *)
(* nothing.                                                                   *)
ChargedKey == \E r \in charged : r.key = key
VerdictIsTheBill ==
  /\ turn = "thrown" /\ outcome.kind = "error"
  /\ outcome.class \notin {"Timeout", "Connection"} /\ key \notin unanswered
  => (outcome.charged <=> ChargedKey)

(* The turn ends although the gateway may never answer: the timer ends the    *)
(* wait for headers, the loop is bounded and every pause is.  The one place   *)
(* it can hang is a body that never ends, and there the caller's abort helps. *)
TurnEnds == \/ <>(turn \in {"completed", "thrown"})
            \/ <>[](pc = "body" /\ ~aborted)

(* The turn implements BilledTurn.                                            *)
HandedUp(kind) == outcome.kind = kind /\ pc = "done"
AbstractState ==
  IF HandedUp("data") THEN "returned"
  ELSE IF HandedUp("stream") THEN "streaming"
  ELSE IF turn = "thrown" THEN "failed" ELSE "open"

Billed == INSTANCE BilledTurn WITH
  member <- index, bill <- paid, cancelled <- aborted, state <- AbstractState,
  attempts <- {r.n : r \in {s \in sent : s.key = KeyOf(index)}}
ImplementsBilledTurn == Billed!Spec
=============================================================================
