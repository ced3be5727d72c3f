------------------------------ MODULE McpServer -----------------------------
(***************************************************************************)
(* The MCP server (mcp/server.ts): newline-delimited JSON-RPC over stdio.  *)
(* Every complete line of the buffer is handled at once and by itself; a   *)
(* tools/call waits for turns of the client, a comparison for several of   *)
(* them in parallel, and is answered when they are over, overtaken or not. *)
(*                                                                         *)
(* A chunk of input ends anywhere, so input is counted in half lines: the  *)
(* text of line l is half line 2l - 1, its newline 2l.  A turn is a turn   *)
(* of module Chat, or another request of the client: it brings an answer   *)
(* or a failure, or hangs in a body that never ends.                       *)
(***************************************************************************)
EXTENDS Integers, Sequences, FiniteSets

CONSTANTS
  Script,       \* the lines the host sends
  Ids,          \* the ids of JSON-RPC requests, and NullId
  NullId,       \* the id null
  NoId,         \* of a message that has no id: a JSON-RPC notification
  Costs,        \* the settled costs an answer may disclose
  MaxCompare    \* models.slice(0, 5)

Undisclosed == -1

Methods == {"blank", "garbage", "initialize", "notifications/initialized", "ping",
            "tools/list", "tools/call", "other"}
Tools   == {"conifer_compare", "single", "unknown"}
Line == [method : Methods, tool : Tools, models : Nat, id : Ids \cup {NoId}]

ASSUME McpAssumption ==
  /\ Script \in Seq(Line) /\ NullId \in Ids /\ NoId \notin Ids /\ Costs \subseteq Nat
  /\ MaxCompare \in Nat \ {0, 1}

VARIABLES
  key,       \* CONIFER_API_KEY is set
  arrived,   \* half lines received
  cached,    \* the client was constructed
  calls,     \* the turns each line waits for, none if it waits for nothing
  replies,   \* how many replies were written with each id
  shown      \* the tables of results comparisons replied with
vars == <<key, arrived, cached, calls, replies, shown>>

Lines == 1 .. Len(Script)

Waiting == [at |-> "waiting", cost |-> Undisclosed]
Hung    == [at |-> "hung", cost |-> Undisclosed]
Failed  == [at |-> "failed", cost |-> Undisclosed]
Answered(c) == [at |-> "answered", cost |-> c]
Outcomes == {Failed} \cup {Answered(c) : c \in Costs \cup {Undisclosed}}
Turn == Outcomes \cup {Waiting, Hung}

-----------------------------------------------------------------------------
(* What the server makes of a line.                                           *)

(* The id of its reply: null for a line that is no JSON, and by               *)
(* `request.id ?? null` for a message without an id.                          *)
IdOf(l) ==
  IF Script[l].method = "garbage" \/ Script[l].id = NoId THEN NullId ELSE Script[l].id

(* Only a blank line and this one notification get no reply.                  *)
RepliedTo(l) == Script[l].method \notin {"blank", "notifications/initialized"}

Runs(l) == Script[l].method = "tools/call" /\ Script[l].tool # "unknown"

(* The requests a tool makes: one, or one per model, from two to five models. *)
Turns(l) ==
  IF Script[l].tool = "single" THEN 1
  ELSE IF Script[l].models < 2 THEN 0
  ELSE IF Script[l].models > MaxCompare THEN MaxCompare ELSE Script[l].models

(* A line that waits; without a key the client cannot be made, and a          *)
(* comparison of fewer than two models makes no request.                      *)
Waits(l) == Runs(l) /\ key /\ Turns(l) > 0

-----------------------------------------------------------------------------
Init == /\ key \in BOOLEAN /\ arrived = 0 /\ cached = FALSE
        /\ calls = [l \in Lines |-> <<>>] /\ replies = [x \in Ids |-> 0] /\ shown = {}

Complete(n) == {l \in Lines : 2 * l <= n}

(* A bug: of several lines in one chunk only the first is handled. *)
MutFresh(n) == {l \in Complete(arrived + n) \ Complete(arrived) : l = arrived \div 2 + 1}

(* The lines a chunk of n half lines completes. *)
Fresh(n) == Complete(arrived + n) \ Complete(arrived)

(* input.on("data"): every new line is handled up to its first await, and     *)
(* those that wait for nothing are answered before the next event.            *)
Data(n) ==
  /\ LET fresh == Fresh(n) IN
     /\ cached' = (cached \/ (key /\ \E l \in fresh : Runs(l)))
     /\ calls' = [l \in Lines |-> IF l \in fresh /\ Waits(l)
                                  THEN [i \in 1 .. Turns(l) |-> Waiting] ELSE calls[l]]
     /\ replies' = [x \in Ids |->
          replies[x] + Cardinality({l \in fresh : RepliedTo(l) /\ ~Waits(l) /\ IdOf(l) = x})]
  /\ arrived' = arrived + n
  /\ UNCHANGED <<key, shown>>

(* A bug: an undisclosed cost is taken for none. *)
MutCheaper(s, t) == s.cost < t.cost

(* The order of the comparison's sort: what has no cost comes last.           *)
Cheaper(s, t) == s.cost # Undisclosed /\ (t.cost = Undisclosed \/ s.cost < t.cost)

(* The sort is stable: the place of turn i among all the turns.               *)
Place(turns, i) ==
  1 + Cardinality({j \in DOMAIN turns :
        Cheaper(turns[j], turns[i]) \/ (j < i /\ ~Cheaper(turns[i], turns[j]))})

(* The table of a comparison: which turn is shown at each place.              *)
Sorted(turns) == [k \in DOMAIN turns |-> CHOOSE i \in DOMAIN turns : Place(turns, i) = k]

(* A bug: a call is only over when every turn of it has brought an answer.    *)
MutOver(turns) == \A i \in DOMAIN turns : turns[i].at = "answered"

(* Promise.all over turns that catch their own failures. *)
Over(turns) == \A i \in DOMAIN turns : turns[i] \in Outcomes

(* Turn i of line l comes to its end; with the last one the line is answered, *)
(* by a result or, if its only turn failed, by a tool error.                  *)
Settle(l, i, o) ==
  /\ i \in DOMAIN calls[l] /\ calls[l][i] = Waiting
  /\ LET turns == [calls[l] EXCEPT ![i] = o] IN
     IF Over(turns)
     THEN /\ calls' = [calls EXCEPT ![l] = <<>>]
          /\ replies' = [replies EXCEPT ![IdOf(l)] = @ + 1]
          /\ shown' = IF Script[l].tool = "single" THEN shown
                      ELSE shown \cup {[line |-> l, turns |-> turns, order |-> Sorted(turns)]}
     ELSE calls' = [calls EXCEPT ![l] = turns] /\ UNCHANGED <<replies, shown>>
  /\ UNCHANGED <<key, arrived, cached>>

(* A body that never ends. *)
Hang(l, i) ==
  /\ i \in DOMAIN calls[l] /\ calls[l][i] = Waiting
  /\ calls' = [calls EXCEPT ![l][i] = Hung]
  /\ UNCHANGED <<key, arrived, cached, replies, shown>>

CallMoves(l) == \E i \in DOMAIN calls[l] :
                  Hang(l, i) \/ \E o \in Outcomes : Settle(l, i, o)

(* All input is handled; hung calls may be left. *)
Idle == /\ arrived = 2 * Len(Script)
        /\ \A l \in Lines : Waiting \notin {calls[l][i] : i \in DOMAIN calls[l]}
        /\ UNCHANGED vars

Next == \/ \E n \in 1 .. 2 * Len(Script) - arrived : Data(n)
        \/ \E l \in Lines : CallMoves(l)
        \/ Idle

(* The turns of a call end or hang; the host need not send anything.          *)
Fairness == \A l \in Lines : WF_vars(CallMoves(l))

Spec == Init /\ [][Next]_vars
FairSpec == Spec /\ Fairness

-----------------------------------------------------------------------------
(* Every variable has its type; no line waits for more than five turns, and   *)
(* none for a turn that nobody could have begun.                              *)
TypeOK ==
  /\ key \in BOOLEAN /\ arrived \in 0 .. 2 * Len(Script) /\ cached \in BOOLEAN
  /\ calls \in [Lines -> Seq(Turn)]
  /\ \A l \in Lines : Len(calls[l]) <= MaxCompare /\ (calls[l] # <<>> => cached /\ Runs(l))
  /\ replies \in [Ids -> Nat]

(* A host asks for a reply by a request, and by a line that is no message at  *)
(* all.  A notification, which has no id, asks for none and is promised none  *)
(* (server.ts:300), but `handle` knows only one kind of them.                 *)
IsInitialized(l) == Script[l].method = "notifications/initialized"
Notifies(l) == \/ IsInitialized(l)
               \/ Script[l].method \notin {"blank", "garbage"} /\ Script[l].id = NoId
Asks(l) == Script[l].method # "blank" /\ ~Notifies(l)

(* However the input is cut into chunks and turns overtake each other, every  *)
(* request gets one reply, under its id: what was asked is answered or waited *)
(* for, and never both.  Nothing else is written or waited for, but that a    *)
(* notification of another kind may be taken for a request with id null, once.*)
EveryRequestOneReply ==
  \A x \in Ids :
    LET about(S) == Cardinality({l \in S : IdOf(l) = x})
        asked    == about({l \in Complete(arrived) : Asks(l)})
        mistaken == about({l \in Complete(arrived) : Notifies(l) /\ ~IsInitialized(l)})
    IN  replies[x] + about({l \in Lines : calls[l] # <<>>}) \in asked .. asked + mistaken

(* "Cheapest first; failures sink to the bottom" (mcp/server.ts:191), as far  *)
(* as costs are told: a table shows every model once, and below a failure no  *)
(* answer that tells its cost.  One that tells none is sorted as a failure is.*)
CheapestFirst ==
  \A s \in shown : LET entry(k) == s.turns[s.order[k]] IN
    /\ {s.order[k] : k \in DOMAIN s.order} = 1 .. Turns(s.line)
    /\ \A j, k \in DOMAIN s.order :
         j < k /\ entry(k).cost # Undisclosed
         => entry(j).at = "answered" /\ entry(j).cost \in 0 .. entry(k).cost

(* "One bad model never sinks the comparison" (mcp/server.ts:136), nor does   *)
(* one call another: a call is answered, whatever the others do and however   *)
(* its turns fail, unless one of them never ends.                             *)
NothingIsHeldUp ==
  \A l \in Lines : calls[l] # <<>> ~>
    calls[l] = <<>> \/ \E i \in DOMAIN calls[l] : calls[l][i] = Hung
=============================================================================
