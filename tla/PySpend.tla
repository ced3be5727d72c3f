------------------------------- MODULE PySpend -------------------------------
(***************************************************************************)
(* ReceiptCollector and SpendBudget of src/python/conifer_sdk/receipts.py  *)
(* behind one vendor client that several threads share:                    *)
(*                                                                         *)
(*   budget.check();  the client sends;  httpx runs the response hooks     *)
(*   [collector.httpx_hook, budget.httpx_hook] in this order               *)
(*                                                                         *)
(* Both collectors have a threading.Lock, which is not reentrant, and the  *)
(* application's calls on_receipt, which may read the collector it is      *)
(* called from, or throw.  Within the lock _record is two steps, so that   *)
(* whoever looks without it would see a receipt half recorded.             *)
(***************************************************************************)
EXTENDS Receipts, FiniteSets

Free == "free"

CONSTANTS
  Threads,    \* the threads that share the client
  Budget,     \* budget_nano_usd
  MaxCost,    \* what one turn can cost
  Kinds,      \* the receipts a response may carry
  Retain,     \* `retain` of the application's collector
  Attempts,   \* requests the vendor's client makes for one call at most
  MaxSeen     \* bound: responses the hooks see
ASSUME PySpendAssumption ==
  /\ IsFiniteSet(Threads) /\ Free \notin Threads /\ Budget \in Nat /\ MaxCost \in Nat
  /\ Kinds \subseteq Receipt(0 .. MaxCost)
  /\ Retain \in Nat /\ Attempts \in Nat \ {0} /\ MaxSeen \in Nat

VARIABLES
  pc,         \* where each thread is
  at,         \* the collector whose hook it runs
  holding,    \* the receipt of the response it has
  tries,      \* requests made since it last checked the budget
  lock,       \* who holds the lock of each collector
  collectors, \* the two collectors
  answers,    \* history: responses so far
  exact,      \* history: the application's, had it taken each receipt at once
  forgotten   \* history: what the application's had summed when it was reset
threadVars == <<pc, at, holding, tries>>
histories == <<answers, exact, forgotten>>
vars == <<threadVars, lock, collectors, histories>>

Names == {"app", "budget"}
Blank == [cost |-> Undisclosed, counterfactual |-> Undisclosed, named |-> FALSE]
RetainOf(k) == IF k = "app" THEN Retain ELSE 0

Init == /\ pc = [t \in Threads |-> "idle"] /\ at = [t \in Threads |-> "app"]
        /\ holding = [t \in Threads |-> Blank] /\ tries = [t \in Threads |-> 0]
        /\ lock = [k \in Names |-> Free]
        /\ collectors = [k \in Names |-> EmptyCollector]
        /\ answers = 0 /\ exact = EmptyCollector /\ forgotten = 0

Goes(t, from, to) == pc[t] = from /\ pc' = [pc EXCEPT ![t] = to]

(* A bug: a property is read without the lock. *)
MutReadable(k) == TRUE

(* `with self._lock:` around total, all, last and reset.                      *)
Readable(k) == lock[k] = Free

-----------------------------------------------------------------------------
(* A bug: the budget is only noticed once it is overdrawn. *)
MutExhausted == collectors["budget"].summed > Budget

Exhausted == collectors["budget"].summed >= Budget

(* budget.check(): two reads when it refuses, the second for its message.     *)
Check(t) ==
  /\ Readable("budget") /\ Goes(t, "idle", IF Exhausted THEN "refused" ELSE "sending")
  /\ tries' = [tries EXCEPT ![t] = IF Exhausted THEN 0 ELSE 1]
  /\ UNCHANGED <<at, holding, lock, collectors, histories>>

Refuse(t) ==
  /\ Readable("budget") /\ Goes(t, "refused", "idle")
  /\ UNCHANGED <<at, holding, tries, lock, collectors, histories>>

(* The vendor's client gets no response, or one: then the hooks run.          *)
Reject(t) ==
  /\ Goes(t, "sending", "handled")
  /\ UNCHANGED <<at, holding, tries, lock, collectors, histories>>

Respond(t, r) ==
  /\ answers < MaxSeen /\ answers' = answers + 1
  /\ Goes(t, "sending", "hook")
  /\ at' = [at EXCEPT ![t] = "app"] /\ holding' = [holding EXCEPT ![t] = r]
  /\ UNCHANGED <<tries, lock, collectors, exact, forgotten>>

(* It sends again by itself after a failure, charged or not, or the call is   *)
(* over.                                                                      *)
Resend(t) ==
  /\ tries[t] < Attempts /\ Goes(t, "handled", "sending")
  /\ tries' = [tries EXCEPT ![t] = @ + 1]
  /\ UNCHANGED <<at, holding, lock, collectors, histories>>

Return(t) ==
  /\ Goes(t, "handled", "idle")
  /\ holding' = [holding EXCEPT ![t] = Blank] /\ tries' = [tries EXCEPT ![t] = 0]
  /\ UNCHANGED <<at, lock, collectors, histories>>

-----------------------------------------------------------------------------
(* httpx_hook -> observe -> _record.  A hook that returns makes way for the   *)
(* next; read_receipt takes no malformed header for a fault.                  *)
NextHook(t) == IF at[t] = "app"
               THEN at' = [at EXCEPT ![t] = "budget"] /\ Goes(t, pc[t], "hook")
               ELSE Goes(t, pc[t], "handled") /\ UNCHANGED at

Ignore(t) ==
  /\ pc[t] = "hook" /\ ~Observable(holding[t]) /\ NextHook(t)
  /\ UNCHANGED <<holding, tries, lock, collectors, histories>>

Acquire(t) ==
  /\ Observable(holding[t]) /\ lock[at[t]] = Free /\ Goes(t, "hook", "sum")
  /\ lock' = [lock EXCEPT ![at[t]] = t]
  /\ UNCHANGED <<at, holding, tries, collectors, histories>>

(* _seen and _summed *)
Summed(c, r) ==
  [seen |-> c.seen + 1, summed |-> c.summed + Amount(r.cost),
   summedCounterfactual |-> c.summedCounterfactual,
   counterfactualTurns |-> c.counterfactualTurns, observed |-> c.observed]

Sum(t) ==
  /\ Goes(t, "sum", "file")
  /\ collectors' = [collectors EXCEPT ![at[t]] = Summed(@, holding[t])]
  /\ exact' = IF at[t] = "app" THEN Record(exact, holding[t], Retain) ELSE exact
  /\ UNCHANGED <<at, holding, tries, lock, answers, forgotten>>

(* _summed_counterfactual, _counterfactual_turns and _observed *)
Filed(c, r, limit) ==
  [seen |-> c.seen, summed |-> c.summed,
   summedCounterfactual |-> c.summedCounterfactual + Amount(r.counterfactual),
   counterfactualTurns |-> CounterfactualTurns(c, r),
   observed |-> Push(c.observed, r, limit)]

(* on_receipt looks at the running total, or throws in whatever else it does. *)
Calls(t) == \E what \in {"reading", "throwing"} : Goes(t, "file", what)

(* A bug: without a callback _record returns before it lets go of the lock.   *)
MutReleased(t) == IF at[t] = "app" THEN [lock EXCEPT ![at[t]] = Free] ELSE lock

Released(t) == [lock EXCEPT ![at[t]] = Free]

(* The rest of the locked block; one with a callback goes on to call it.      *)
File(t) ==
  /\ pc[t] = "file" /\ lock' = Released(t)
  /\ collectors' = [collectors EXCEPT ![at[t]] = Filed(@, holding[t], RetainOf(at[t]))]
  /\ IF at[t] = "app" THEN Calls(t) /\ UNCHANGED at ELSE NextHook(t)
  /\ UNCHANGED <<holding, tries, histories>>

CallbackReads(t) ==
  /\ pc[t] = "reading" /\ Readable("app") /\ NextHook(t)
  /\ UNCHANGED <<holding, tries, lock, collectors, histories>>

(* A bug: what it throws passes through the hook, and httpx gives up.         *)
MutThrown(t) == Goes(t, "throwing", "handled") /\ UNCHANGED at

(* What it throws is swallowed: the turn was paid for.                        *)
Thrown(t) == NextHook(t)

CallbackThrows(t) ==
  /\ pc[t] = "throwing" /\ Thrown(t)
  /\ UNCHANGED <<holding, tries, lock, collectors, histories>>

-----------------------------------------------------------------------------
(* The application, on a thread of its own, forgets what it has seen; what it *)
(* reads meanwhile changes nothing.                                           *)
Reset ==
  /\ Readable("app")
  /\ collectors' = [collectors EXCEPT !["app"] = EmptyCollector]
  /\ forgotten' = forgotten + collectors["app"].summed
  /\ exact' = EmptyCollector
  /\ UNCHANGED <<threadVars, lock, answers>>

HookStep(t) == \/ Ignore(t) \/ Acquire(t) \/ Sum(t) \/ File(t)
               \/ CallbackReads(t) \/ CallbackThrows(t)

Next == \/ Reset
        \/ \E t \in Threads : \/ Check(t) \/ Refuse(t) \/ Reject(t) \/ Resend(t) \/ Return(t)
                              \/ HookStep(t)
        \/ \E t \in Threads, r \in Kinds : Respond(t, r)

(* Every thread that can go on does; of threads that wait for a lock one is   *)
(* let in, and only finitely many of them come before another.                *)
Fairness == \A t \in Threads : WF_vars(HookStep(t))
Spec == Init /\ [][Next]_vars
FairSpec == Spec /\ Fairness

-----------------------------------------------------------------------------
(* Every variable has its type; the budget's collector keeps no tail, and the *)
(* application's no more than it was asked to.                                *)
TypeOK ==
  /\ pc \in [Threads -> {"idle", "refused", "sending", "hook", "sum", "file",
                         "reading", "throwing", "handled"}]
  /\ at \in [Threads -> Names] /\ holding \in [Threads -> Receipt(0 .. MaxCost)]
  /\ tries \in [Threads -> 0 .. Attempts]
  /\ lock \in [Names -> Threads \cup {Free}]
  /\ collectors \in [Names -> Collector(0 .. MaxCost)]
  /\ \A k \in Names : Len(collectors[k].observed) <= RetainOf(k)
  /\ answers \in 0 .. MaxSeen /\ exact \in Collector(0 .. MaxCost) /\ forgotten \in Nat

(* "Thread-safe": whatever other threads are doing, whoever may look at the   *)
(* collector finds the totals and the tail of the receipts recorded since the *)
(* last reset, each of them whole or not at all.                              *)
ReadsAreExact == Readable("app") => collectors["app"] = exact

(* "A throwing callback must not fail a turn the caller already paid for",    *)
(* nor hide it from the budget: whenever no hook runs, the budget has counted *)
(* what the application was told, and what it has forgotten since.            *)
InHook(t) == pc[t] \in {"hook", "sum", "file", "reading", "throwing"}
BudgetSeesAll ==
  (\A t \in Threads : ~InHook(t)) =>
    collectors["budget"].summed = collectors["app"].summed + forgotten

(* What the budget guarantees threads that share it: each of them may have    *)
(* been let through when it ran out, with all the requests the client makes   *)
(* for one call.                                                              *)
WorstCase ==
  collectors["budget"].summed > 0 =>
    collectors["budget"].summed < Budget + MaxCost * Attempts * Cardinality(Threads)

(* No thread waits for ever in a hook, though on_receipt uses the collector   *)
(* that called it.                                                            *)
HooksReturn == \A t \in Threads : InHook(t) ~> ~InHook(t)
=============================================================================
