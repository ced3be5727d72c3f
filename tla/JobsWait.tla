------------------------------ MODULE JobsWait ------------------------------
(***************************************************************************)
(* conifer.jobs.wait (src/src/jobs.ts; jobs_wait of                        *)
(* src/python/conifer_sdk/client.py is the loop without a signal):         *)
(* several waiters poll one deferred job while the gateway moves it along, *)
(* others cancel it or fetch its result, and the body of a fetched result  *)
(* is deleted after its retention grace.                                   *)
(*                                                                         *)
(* A request is sent, answered by the gateway with the state the job has   *)
(* at that moment, and read later; the repeats of Transport.request happen *)
(* before that moment, except a result that is served and whose answer is  *)
(* lost.                                                                   *)
(***************************************************************************)
EXTENDS Naturals

CONSTANTS
  Waiters,    \* concurrent calls of wait()
  Python,     \* those of them that are calls of jobs_wait
  Poll,       \* options.pollMs
  MaxPoll     \* options.maxPollMs

ASSUME PollsAssumption == Python \subseteq Waiters /\ Poll \in Nat /\ MaxPoll \in Nat

VARIABLES
  job,        \* the job at the gateway
  deleted,    \* its body is gone
  pc,         \* where each waiter is suspended
  heard,      \* the status its answer carries, while that is not read
  interval,   \* its next pause
  aborted,    \* options.signal.aborted
  late,       \* options.timeoutMs is over
  outcome,    \* how its wait ended
  over,       \* history: the job was not running when its last poll was sent
  extra       \* history: polls sent since it was aborted or late, up to 2
jobVars == <<job, deleted>>
waiterVars == <<pc, heard, interval, outcome, over, extra>>
vars == <<jobVars, waiterVars, aborted, late>>

(* "other" is every status that the SDK does not know, the empty one included.*)
Running == {"queued", "submitted", "other"}
Ready   == {"ended", "fetched"}
Refunded == {"expired", "cancelled", "failed"}
Status == Running \cup Ready \cup Refunded

(* TERMINAL_JOB_STATUSES: "ended" is not among them. *)
Terminal == {"fetched"} \cup Refunded

Init ==
  /\ job = "queued" /\ deleted = FALSE
  /\ pc = [w \in Waiters |-> "idle"] /\ heard = [w \in Waiters |-> "other"]
  /\ interval = [w \in Waiters |-> Poll]
  /\ aborted = [w \in Waiters |-> FALSE] /\ late = [w \in Waiters |-> FALSE]
  /\ outcome = [w \in Waiters |-> "none"]
  /\ over = [w \in Waiters |-> FALSE] /\ extra = [w \in Waiters |-> 0]

-----------------------------------------------------------------------------
(* The gateway: the job moves along, or is stopped on somebody's request; an  *)
(* unfinished one is refunded.  A fetched body is deleted in the end.         *)
JobMoves ==
  /\ job \in Running
  /\ job' \in {"submitted", "other", "ended", "expired", "failed", "cancelled"} \ {job}
  /\ UNCHANGED <<deleted, waiterVars, aborted, late>>

BodyDeleted ==
  /\ job = "fetched" /\ ~deleted /\ deleted' = TRUE
  /\ UNCHANGED <<job, waiterVars, aborted, late>>

(* Others who know the job call jobs.result. *)
OthersFetch ==
  /\ job = "ended" /\ job' = "fetched"
  /\ UNCHANGED <<deleted, waiterVars, aborted, late>>

-----------------------------------------------------------------------------
(* GET /v1/deferred/{id}: wait() enters its loop, or comes round again after  *)
(* a pause that neither the signal nor the deadline cuts short.               *)
Ask(w) ==
  /\ pc' = [pc EXCEPT ![w] = "asking"]
  /\ over' = [over EXCEPT ![w] = job \notin Running]
  /\ extra' = [extra EXCEPT ![w] =
                 IF (aborted[w] \/ late[w]) /\ pc[w] = "sleep" /\ @ < 2 THEN @ + 1 ELSE @]

Start(w) ==
  /\ pc[w] = "idle" /\ Ask(w)
  /\ UNCHANGED <<jobVars, heard, interval, outcome, aborted, late>>

Longer(i) == IF i * 2 <= MaxPoll THEN i * 2 ELSE MaxPoll

Wake(w) ==
  /\ pc[w] = "sleep" /\ Ask(w)
  /\ interval' = [interval EXCEPT ![w] = Longer(@)]
  /\ UNCHANGED <<jobVars, heard, outcome, aborted, late>>

StatusServed(w) ==
  /\ pc[w] = "asking"
  /\ pc' = [pc EXCEPT ![w] = "answered"] /\ heard' = [heard EXCEPT ![w] = job]
  /\ UNCHANGED <<jobVars, interval, outcome, over, extra, aborted, late>>

(* A status or result request throws, at the latest after its retries; or     *)
(* onPoll does, when it is told of the answer.                                *)
Throws(w) ==
  /\ pc[w] \in {"asking", "answered", "fetching"}
  /\ pc' = [pc EXCEPT ![w] = "done"] /\ outcome' = [outcome EXCEPT ![w] = "threw"]
  /\ heard' = [heard EXCEPT ![w] = "other"]
  /\ UNCHANGED <<jobVars, interval, over, extra, aborted, late>>

(* The head of an answer came in and its body never ends.  The head stops the *)
(* TypeScript request's timer, and the request was not given the caller's     *)
(* signal.  Python's response.read() has a timeout for each read of the       *)
(* socket and none for the whole: a body that trickles holds it for ever.     *)
BodyHangs(w) ==
  /\ pc[w] \in {"asking", "fetching"} /\ pc' = [pc EXCEPT ![w] = "hung"]
  /\ UNCHANGED <<jobVars, heard, interval, outcome, over, extra, aborted, late>>

(* Bugs: a terminal status is recognised first, "fetched" with it; the caller *)
(* is asked first; and the loop only knows of results.                        *)
MutTerminalFirst(w) ==
  IF heard[w] \in Terminal THEN "noResult" ELSE IF heard[w] \in Ready THEN "fetch"
  ELSE IF aborted[w] THEN "stopped" ELSE IF late[w] THEN "timedOut" ELSE "sleep"
MutCallerFirst(w) ==
  IF aborted[w] THEN "stopped" ELSE IF late[w] THEN "timedOut"
  ELSE IF heard[w] \in Ready THEN "fetch"
  ELSE IF heard[w] \in Terminal THEN "noResult" ELSE "sleep"
MutOnlyEnded(w) ==
  IF heard[w] \in Ready THEN "fetch"
  ELSE IF aborted[w] THEN "stopped" ELSE IF late[w] THEN "timedOut" ELSE "sleep"

(* What wait() makes of a poll, in the order of its tests. *)
Verdict(w) ==
  IF heard[w] \in Ready THEN "fetch"
  ELSE IF heard[w] \in Terminal THEN "noResult"
  ELSE IF aborted[w] THEN "stopped"
  ELSE IF late[w] THEN "timedOut" ELSE "sleep"

(* jobs_wait has the same tests but one. *)
PyVerdict(w) ==
  IF heard[w] \in Ready THEN "fetch"
  ELSE IF heard[w] \in Terminal THEN "noResult"
  ELSE IF late[w] THEN "timedOut" ELSE "sleep"

Concludes(w) == IF w \in Python THEN PyVerdict(w) ELSE Verdict(w)

Decide(w) ==
  /\ pc[w] = "answered"
  /\ CASE Concludes(w) = "fetch" -> pc' = [pc EXCEPT ![w] = "fetching"] /\ UNCHANGED outcome
       [] Concludes(w) = "sleep" -> pc' = [pc EXCEPT ![w] = "sleep"] /\ UNCHANGED outcome
       [] OTHER -> /\ pc' = [pc EXCEPT ![w] = "done"]
                   /\ outcome' = [outcome EXCEPT ![w] = Concludes(w)]
  /\ heard' = [heard EXCEPT ![w] = "other"]
  /\ UNCHANGED <<jobVars, interval, over, extra, aborted, late>>

(* GET /v1/deferred/{id}/result, which marks the job as fetched. *)
ResultServed(w) ==
  /\ pc[w] = "fetching" /\ job \in Ready /\ ~deleted
  /\ job' = "fetched"
  /\ \/ /\ pc' = [pc EXCEPT ![w] = "done"]
        /\ outcome' = [outcome EXCEPT ![w] = "completion"]
     \/ UNCHANGED <<pc, outcome>>     \* the answer is lost, and asked for again
  /\ UNCHANGED <<deleted, heard, interval, over, extra, aborted, late>>

ResultRefused(w) ==
  /\ pc[w] = "fetching" /\ (job \notin Ready \/ deleted)
  /\ pc' = [pc EXCEPT ![w] = "done"] /\ outcome' = [outcome EXCEPT ![w] = "refused"]
  /\ UNCHANGED <<jobVars, heard, interval, over, extra, aborted, late>>

(* The caller's signal, also from inside onPoll; and its deadline. *)
CallerAborts(w) ==
  /\ w \notin Python /\ pc[w] \notin {"done", "hung"}
  /\ ~aborted[w] /\ aborted' = [aborted EXCEPT ![w] = TRUE]
  /\ UNCHANGED <<jobVars, waiterVars, late>>

TimeIsUp(w) ==
  /\ pc[w] \notin {"idle", "done", "hung"} /\ ~late[w] /\ late' = [late EXCEPT ![w] = TRUE]
  /\ UNCHANGED <<jobVars, waiterVars, aborted>>

Settles(w) == \/ StatusServed(w) \/ Throws(w) \/ BodyHangs(w)
              \/ ResultServed(w) \/ ResultRefused(w)
Step(w) == Wake(w) \/ Decide(w) \/ Settles(w)
Over == (\A w \in Waiters : pc[w] \in {"done", "hung"}) /\ UNCHANGED vars

Next == \/ JobMoves \/ BodyDeleted \/ OthersFetch \/ Over
        \/ \E w \in Waiters : Start(w) \/ Step(w) \/ CallerAborts(w) \/ TimeIsUp(w)

(* A pause ends, what was answered is acted on, and a request settles or      *)
(* hangs (Transport.request times its heads and counts its retries).          *)
Fairness == \A w \in Waiters :
              WF_vars(Wake(w)) /\ WF_vars(Decide(w)) /\ WF_vars(Settles(w))
Spec == Init /\ [][Next]_vars
FairSpec == Spec /\ Fairness

-----------------------------------------------------------------------------
Outcomes == {"none", "threw", "noResult", "stopped", "timedOut", "completion", "refused"}

(* Every variable has its type; a pause is the one the caller asked for first *)
(* and never longer than the limit from then on.                              *)
TypeOK ==
  /\ job \in Status /\ deleted \in BOOLEAN
  /\ pc \in [Waiters -> {"idle", "asking", "answered", "sleep", "fetching", "done", "hung"}]
  /\ heard \in [Waiters -> Status]
  /\ interval \in [Waiters -> {Poll} \cup 0 .. MaxPoll]
  /\ aborted \in [Waiters -> BOOLEAN] /\ \A w \in Python : ~aborted[w]
  /\ late \in [Waiters -> BOOLEAN]
  /\ outcome \in [Waiters -> Outcomes]
  /\ over \in [Waiters -> BOOLEAN] /\ extra \in [Waiters -> 0 .. 2]

(* What a wait says of the job stays true of it, whoever else cancels or      *)
(* fetches: a completion was charged and fetched, "no result, refunded" is    *)
(* said of no job that has a result, and one that was announced is only       *)
(* refused when its body was deleted after somebody had fetched it.           *)
VerdictIsTrue ==
  \A w \in Waiters :
    /\ outcome[w] = "completion" => job = "fetched"
    /\ outcome[w] = "noResult" => job \in Refunded
    /\ outcome[w] = "refused" => job = "fetched" /\ deleted

(* "A timeout or abort stops waiting": it never hides a job that was over     *)
(* before the last poll was sent, so a caller who gives up is told of a result*)
(* that was there.                                                            *)
StoppingHidesNothing ==
  \A w \in Waiters : outcome[w] \in {"stopped", "timedOut"} => ~over[w]

(* A wait that was aborted or is late asks at most once more: the pause it is *)
(* in, and the poll after it, are all that is left.                           *)
OnePollMore == \A w \in Waiters : extra[w] <= 1

(* "wait() stops on terminal states", and on the caller's word: the loop does *)
(* not spin on a job that will not change.  What may still hold it, in either *)
(* SDK, is the body of an answer that never ends.                             *)
WaitEnds ==
  \A w \in Waiters :
    pc[w] # "idle" /\ (aborted[w] \/ late[w] \/ job \notin Running)
      ~> pc[w] \in {"done", "hung"}

(* jobs.ts:53: "A timeout or abort stops waiting"; client.py:330-331: "A      *)
(* timeout stops waiting but never cancels the job".                          *)
CallerStopsTheWait ==
  \A w \in Waiters : pc[w] # "idle" /\ (aborted[w] \/ late[w]) ~> pc[w] = "done"
=============================================================================
