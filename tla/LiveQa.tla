------------------------------- MODULE LiveQa -------------------------------
(***************************************************************************)
(* The drivers of the live QA campaign, scripts/live_qa.py and its twin    *)
(* live-qa.mjs, over the guard and the wrapped fetch of QaGuard: a script  *)
(* of checks, each of which passes or fails, and an exit status the        *)
(* release waits for.  Which requests a check makes, and in which order,   *)
(* is left open, as QaGuard leaves it.                                     *)
(***************************************************************************)
EXTENDS QaGuard

VARIABLES
  failed,   \* drivers still there of which a check failed
  zero      \* drivers that ended with exit status zero
scriptVars == <<failed, zero>>
lvars == <<vars, scriptVars>>

LInit == Init /\ failed = {} /\ zero = {}

-----------------------------------------------------------------------------
(* _failed is forgotten with its process. *)
Tally(those) == failed' = {d \in those : at'[d] # "gone"}

(* A GuardError is none of the SDK's: it goes through to the check that made  *)
(* the request.  "ready" is recorded only if no check failed before.  When    *)
(* "finish" is, assertions may have failed that no operation tells of.        *)
Starts(d) == \E a \in Actions :
  /\ Begin(d, a) /\ (a = "ready" => d \notin failed) /\ UNCHANGED zero
  /\ IF MayBegin /\ a # "finish" THEN Tally(failed)
     ELSE Tally(failed \cup {d}) \/ (a = "finish" /\ Tally(failed))

(* What "finish" records is the count of this driver. *)
Acts(d) ==
  /\ Act(d) /\ UNCHANGED scriptVars
  /\ op.action = "finish" /\ op'.ok => op'.mem.failed[PhaseOf[d]] = (d \in failed)

(* The operation was granted, and the check goes on: after a fault it fails,  *)
(* and a stream that is not followed by stream_done failed before it.         *)
Passes(d) == /\ op.ok /\ op.action # "fault"
             /\ op.action = "observe" /\ answer[d] = "stream" => at'[d] = "stream"

(* A bug: the exit status does not tell. *)
MutExitsZero(d) == op.action = "finish" /\ op.ok

(* sys.exit after "finish" was recorded. *)
ExitsZero(d) == op.action = "finish" /\ op.ok /\ d \notin failed

Hears(d) ==
  /\ Return(d) /\ Tally(IF Passes(d) THEN failed ELSE failed \cup {d})
  /\ zero' = IF ExitsZero(d) THEN zero \cup {d} ELSE zero

LosesItsGuard(d) == GuardDies(d) /\ Tally(failed \cup {d}) /\ UNCHANGED zero

LNext == \/ \E d \in Drivers : Starts(d) \/ Acts(d) \/ Hears(d) \/ LosesItsGuard(d)
         \/ /\ \/ \E d \in Drivers :
                    \/ Save(d) \/ Unlink(d) \/ DriverDies(d) \/ Leaves(d)
                    \/ Dispatch(d) \/ Answered(d) \/ Lost(d)
               \/ PowerFails \/ Settles \/ AuditPasses \/ AuditWrites \/ AuditFails \/ Over
            /\ Tally(failed) /\ UNCHANGED zero

LSpec == LInit /\ [][LNext]_lvars

-----------------------------------------------------------------------------
(* "A non-executing invocation fails, so a publisher cannot mistake an        *)
(* omitted live gate for a passing one" (live-qa.mjs:19-21): when a driver    *)
(* ends with status zero, the journal says, and will after any crash, that    *)
(* its phase is complete without a failed check, and whatever a driver        *)
(* dispatched in this phase, or in the one before it, was answered.           *)
ZeroIsEarned ==
  \A d \in zero :
    \A st \in {files.state, disk.state} :
      /\ st.phase[PhaseOf[d]] = "complete" /\ ~st.failed[PhaseOf[d]]
      /\ \A i \in DOMAIN st.rows :
           st.rows[i].phase \in {PhaseOf[d], "typescript"} => st.rows[i].seen \notin {"no", "stream"}
=============================================================================
