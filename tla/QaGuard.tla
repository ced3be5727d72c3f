------------------------------- MODULE QaGuard -------------------------------
(***************************************************************************)
(* The journal of the live QA campaign: Guard.operation of                 *)
(* src/scripts/live_qa_guard.py, called by the drivers through             *)
(* live_qa_transport.py and live-qa-transport.mjs, and the audit of        *)
(* live_qa_reconcile.py.                                                   *)
(*                                                                         *)
(* Drivers run at the same time and may die at any moment, a guard may be  *)
(* killed under its driver, and the power may fail: a name that was        *)
(* created, replaced or unlinked since the directory was last synced is    *)
(* then found in its new or in its old state.  Deadlines are refusals that *)
(* may come at any time.                                                   *)
(***************************************************************************)
EXTENDS Naturals, Sequences, FiniteSets

Phases == {"typescript", "python"}
(* GETs, POST /v1/route, and inference, of which model "auto" is special. *)
Kinds == {"read", "route", "turn", "auto"}
Posts == {"route", "turn", "auto"}
Priced == {"turn", "auto"}

CONSTANTS
  Drivers,      \* processes
  PhaseOf,      \* the phase each is started for
  Identities,   \* identities callers may choose themselves
  Caps,         \* ceilings a turn may ask for
  AutoCap,      \* the ceiling of "auto"
  TurnLimit,    \* inference POSTs of each phase
  RouteLimit,   \* route POSTs of each phase
  ReadLimit,    \* GETs of each phase
  PostLimit,    \* POSTs of the campaign
  SpendLimit,   \* LIMIT, the sum of all ceilings
  MaxCrashes    \* bound on guards and drivers killed and power failures

ASSUME CampaignAssumption ==
  /\ PhaseOf \in [Drivers -> Phases]
  /\ Identities \subseteq {"given"} \X Nat
  /\ Caps \subseteq Nat \ {0} /\ AutoCap \in Nat \ {0}
  /\ TurnLimit \in [Phases -> Nat] /\ RouteLimit \in [Phases -> Nat]
  /\ ReadLimit \in Nat /\ PostLimit \in Nat /\ SpendLimit \in Nat
  /\ MaxCrashes \in Nat

VARIABLES
  files,     \* the run directory, as a process sees it
  disk,      \* the run directory, as it was last synced
  op,        \* the operation that holds the lock
  at,        \* where each driver stands: an operation it is to call, or "gone", ...
  row,       \* the admission its request has
  answer,    \* what it was answered
  receipts,  \* identities the gateway has settled
  refusals,  \* identities the gateway has refused
  audit,     \* the state an audit has found settled and is about to attest
  proof,     \* reconciliation-typescript.json: the state it attests
  sent,      \* history: what was dispatched
  claimants, \* history: the drivers that were granted their phase
  torn,      \* history: an operation was left unfinished
  crashes    \* how many of the deaths to come are used up
drivers == <<at, row, answer>>
gateway == <<receipts, refusals>>
auditor == <<audit, proof>>
vars == <<files, disk, op, drivers, gateway, auditor, sent, claimants, torn, crashes>>

(* state.json before anything happened.  A row is "seen" once its response    *)
(* was observed; "costed" and "broken" are those that halt the run, with and  *)
(* without a cost on record, "stream" is one that lacks its terminal usage.   *)
Fresh == [phase    |-> [p \in Phases |-> "none"], ready |-> [p \in Phases |-> FALSE],
          failed   |-> [p \in Phases |-> FALSE], resumed |-> FALSE,
          rows     |-> <<>>, reserved |-> 0, halt |-> FALSE]
Answers == {"ok", "refused", "stream", "costed", "broken"}
Seen == {"no", "ended"} \cup Answers

Idle == [by |-> "nobody", action |-> "none", stage |-> "none", mem |-> Fresh, ok |-> TRUE]

Init ==
  /\ files = [marker |-> FALSE, journal |-> FALSE, state |-> Fresh, claims |-> {}, events |-> FALSE]
  /\ disk = files /\ op = Idle
  /\ at \in [Drivers -> {"claim", "resume", "gone"}]
  /\ \A d \in Drivers : at[d] = "resume" => PhaseOf[d] = "typescript"
  /\ row = [d \in Drivers |-> 0] /\ answer = [d \in Drivers |-> "none"]
  /\ receipts = {} /\ refusals = {} /\ audit = <<>> /\ proof = <<>>
  /\ sent = <<>> /\ claimants = {} /\ torn = FALSE
  /\ crashes \in 0 .. MaxCrashes

-----------------------------------------------------------------------------
(* What the handlers ask of the state they were given. *)
Rows(st, p, kinds) ==
  {i \in DOMAIN st.rows : st.rows[i].phase = p /\ st.rows[i].kind \in kinds}
AllRows(st, kinds) == {i \in DOMAIN st.rows : st.rows[i].kind \in kinds}

(* _phase *)
Open(st, p) == st.phase[p] = "open" /\ ~st.halt

(* A bug: the proof is not compared with the state it speaks of. *)
MutAttested(st) == proof # <<>>

(* The proof attests exactly what state.json holds. *)
Attested(st) == proof = <<st>>

(* A bug: only a halted run is refused. *)
MutMayClaim(st, p) ==
  /\ ~st.halt
  /\ p = "python" => /\ st.phase["typescript"] = "complete" /\ ~st.failed["typescript"]
                     /\ Attested(files.state)

MayClaim(st, p) ==
  /\ ~st.halt /\ st.phase[p] = "none" /\ p \notin files.claims
  /\ p = "python" => /\ st.phase["typescript"] = "complete" /\ ~st.failed["typescript"]
                     /\ Attested(files.state)

MayResume(st, p) ==
  /\ st.halt /\ ~st.resumed /\ st.phase[p] # "complete"
  /\ \A i \in DOMAIN st.rows : st.rows[i].seen # "no"
  /\ Attested(files.state)
  /\ \E i \in AllRows(st, Posts) :
       /\ AllRows(st, Posts) = {i}
       /\ st.rows[i].kind \in {"turn", "auto"} /\ st.rows[i].seen \in {"ok", "costed"}

(* A bug: a missing ceiling is read as zero. *)
MutCapsOf(k) == {0} \cup (IF k = "turn" THEN Caps ELSE IF k = "auto" THEN {AutoCap} ELSE {0})

(* The ceilings a request of this kind may come with; those that are not      *)
(* inference have none.                                                       *)
CapsOf(k) == IF k = "turn" THEN Caps ELSE IF k = "auto" THEN {AutoCap} ELSE {0}

(* A bug: what is reserved already is left out. *)
MutAffordable(st, cap) == cap <= SpendLimit

Affordable(st, cap) == st.reserved + cap <= SpendLimit

PostsLeft(st) == Cardinality(AllRows(st, Posts)) < PostLimit

(* The allowances of _admit. *)
MayAdmit(st, p, k, cap) ==
  /\ Open(st, p)
  /\ k = "read" => Cardinality(Rows(st, p, {"read"})) < ReadLimit
  /\ k \in Posts => PostsLeft(st)
  /\ k = "route" => Cardinality(Rows(st, p, {"route"})) < RouteLimit[p]
  /\ k \in Priced => /\ st.ready[p]
                     /\ Cardinality(Rows(st, p, Priced)) < TurnLimit[p]
                     /\ Affordable(st, cap)
  /\ k = "auto" => p = "typescript" /\ AllRows(st, {"auto"}) = {}

(* A bug: nobody looks for a request that has this identity. *)
MutUnused(st, id) == Len(id) = 2

Unused(st, id) == \A i \in DOMAIN st.rows : st.rows[i].id # id

(* An identity of the caller's, or one made of the phase and the index. *)
IdentitiesFor(st, p) == Identities \cup {<<p, Len(st.rows)>>}

(* A bug: whether a stream told its usage is not asked. *)
MutMayFinish(st, p) == Open(st, p)

MayFinish(st, p) ==
  Open(st, p) /\ \A i \in Rows(st, p, Kinds) : st.rows[i].seen \notin {"no", "stream"}

-----------------------------------------------------------------------------
(* A bug: the directory is not synced. *)
MutSynced == disk

(* _sync_directory: all names of the run directory are durable. *)
Synced == files

(* A bug: nobody looks for the marker of an unfinished operation. *)
MutMayBegin == files.journal \/ (files.claims = {} /\ ~files.events)

(* operation(): the lock, the marker of an unfinished transaction, a journal  *)
(* that is missing beside evidence of execution.                              *)
MayBegin == ~files.marker /\ (files.journal \/ (files.claims = {} /\ ~files.events))

Wants(d, a) == \/ at[d] = a /\ a \in {"claim", "resume", "observe", "stream", "fault"}
               \/ at[d] = "choose" /\ a \in {"admit", "finish"}
               \/ at[d] = "choose" /\ a = "ready" /\ ~files.state.ready[PhaseOf[d]]

(* What a driver does after an operation that failed: a failed observation is *)
(* followed by a fault, after any other its next check goes on.               *)
AfterFailure(a) ==
  IF a \in {"claim", "resume", "ready", "finish"} THEN {"gone"}
  ELSE IF a = "observe" THEN {"fault"} ELSE {"choose"}

(* A driver goes on at x; what it knew of its request it keeps until that is  *)
(* over.                                                                      *)
GoesOn(d, x) ==
  /\ at' = [at EXCEPT ![d] = x]
  /\ IF x \in {"choose", "gone"}
     THEN row' = [row EXCEPT ![d] = 0] /\ answer' = [answer EXCEPT ![d] = "none"]
     ELSE UNCHANGED <<row, answer>>

Begin(d, a) ==
  /\ op = Idle /\ Wants(d, a)
  /\ IF MayBegin
     THEN /\ op' = [by |-> d, action |-> a, stage |-> "marked", mem |-> files.state, ok |-> TRUE]
          /\ files' = [files EXCEPT !.marker = TRUE]
          /\ UNCHANGED drivers
     ELSE /\ \E x \in AfterFailure(a) : GoesOn(d, x)
          /\ UNCHANGED <<op, files>>
  /\ UNCHANGED <<disk, gateway, auditor, sent, claimants, torn, crashes>>

(* A stage of the operation of driver d is over. *)
Goes(d, from, to) == op.by = d /\ op.stage = from /\ op' = [op EXCEPT !.stage = to]

(* The handlers, once the marker is durable, and the state they leave in      *)
(* memory.  What they refuse is saved too, and halts the run if a response    *)
(* was the matter.                                                            *)
Accepts(st) == op' = [op EXCEPT !.stage = "save", !.mem = st]

Logs == files' = [files EXCEPT !.events = TRUE]

Claim(d) ==
  LET p == PhaseOf[d] IN
  /\ MayClaim(op.mem, p)
  /\ Accepts([op.mem EXCEPT !.phase[p] = "open"])
  /\ files' = [files EXCEPT !.claims = @ \cup {p}, !.events = TRUE]
  /\ UNCHANGED row

Resume(d) ==
  LET p == PhaseOf[d] IN
  /\ MayResume(op.mem, p)
  /\ Accepts([op.mem EXCEPT !.halt = FALSE, !.ready[p] = FALSE, !.resumed = TRUE])
  /\ Logs /\ UNCHANGED row

Ready(d) ==
  LET p == PhaseOf[d] IN
  /\ Open(op.mem, p)
  /\ Accepts([op.mem EXCEPT !.ready[p] = TRUE])
  /\ UNCHANGED <<files, row>>

Admit(d) ==
  LET p == PhaseOf[d] IN
  \E k \in Kinds : \E cap \in CapsOf(k), id \in IdentitiesFor(op.mem, p) :
    /\ MayAdmit(op.mem, p, k, cap) /\ Unused(op.mem, id)
    /\ Accepts([op.mem EXCEPT !.rows = Append(@, [phase |-> p, kind |-> k, cap |-> cap,
                                            id |-> id, seen |-> "no"]),
                        !.reserved = @ + cap])
    /\ row' = [row EXCEPT ![d] = Len(op.mem.rows) + 1]
    /\ Logs

Observe(d) ==
  /\ op.mem.rows[row[d]].seen = "no" /\ answer[d] \in {"ok", "refused", "stream"}
  /\ Accepts([op.mem EXCEPT !.rows[row[d]].seen = answer[d]])
  /\ Logs /\ UNCHANGED row

Terminal(d) ==
  /\ Accepts([op.mem EXCEPT !.rows[row[d]].seen = "ended"])
  /\ Logs /\ UNCHANGED row

Fault ==
  /\ Accepts([op.mem EXCEPT !.halt = TRUE])
  /\ Logs /\ UNCHANGED row

Finish(d) ==
  LET p == PhaseOf[d] IN
  /\ MayFinish(op.mem, p)
  /\ \E failed \in BOOLEAN :
       Accepts([op.mem EXCEPT !.phase[p] = "complete", !.failed[p] = failed])
  /\ Logs /\ UNCHANGED row

(* A GuardError: of a handler's tests, of a deadline, of a malformed answer.  *)
(* A response that was no good stays on record.                               *)
Refuse(d) ==
  LET kept == IF op.action = "observe" /\ op.mem.rows[row[d]].seen = "no"
              THEN [op.mem EXCEPT !.rows[row[d]].seen = answer[d]] ELSE op.mem
      halted == op.action \in {"observe", "stream", "finish"}
  IN /\ op.action = "claim" => ~MayClaim(op.mem, PhaseOf[d])
     /\ op.action = "observe" =>
          answer[d] \in {"costed", "broken"} \/ op.mem.rows[row[d]].seen # "no"
     /\ op' = [op EXCEPT !.stage = "save", !.ok = FALSE,
                         !.mem = IF halted THEN [kept EXCEPT !.halt = TRUE] ELSE op.mem]
     /\ files' = IF op.action = "observe" THEN [files EXCEPT !.events = TRUE] ELSE files
     /\ UNCHANGED row

Act(d) ==
  /\ op.by = d /\ op.stage = "marked" /\ disk' = Synced
  /\ \/ op.action = "claim" /\ Claim(d)
     \/ op.action = "resume" /\ Resume(d)
     \/ op.action = "ready" /\ Ready(d)
     \/ op.action = "admit" /\ Admit(d)
     \/ op.action = "observe" /\ Observe(d)
     \/ op.action = "stream" /\ Terminal(d)
     \/ op.action = "fault" /\ Fault
     \/ op.action = "finish" /\ Finish(d)
     \/ op.action # "fault" /\ Refuse(d)
  /\ UNCHANGED <<at, answer, gateway, auditor, sent, claimants, torn, crashes>>

(* _save: the new state replaces the old one; when that is durable the marker *)
(* is unlinked; when that is, the driver is answered.                         *)
Save(d) ==
  /\ Goes(d, "save", "saved")
  /\ files' = [files EXCEPT !.state = op.mem, !.journal = TRUE]
  /\ UNCHANGED <<disk, drivers, gateway, auditor, sent, claimants, torn, crashes>>

Unlink(d) ==
  /\ Goes(d, "saved", "unlinked")
  /\ disk' = Synced /\ files' = [files EXCEPT !.marker = FALSE]
  /\ UNCHANGED <<drivers, gateway, auditor, sent, claimants, torn, crashes>>

(* The driver goes on with what it was given. *)
AfterSuccess(d) ==
  CASE op.action = "admit"  -> {"dispatch"}
    [] op.action = "observe" /\ answer[d] = "stream" -> {"stream", "choose"}
    [] op.action = "finish" -> {"gone"}
    [] OTHER -> {"choose"}

Return(d) ==
  /\ op.by = d /\ op.stage = "unlinked" /\ op' = Idle /\ disk' = Synced
  /\ \E x \in IF op.ok THEN AfterSuccess(d) ELSE AfterFailure(op.action) : GoesOn(d, x)
  /\ claimants' = IF op.action = "claim" /\ op.ok THEN claimants \cup {d} ELSE claimants
  /\ UNCHANGED <<files, gateway, auditor, sent, torn, crashes>>

-----------------------------------------------------------------------------
(* The guard dies or throws in the middle of an operation, under a driver     *)
(* that goes on; or the driver dies with it, or by itself; or the power fails *)
(* on all but those that were not started yet.                                *)
Crash ==
  /\ crashes < MaxCrashes /\ crashes' = crashes + 1
  /\ op' = Idle /\ torn' = (torn \/ op.stage \in {"save", "saved"})

GuardDies(d) ==
  /\ op.by = d /\ Crash
  /\ \E x \in AfterFailure(op.action) : GoesOn(d, x)
  /\ UNCHANGED <<files, disk, gateway, auditor, sent, claimants>>

DriverDies(d) ==
  /\ at[d] # "gone" /\ GoesOn(d, "gone")
  /\ IF op.by = d THEN Crash
     ELSE /\ crashes < MaxCrashes /\ crashes' = crashes + 1
          /\ UNCHANGED <<op, torn>>
  /\ UNCHANGED <<files, disk, gateway, auditor, sent, claimants>>

(* A driver breaks off before it is ready: it is the wrong gateway, or one of *)
(* the first checks failed.                                                   *)
Leaves(d) ==
  /\ at[d] = "choose" /\ op.by # d /\ ~files.state.ready[PhaseOf[d]] /\ GoesOn(d, "gone")
  /\ UNCHANGED <<files, disk, op, gateway, auditor, sent, claimants, torn, crashes>>

PowerFails ==
  /\ Crash
  /\ at' = [d \in Drivers |-> IF at[d] \in {"claim", "resume"} /\ op.by # d
                             THEN at[d] ELSE "gone"]
  /\ row' = [d \in Drivers |-> 0] /\ answer' = [d \in Drivers |-> "none"]
  /\ \E m, s, c, e \in {files, disk} :
       disk' = [marker |-> m.marker, journal |-> s.journal, state |-> s.state,
                claims |-> c.claims, events |-> e.events]
  /\ files' = disk'
  /\ UNCHANGED <<gateway, auditor, sent, claimants>>

-----------------------------------------------------------------------------
(* The wrapped fetch: an admitted request is dispatched once, under the       *)
(* admitted identity, and answered or lost.                                   *)
Dispatch(d) ==
  /\ at[d] = "dispatch" /\ at' = [at EXCEPT ![d] = "wait"]
  /\ sent' = Append(sent, files.state.rows[row[d]])
  /\ UNCHANGED <<files, disk, op, row, answer, gateway, auditor, claimants, torn, crashes>>

(* A receipt may be known to the gateway only later than the answer; an       *)
(* answer that tells a cost was settled before.                               *)
Settles ==
  /\ \E i \in DOMAIN sent :
       /\ sent[i].kind \in Priced /\ sent[i].id \notin receipts \cup refusals
       /\ \A d \in Drivers : at[d] = "wait" => files.state.rows[row[d]].id # sent[i].id
       /\ receipts' = receipts \cup {sent[i].id}
  /\ UNCHANGED <<files, disk, op, drivers, refusals, auditor, sent, claimants, torn, crashes>>

Answered(d) ==
  /\ at[d] = "wait" /\ at' = [at EXCEPT ![d] = "observe"]
  /\ LET r == files.state.rows[row[d]] IN
       \E a \in Answers \ (IF r.kind \in Priced THEN {} ELSE {"stream", "costed"}) :
         /\ answer' = [answer EXCEPT ![d] = a]
         /\ receipts' = receipts \cup IF r.kind \in Priced /\ a \in {"ok", "costed"} THEN {r.id} ELSE {}
         /\ refusals' = refusals \cup IF a = "refused" THEN {r.id} ELSE {}
  /\ UNCHANGED <<files, disk, op, row, auditor, sent, claimants, torn, crashes>>

Lost(d) ==
  /\ at[d] = "wait" /\ at' = [at EXCEPT ![d] = "fault"]
  /\ UNCHANGED <<files, disk, op, row, answer, gateway, auditor, sent, claimants, torn, crashes>>

(* live_qa_reconcile.py for the first phase, which takes no lock: it finds a  *)
(* state whose priced admissions all have a receipt or were refused, and      *)
(* writes its proof a little later, or one that says it failed.  Bound: it is *)
(* only run while a proof is of use: when the phase is complete or the run    *)
(* halted, and the second phase is not there yet.                             *)
SettledRow(r) == r.id \in receipts \/ r.seen = "refused"
ProofIsOfUse ==
  /\ files.state.halt \/ files.state.phase["typescript"] = "complete"
  /\ files.state.phase["python"] = "none"

AuditPasses ==
  /\ audit = <<>> /\ files.journal /\ proof # <<files.state>> /\ ProofIsOfUse
  /\ LET due == Rows(files.state, "typescript", Priced) IN
       due # {} /\ \A i \in due : SettledRow(files.state.rows[i])
  /\ audit' = <<files.state>>
  /\ UNCHANGED <<files, disk, op, drivers, gateway, proof, sent, claimants, torn, crashes>>

AuditWrites ==
  /\ audit # <<>> /\ proof' = audit /\ audit' = <<>>
  /\ UNCHANGED <<files, disk, op, drivers, gateway, sent, claimants, torn, crashes>>

AuditFails ==
  /\ proof # <<>> /\ ProofIsOfUse /\ proof' = <<>> /\ audit' = <<>>
  /\ UNCHANGED <<files, disk, op, drivers, gateway, sent, claimants, torn, crashes>>

Over == (\A d \in Drivers : at[d] = "gone") /\ UNCHANGED vars

Actions == {"claim", "resume", "ready", "admit", "observe", "stream", "fault", "finish"}
Next == \/ \E d \in Drivers :
             \/ \E a \in Actions : Begin(d, a)
             \/ Act(d) \/ Save(d) \/ Unlink(d) \/ Return(d)
             \/ GuardDies(d) \/ DriverDies(d) \/ Leaves(d) \/ Dispatch(d) \/ Answered(d) \/ Lost(d)
        \/ PowerFails \/ Settles \/ AuditPasses \/ AuditWrites \/ AuditFails \/ Over

Spec == Init /\ [][Next]_vars

-----------------------------------------------------------------------------
(* Every variable has its type; exactly the priced rows have a ceiling; and   *)
(* who is about to dispatch or observe holds an admission.                    *)
RowType == [phase : Phases, kind : Kinds, cap : Nat,
            id : (Phases \cup {"given"}) \X Nat, seen : Seen]
StateType == [phase : [Phases -> {"none", "open", "complete"}],
              ready : [Phases -> BOOLEAN], failed : [Phases -> BOOLEAN], resumed : BOOLEAN,
              rows : Seq(RowType), reserved : Nat, halt : BOOLEAN]
StateOK(st) ==
  /\ st \in StateType
  /\ \A i \in DOMAIN st.rows : st.rows[i].cap = 0 <=> st.rows[i].kind \notin Priced
DirectoryType == [marker : BOOLEAN, journal : BOOLEAN, state : StateType,
                  claims : SUBSET Phases, events : BOOLEAN]
DirectoryOK(f) ==
  f \in DirectoryType /\ StateOK(f.state) /\ (~f.journal => f.state = Fresh)
OpType == [by : Drivers, action : Actions, stage : {"marked", "save", "saved", "unlinked"},
           mem : StateType, ok : BOOLEAN]
TypeOK ==
  /\ DirectoryOK(files) /\ DirectoryOK(disk)
  /\ op = Idle \/ (op \in OpType /\ StateOK(op.mem))
  /\ at \in [Drivers -> {"claim", "resume", "choose", "dispatch", "wait", "observe",
                         "stream", "fault", "gone"}]
  /\ answer \in [Drivers -> Answers \cup {"none"}]
  /\ row \in [Drivers -> Nat]
  /\ \A d \in Drivers :
       at[d] \in {"dispatch", "wait", "observe", "stream"} => row[d] \in DOMAIN files.state.rows
  /\ sent \in Seq(RowType) /\ claimants \subseteq Drivers /\ torn \in BOOLEAN
  /\ crashes \in 0 .. MaxCrashes

(* Nothing was ever dispatched that is not on record, and will be after any   *)
(* crash: the network never knows of a request that the journal forgot.       *)
Same(r, q) == r.id = q.id /\ r.phase = q.phase /\ r.kind = q.kind /\ r.cap = q.cap
OnRecord(st, r) == \E i \in DOMAIN st.rows : Same(st.rows[i], r)
DispatchedIsOnRecord ==
  \A i \in DOMAIN sent : OnRecord(files.state, sent[i]) /\ OnRecord(disk.state, sent[i])

(* "Retries forbidden": no identity is dispatched twice, by whichever driver, *)
(* before or after whatever crash or repair.                                  *)
NeverTwice == \A i, j \in DOMAIN sent : sent[i].id = sent[j].id => i = j

(* The ceilings of what was really dispatched never sum up to more than the   *)
(* plan allows, in both phases together and across a repair.                  *)
CapSum[n \in 0 .. Len(sent)] == IF n = 0 THEN 0 ELSE CapSum[n - 1] + sent[n].cap
WithinSpend == CapSum[Len(sent)] <= SpendLimit

(* Nor are there more POSTs, nor more than one "auto".                        *)
Dispatched(kinds) == Cardinality({i \in DOMAIN sent : sent[i].kind \in kinds})
WithinRequests == Dispatched(Posts) <= PostLimit /\ Dispatched({"auto"}) <= 1

(* "Unfinished journal transaction; manual reconciliation required, no new    *)
(* dispatch": once an operation was left in the middle, no row is added.      *)
NothingAfterATear == [][torn => Len(files'.state.rows) <= Len(files.state.rows)]_vars

(* "Automatic reruns are forbidden": a phase is granted to one driver, ever.  *)
ClaimedOnce ==
  \A d, e \in claimants : PhaseOf[d] = PhaseOf[e] => d = e

(* "Python waits for successful TypeScript completion and root                *)
(* reconciliation": when the second phase is granted, every priced request of *)
(* the first is settled with the gateway or was refused by it.                *)
PythonWaits ==
  (\E d \in claimants : PhaseOf[d] = "python") =>
     \A i \in DOMAIN sent :
       sent[i].phase = "typescript" /\ sent[i].kind \in Priced =>
         sent[i].id \in receipts \cup refusals

(* A phase that is complete has no request without an observed outcome, also  *)
(* when a repaired run shares it with the driver that halted it.              *)
CompleteIsObserved ==
  \A i \in DOMAIN files.state.rows :
    LET r == files.state.rows[i] IN
      files.state.phase[r.phase] = "complete" => r.seen \notin {"no", "stream"}
=============================================================================
