---------------------------- MODULE QaGuardProofs ----------------------------
(***************************************************************************)
(* Proofs about QaGuard and LiveQa, for any number of drivers and crashes  *)
(* and for all limits.                                                     *)
(***************************************************************************)
EXTENDS LiveQa, FiniteSetTheorems, TLAPS

(* t has the requests of s, and perhaps more of them. *)
Extends(s, t) ==
  /\ Len(s.rows) <= Len(t.rows)
  /\ \A i \in DOMAIN s.rows : Same(t.rows[i], s.rows[i])

(* Outside its handler's work an operation holds what state.json says; what  *)
(* it is about to write only adds to that.  Who waits for an operation stands *)
(* where it was called from.                                                  *)
MemInv ==
  /\ Extends(disk.state, files.state)
  /\ op # Idle =>
       /\ Extends(files.state, op.mem)
       /\ op.stage # "save" => op.mem = files.state
       /\ op.stage = "marked" => op.ok
       /\ at[op.by] \notin {"dispatch", "wait", "gone"}
       /\ op.action = "observe" <=> at[op.by] = "observe"
       /\ op.action = "stream" <=> at[op.by] = "stream"
       /\ op.action = "admit" /\ op.ok /\ op.stage # "marked" =>
            row[op.by] = Len(op.mem.rows) /\ row[op.by] > 0

TypeInv == TypeOK /\ MemInv

-----------------------------------------------------------------------------
(* What the handlers make of a state. *)
LEMMA ExtendsItself ==
  ASSUME NEW s \in StateType
  PROVE  Extends(s, s)
  BY DEF Extends, StateType, Same

LEMMA ExtendsOnwards ==
  ASSUME NEW s \in StateType, NEW t \in StateType, NEW u \in StateType,
         Extends(s, t), Extends(t, u)
  PROVE  Extends(s, u)
  BY DEF Extends, StateType, Same

(* The outcome of one request goes on record, nothing else changes. *)
LEMMA Recorded ==
  ASSUME NEW s, StateOK(s), NEW i \in DOMAIN s.rows, NEW x \in Seen
  PROVE  LET t == [s EXCEPT !.rows[i].seen = x] IN
         /\ StateOK(t) /\ Extends(s, t) /\ Len(t.rows) = Len(s.rows)
<1> DEFINE t == [s EXCEPT !.rows[i].seen = x]
           r == [s.rows EXCEPT ![i].seen = x]
<1>1. s.rows \in Seq(RowType) /\ s \in StateType
  BY DEF StateOK, StateType
<1>2. s.rows[i] \in RowType
  BY <1>1
<1>3. [s.rows[i] EXCEPT !.seen = x] \in RowType
  BY <1>2 DEF RowType
<1>4. r \in Seq(RowType) /\ Len(r) = Len(s.rows) /\ DOMAIN r = DOMAIN s.rows
  BY <1>1, <1>3
<1>5. \A j \in DOMAIN s.rows : Same(r[j], s.rows[j])
  BY <1>1, <1>2 DEF RowType, Same
<1>6. t = [s EXCEPT !.rows = r] /\ t.rows = r
  BY <1>1 DEF StateType
<1>7. t \in StateType
  BY <1>1, <1>4, <1>6 DEF StateType
<1>8. StateOK(t)
  BY <1>4, <1>5, <1>6, <1>7 DEF StateOK
<1>9. Extends(s, t) /\ Len(t.rows) = Len(s.rows)
  BY <1>4, <1>5, <1>6 DEF Extends
<1> QED BY <1>8, <1>9

(* A request is admitted under an identity. *)
WithRow(s, p, k, cap, id) ==
  [s EXCEPT !.rows = Append(@, [phase |-> p, kind |-> k, cap |-> cap, id |-> id, seen |-> "no"]),
            !.reserved = @ + cap]

LEMMA Admitted ==
  ASSUME NEW s, StateOK(s), NEW p \in Phases, NEW k \in Kinds, NEW cap \in CapsOf(k),
         NEW id \in IdentitiesFor(s, p)
  PROVE  LET t == WithRow(s, p, k, cap, id)
         IN /\ StateOK(t) /\ Extends(s, t)
            /\ Len(t.rows) = Len(s.rows) + 1 /\ t.rows[Len(s.rows) + 1].id = id
<1> DEFINE r == [phase |-> p, kind |-> k, cap |-> cap, id |-> id, seen |-> "no"]
           t == WithRow(s, p, k, cap, id)
<1>1. s.rows \in Seq(RowType) /\ s \in StateType /\ s.reserved \in Nat
  BY DEF StateOK, StateType
<1>2. cap \in Nat /\ (cap = 0 <=> k \notin Priced)
  BY CampaignAssumption DEF CapsOf, Kinds, Priced
<1>3. id \in (Phases \cup {"given"}) \X Nat
  <2>1. CASE id \in Identities
    BY <2>1, CampaignAssumption
  <2>2. CASE id = <<p, Len(s.rows)>>
    BY <2>2, <1>1
  <2> QED BY <2>1, <2>2 DEF IdentitiesFor
<1>4. r \in RowType
  BY <1>2, <1>3 DEF RowType, Seen
<1>5. Append(s.rows, r) \in Seq(RowType)
  BY <1>1, <1>4
<1>6. t \in StateType /\ t.rows = Append(s.rows, r)
  <2>1. s.reserved + cap \in Nat
    BY <1>1, <1>2
  <2>2. t = [s EXCEPT !.rows = Append(s.rows, r), !.reserved = s.reserved + cap]
    BY <1>1 DEF StateType, WithRow
  <2> HIDE DEF r
  <2> QED BY <1>1, <1>5, <2>1, <2>2 DEF StateType
<1>7. /\ Len(t.rows) = Len(s.rows) + 1 /\ t.rows[Len(s.rows) + 1] = r
      /\ \A i \in DOMAIN s.rows : t.rows[i] = s.rows[i]
      /\ DOMAIN t.rows = DOMAIN s.rows \cup {Len(s.rows) + 1}
  BY <1>1, <1>4, <1>6
<1>8. StateOK(t)
  BY <1>2, <1>6, <1>7 DEF StateOK
<1>9. Extends(s, t)
  BY <1>1, <1>7 DEF Extends, Same
<1> QED BY <1>7, <1>8, <1>9

-----------------------------------------------------------------------------
(* What any handler does: it adds at most one row, under an unused identity,  *)
(* and a claim file only if the phase has none.                               *)
Effect(d) ==
  /\ op' \in OpType /\ op'.by = d /\ op'.action = op.action /\ op'.stage = "save"
  /\ StateOK(op'.mem) /\ Extends(op.mem, op'.mem)
  /\ IF op.action = "admit" /\ op'.ok
     THEN /\ row' = [row EXCEPT ![d] = Len(op.mem.rows) + 1]
          /\ Len(op'.mem.rows) = Len(op.mem.rows) + 1
          /\ Unused(op.mem, op'.mem.rows[Len(op.mem.rows) + 1].id)
     ELSE row' = row /\ Len(op'.mem.rows) = Len(op.mem.rows)
  /\ files' \in DirectoryType /\ files'.marker = files.marker
  /\ files'.journal = files.journal /\ files'.state = files.state
  /\ files.claims \subseteq files'.claims
  /\ op.action = "claim" /\ op'.ok =>
       PhaseOf[d] \notin files.claims /\ PhaseOf[d] \in files'.claims

LEMMA Written ==
  ASSUME NEW f \in DirectoryType, NEW p \in Phases
  PROVE  LET g == [f EXCEPT !.claims = @ \cup {p}, !.events = TRUE]
             h == [f EXCEPT !.events = TRUE]
         IN /\ g \in DirectoryType /\ g.marker = f.marker /\ g.journal = f.journal
            /\ g.state = f.state /\ g.claims = f.claims \cup {p}
            /\ h \in DirectoryType /\ h.marker = f.marker /\ h.journal = f.journal
            /\ h.state = f.state /\ h.claims = f.claims
  BY DEF DirectoryType

LEMMA ActEffect ==
  ASSUME TypeInv, NEW d \in Drivers, Act(d)
  PROVE  Effect(d)
<1> DEFINE p == PhaseOf[d]
           st == op'.mem
<1>1. op \in OpType /\ StateOK(op.mem) /\ op.by = d /\ op.stage = "marked" /\ op.ok
      /\ op.mem = files.state /\ op # Idle
  BY DEF TypeInv, TypeOK, MemInv, Act, Idle
<1>2. op.mem \in StateType /\ p \in Phases /\ files \in DirectoryType /\ row \in [Drivers -> Nat]
  BY <1>1, CampaignAssumption DEF StateOK, TypeInv, TypeOK, DirectoryOK
<1>3. ASSUME NEW s, StateOK(s), Accepts(s)
      PROVE  op' \in OpType /\ op'.by = d /\ op'.action = op.action /\ op'.stage = "save"
             /\ op'.mem = s /\ op'.ok
  BY <1>1, <1>3 DEF Accepts, OpType, StateOK
<1>4. ASSUME NEW s, StateOK(s), s.rows = op.mem.rows
      PROVE  Extends(op.mem, s)
  BY <1>2, <1>4 DEF Extends, StateType, Same
<1>5. ASSUME Logs \/ UNCHANGED files
      PROVE  files' \in DirectoryType /\ files'.marker = files.marker
             /\ files'.journal = files.journal /\ files'.state = files.state
             /\ files'.claims = files.claims
  BY <1>2, <1>5, Written DEF Logs
<1>6. CASE op.action = "claim" /\ Claim(d)
  <2> DEFINE s == [op.mem EXCEPT !.phase[p] = "open"]
  <2>1. StateOK(s) /\ s.rows = op.mem.rows
    BY <1>1, <1>2 DEF StateOK, StateType
  <2>2. Accepts(s) /\ p \notin files.claims /\ UNCHANGED row
        /\ files' = [files EXCEPT !.claims = @ \cup {p}, !.events = TRUE]
    BY <1>6 DEF Claim, MayClaim
  <2>3. /\ files' \in DirectoryType /\ files'.marker = files.marker
        /\ files'.journal = files.journal /\ files'.state = files.state
        /\ files'.claims = files.claims \cup {p}
    BY <1>2, <2>2, Written
  <2> HIDE DEF s
  <2>4. op' \in OpType /\ op'.by = d /\ op'.action = op.action /\ op'.stage = "save"
        /\ op'.mem = s /\ Extends(op.mem, s)
    BY <1>3, <1>4, <2>1, <2>2
  <2> QED BY <1>2, <1>6, <2>1, <2>2, <2>3, <2>4 DEF Effect
<1>7. CASE op.action = "resume" /\ Resume(d)
  <2> DEFINE s == [op.mem EXCEPT !.halt = FALSE, !.ready[p] = FALSE, !.resumed = TRUE]
  <2>1. StateOK(s) /\ s.rows = op.mem.rows
    BY <1>1, <1>2 DEF StateOK, StateType
  <2>2. Accepts(s) /\ Logs /\ UNCHANGED row
    BY <1>7 DEF Resume
  <2> HIDE DEF s
  <2> QED BY <1>3, <1>4, <1>5, <1>7, <2>1, <2>2 DEF Effect
<1>8. CASE op.action = "ready" /\ Ready(d)
  <2> DEFINE s == [op.mem EXCEPT !.ready[p] = TRUE]
  <2>1. StateOK(s) /\ s.rows = op.mem.rows
    BY <1>1, <1>2 DEF StateOK, StateType
  <2>2. Accepts(s) /\ UNCHANGED <<files, row>>
    BY <1>8 DEF Ready
  <2> HIDE DEF s
  <2> QED BY <1>3, <1>4, <1>5, <1>8, <2>1, <2>2 DEF Effect
<1>9. CASE op.action = "fault" /\ Fault
  <2> DEFINE s == [op.mem EXCEPT !.halt = TRUE]
  <2>1. StateOK(s) /\ s.rows = op.mem.rows
    BY <1>1, <1>2 DEF StateOK, StateType
  <2>2. Accepts(s) /\ Logs /\ UNCHANGED row
    BY <1>9 DEF Fault
  <2> HIDE DEF s
  <2> QED BY <1>3, <1>4, <1>5, <1>9, <2>1, <2>2 DEF Effect
<1>10. CASE op.action = "finish" /\ Finish(d)
  <2>1. PICK fails \in BOOLEAN :
          Accepts([op.mem EXCEPT !.phase[p] = "complete", !.failed[p] = fails])
    BY <1>10 DEF Finish
  <2> DEFINE s == [op.mem EXCEPT !.phase[p] = "complete", !.failed[p] = fails]
  <2>2. StateOK(s) /\ s.rows = op.mem.rows
    BY <1>1, <1>2 DEF StateOK, StateType
  <2>3. Accepts(s) /\ Logs /\ UNCHANGED row
    BY <1>10, <2>1 DEF Finish
  <2> HIDE DEF s
  <2> QED BY <1>3, <1>4, <1>5, <1>10, <2>2, <2>3 DEF Effect
<1>11. CASE op.action = "admit" /\ Admit(d)
  <2>1. PICK k \in Kinds : \E cap \in CapsOf(k), id \in IdentitiesFor(op.mem, p) :
          /\ Unused(op.mem, id) /\ Accepts(WithRow(op.mem, p, k, cap, id))
          /\ row' = [row EXCEPT ![d] = Len(op.mem.rows) + 1] /\ Logs
    BY <1>11 DEF Admit, WithRow
  <2>2. PICK cap \in CapsOf(k), id \in IdentitiesFor(op.mem, p) :
          /\ Unused(op.mem, id) /\ Accepts(WithRow(op.mem, p, k, cap, id))
          /\ row' = [row EXCEPT ![d] = Len(op.mem.rows) + 1] /\ Logs
    BY <2>1
  <2> DEFINE s == WithRow(op.mem, p, k, cap, id)
  <2>3. /\ StateOK(s) /\ Extends(op.mem, s)
        /\ Len(s.rows) = Len(op.mem.rows) + 1 /\ s.rows[Len(op.mem.rows) + 1].id = id
    BY <1>1, <1>2, Admitted
  <2>4. Accepts(s) /\ Logs /\ row' = [row EXCEPT ![d] = Len(op.mem.rows) + 1]
        /\ Unused(op.mem, id)
    BY <2>2
  <2> HIDE DEF s
  <2> QED BY <1>3, <1>5, <1>11, <2>3, <2>4 DEF Effect
<1>12. CASE op.action = "observe" /\ Observe(d)
  <2> DEFINE s == [op.mem EXCEPT !.rows[row[d]].seen = answer[d]]
  <2>1. row[d] \in DOMAIN op.mem.rows /\ answer[d] \in Seen
    BY <1>1, <1>12 DEF Observe, TypeInv, TypeOK, MemInv, Seen, Answers
  <2>2. StateOK(s) /\ Extends(op.mem, s) /\ Len(s.rows) = Len(op.mem.rows)
    BY <1>1, <2>1, Recorded
  <2>3. Accepts(s) /\ Logs /\ UNCHANGED row
    BY <1>12 DEF Observe
  <2> HIDE DEF s
  <2> QED BY <1>3, <1>5, <1>12, <2>2, <2>3 DEF Effect
<1>13. CASE op.action = "stream" /\ Terminal(d)
  <2> DEFINE s == [op.mem EXCEPT !.rows[row[d]].seen = "ended"]
  <2>1. row[d] \in DOMAIN op.mem.rows /\ "ended" \in Seen
    BY <1>1, <1>13 DEF TypeInv, TypeOK, MemInv, Seen
  <2>2. StateOK(s) /\ Extends(op.mem, s) /\ Len(s.rows) = Len(op.mem.rows)
    BY <1>1, <2>1, Recorded
  <2>3. Accepts(s) /\ Logs /\ UNCHANGED row
    BY <1>13 DEF Terminal
  <2> HIDE DEF s
  <2> QED BY <1>3, <1>5, <1>13, <2>2, <2>3 DEF Effect
<1>14. CASE Refuse(d)
  <2> DEFINE kept == IF op.action = "observe" /\ op.mem.rows[row[d]].seen = "no"
                     THEN [op.mem EXCEPT !.rows[row[d]].seen = answer[d]] ELSE op.mem
             s == IF op.action \in {"observe", "stream", "finish"}
                  THEN [kept EXCEPT !.halt = TRUE] ELSE op.mem
  <2>1. StateOK(kept) /\ Extends(op.mem, kept) /\ Len(kept.rows) = Len(op.mem.rows)
    <3>1. CASE op.action = "observe" /\ op.mem.rows[row[d]].seen = "no"
      <4>1. row[d] \in DOMAIN op.mem.rows
        BY <1>1, <3>1 DEF TypeInv, TypeOK, MemInv
      <4>2. answer[d] \in Seen
        BY <3>1, <1>14 DEF Refuse, Seen, Answers
      <4> QED BY <1>1, <3>1, <4>1, <4>2, Recorded
    <3>2. CASE ~(op.action = "observe" /\ op.mem.rows[row[d]].seen = "no")
      BY <1>1, <1>2, <3>2, ExtendsItself
    <3> QED BY <3>1, <3>2
  <2>2. op' = [op EXCEPT !.stage = "save", !.ok = FALSE, !.mem = s] /\ UNCHANGED row
        /\ (Logs \/ UNCHANGED files)
    BY <1>14 DEF Refuse, Logs
  <2>3. StateOK(s) /\ Extends(op.mem, s) /\ Len(s.rows) = Len(op.mem.rows)
    <3> HIDE DEF kept
    <3>1. StateOK([kept EXCEPT !.halt = TRUE]) /\ [kept EXCEPT !.halt = TRUE].rows = kept.rows
      BY <2>1 DEF StateOK, StateType
    <3> QED BY <1>1, <1>2, <2>1, <3>1, ExtendsItself DEF Extends
  <2> HIDE DEF s
  <2>4. op' \in OpType /\ op'.by = d /\ op'.action = op.action /\ op'.stage = "save"
        /\ op'.mem = s /\ ~op'.ok
    BY <1>1, <2>2, <2>3 DEF OpType, StateOK
  <2> QED BY <1>5, <2>2, <2>3, <2>4 DEF Effect
<1> QED BY <1>6, <1>7, <1>8, <1>9, <1>10, <1>11, <1>12, <1>13, <1>14 DEF Act

-----------------------------------------------------------------------------
(* Types. *)
Places == {"claim", "resume", "choose", "dispatch", "wait", "observe", "stream", "fault", "gone"}

LEMMA Moves ==
  ASSUME TypeOK, NEW d \in Drivers, NEW x \in Places, GoesOn(d, x)
  PROVE  /\ at' \in [Drivers -> Places] /\ row' \in [Drivers -> Nat]
         /\ answer' \in [Drivers -> Answers \cup {"none"}]
         /\ at'[d] = x /\ (x \notin {"choose", "gone"} => row' = row)
         /\ \A e \in Drivers \ {d} : at'[e] = at[e] /\ row'[e] = row[e]
<1>1. /\ at \in [Drivers -> Places] /\ row \in [Drivers -> Nat]
      /\ answer \in [Drivers -> Answers \cup {"none"}]
  BY DEF TypeOK, Places
<1>2. at' \in [Drivers -> Places] /\ at'[d] = x /\ \A e \in Drivers \ {d} : at'[e] = at[e]
  BY <1>1 DEF GoesOn
<1>3. /\ row' \in [Drivers -> Nat] /\ (x \notin {"choose", "gone"} => row' = row)
      /\ \A e \in Drivers \ {d} : row'[e] = row[e]
  BY <1>1 DEF GoesOn
<1>4. answer' \in [Drivers -> Answers \cup {"none"}]
  BY <1>1 DEF GoesOn
<1> QED BY <1>2, <1>3, <1>4

LEMMA Failures ==
  ASSUME NEW a
  PROVE  AfterFailure(a) \subseteq {"gone", "fault", "choose"}
  BY DEF AfterFailure

LEMMA Successes ==
  ASSUME NEW d \in Drivers
  PROVE  /\ AfterSuccess(d) \subseteq {"dispatch", "stream", "choose", "gone"}
         /\ "dispatch" \in AfterSuccess(d) => op.action = "admit"
         /\ "stream" \in AfterSuccess(d) => op.action = "observe"
  BY DEF AfterSuccess

LEMMA TypeInit == Init => TypeInv
<1> SUFFICES ASSUME Init PROVE TypeInv
  OBVIOUS
<1>1. Fresh \in StateType /\ Fresh.rows = <<>>
  BY DEF Fresh, StateType, Phases
<1>2. StateOK(Fresh)
  BY <1>1 DEF StateOK
<1>3. files \in DirectoryType /\ files.state = Fresh
  BY <1>1 DEF Init, DirectoryType
<1>4. DirectoryOK(files) /\ DirectoryOK(disk)
  BY <1>2, <1>3 DEF Init, DirectoryOK
<1>5. Extends(disk.state, files.state)
  BY <1>1, <1>3, ExtendsItself DEF Init
<1>6. /\ sent \in Seq(RowType) /\ crashes \in 0 .. MaxCrashes
      /\ row \in [Drivers -> Nat] /\ answer \in [Drivers -> Answers \cup {"none"}]
  BY CampaignAssumption DEF Init
<1>7. \A d \in Drivers : at[d] \in {"claim", "resume", "gone"}
  BY DEF Init
<1> QED BY <1>4, <1>5, <1>6, <1>7 DEF Init, TypeInv, TypeOK, MemInv

LEMMA TypeStep == TypeInv /\ [Next]_vars => TypeInv'
<1> SUFFICES ASSUME TypeInv, [Next]_vars PROVE TypeInv'
  OBVIOUS
<1> USE DEF drivers, gateway, auditor
<1>0. /\ files.state \in StateType /\ disk.state \in StateType
      /\ (op # Idle => op \in OpType /\ op.mem \in StateType)
      /\ Extends(files.state, files.state)
  BY ExtendsItself DEF TypeInv, TypeOK, DirectoryOK, StateOK
<1>1. ASSUME NEW d \in Drivers, NEW a \in Actions, Begin(d, a) PROVE TypeInv'
  <2>1. CASE MayBegin
    <3>1. /\ op' = [by |-> d, action |-> a, stage |-> "marked", mem |-> files.state, ok |-> TRUE]
          /\ files' = [files EXCEPT !.marker = TRUE]
          /\ UNCHANGED <<drivers, disk, sent, claimants, torn, crashes>> /\ Wants(d, a)
      BY <1>1, <2>1 DEF Begin
    <3>2. DirectoryOK(files') /\ files'.state = files.state
      BY <3>1 DEF TypeInv, TypeOK, DirectoryOK, DirectoryType
    <3>3. op' \in OpType /\ StateOK(op'.mem)
      BY <1>0, <3>1 DEF OpType, TypeInv, TypeOK, DirectoryOK
    <3>4. TypeOK'
      BY <3>1, <3>2, <3>3 DEF TypeInv, TypeOK
    <3>5. at[d] \notin {"dispatch", "wait", "gone"} /\ (a = "observe" <=> at[d] = "observe")
          /\ (a = "stream" <=> at[d] = "stream")
      BY <3>1 DEF Wants, Actions
    <3>6. MemInv'
      BY <1>0, <3>1, <3>2, <3>5 DEF TypeInv, MemInv
    <3> QED BY <3>4, <3>6 DEF TypeInv
  <2>2. CASE ~MayBegin
    <3>1. PICK x \in AfterFailure(a) : GoesOn(d, x)
      BY <1>1, <2>2 DEF Begin
    <3>2. x \in {"gone", "fault", "choose"} /\ x \in Places
      BY <3>1, Failures DEF Places
    <3>3. op = Idle /\ UNCHANGED <<op, files, disk, sent, claimants, torn, crashes>>
      BY <1>1, <2>2 DEF Begin
    <3>4. TypeOK'
      BY <3>1, <3>2, <3>3, Moves DEF TypeInv, TypeOK, Places
    <3>5. MemInv'
      BY <3>3 DEF TypeInv, MemInv
    <3> QED BY <3>4, <3>5 DEF TypeInv
  <2> QED BY <2>1, <2>2
<1>2. ASSUME NEW d \in Drivers, Act(d) PROVE TypeInv'
  <2>1. Effect(d)
    BY <1>2, ActEffect
  <2>2. op.by = d /\ op.stage = "marked" /\ op # Idle /\ op.mem = files.state /\ disk' = files
        /\ UNCHANGED <<at, answer, sent, claimants, torn, crashes>>
    BY <1>2 DEF Act, Synced, Idle, TypeInv, MemInv
  <2>3. DirectoryOK(files') /\ DirectoryOK(disk')
    BY <2>1, <2>2 DEF Effect, TypeInv, TypeOK, DirectoryOK
  <2>4. /\ row' \in [Drivers -> Nat]
        /\ \A e \in Drivers : at[e] \in {"dispatch", "wait", "observe", "stream"} => row'[e] = row[e]
    <3>1. op.action = "admit" => at[d] \notin {"dispatch", "wait", "observe", "stream"}
      BY <2>2 DEF TypeInv, MemInv
    <3>2. Len(op.mem.rows) + 1 \in Nat
      BY <1>0, <2>2 DEF StateType
    <3> QED BY <2>1, <3>1, <3>2 DEF Effect, TypeInv, TypeOK
  <2>5. TypeOK'
    BY <2>1, <2>2, <2>3, <2>4 DEF Effect, TypeInv, TypeOK
  <2>6. op'.action = "admit" /\ op'.ok => row'[d] = Len(op'.mem.rows) /\ row'[d] > 0
    BY SMTT(20), <1>0, <2>1, <2>2 DEF Effect, TypeInv, TypeOK, StateType
  <2>7. MemInv'
    BY <1>0, <2>1, <2>2, <2>6 DEF Effect, TypeInv, MemInv
  <2> QED BY <2>5, <2>7 DEF TypeInv
<1>3. ASSUME NEW d \in Drivers, Save(d) PROVE TypeInv'
  <2>1. /\ op.by = d /\ op.stage = "save" /\ op # Idle /\ op' = [op EXCEPT !.stage = "saved"]
        /\ files' = [files EXCEPT !.state = op.mem, !.journal = TRUE]
        /\ UNCHANGED <<disk, drivers, sent, claimants, torn, crashes>>
    BY <1>3 DEF Save, Goes, Idle
  <2>2. op' \in OpType /\ op'.mem = op.mem /\ op'.action = op.action /\ op'.ok = op.ok
        /\ op'.by = d /\ op'.stage = "saved"
    BY <1>0, <2>1 DEF OpType
  <2>3. files' \in DirectoryType /\ files'.state = op.mem /\ files'.journal
    BY <1>0, <2>1 DEF TypeInv, TypeOK, DirectoryOK, DirectoryType
  <2>4. DirectoryOK(files')
    BY <2>1, <2>3 DEF TypeInv, TypeOK, DirectoryOK
  <2>5. \A e \in Drivers : row[e] \in DOMAIN files.state.rows => row[e] \in DOMAIN files'.state.rows
    BY <1>0, <2>1, <2>3 DEF TypeInv, MemInv, Extends, StateType
  <2>6. TypeOK'
    BY <2>1, <2>2, <2>4, <2>5 DEF TypeInv, TypeOK
  <2>7. Extends(disk.state, op.mem) /\ Extends(op.mem, op.mem)
    BY <1>0, <2>1, ExtendsOnwards, ExtendsItself DEF TypeInv, MemInv
  <2>8. MemInv'
    BY <2>1, <2>2, <2>3, <2>7 DEF TypeInv, MemInv
  <2> QED BY <2>6, <2>8 DEF TypeInv
<1>4. ASSUME NEW d \in Drivers, Unlink(d) PROVE TypeInv'
  <2>1. /\ op.by = d /\ op.stage = "saved" /\ op # Idle /\ op' = [op EXCEPT !.stage = "unlinked"]
        /\ files' = [files EXCEPT !.marker = FALSE] /\ disk' = files
        /\ UNCHANGED <<drivers, sent, claimants, torn, crashes>>
    BY <1>4 DEF Unlink, Goes, Idle, Synced
  <2>2. op' \in OpType /\ op'.mem = op.mem /\ op'.action = op.action /\ op'.ok = op.ok
        /\ op'.by = d /\ op'.stage = "unlinked"
    BY <1>0, <2>1 DEF OpType
  <2>3. DirectoryOK(files') /\ files'.state = files.state
    BY <2>1 DEF TypeInv, TypeOK, DirectoryOK, DirectoryType
  <2>4. TypeOK'
    BY <2>1, <2>2, <2>3 DEF TypeInv, TypeOK
  <2>5. MemInv'
    BY <1>0, <2>1, <2>2, <2>3 DEF TypeInv, MemInv
  <2> QED BY <2>4, <2>5 DEF TypeInv
<1>5. ASSUME NEW d \in Drivers, Return(d) PROVE TypeInv'
  <2>1. /\ op.by = d /\ op.stage = "unlinked" /\ op # Idle /\ op' = Idle /\ disk' = files
        /\ claimants' \subseteq claimants \cup {d} /\ UNCHANGED <<files, sent, torn, crashes>>
    BY <1>5 DEF Return, Idle, Synced
  <2>2. PICK x \in IF op.ok THEN AfterSuccess(d) ELSE AfterFailure(op.action) : GoesOn(d, x)
    BY <1>5 DEF Return
  <2>3. /\ x \in {"dispatch", "stream", "choose", "gone", "fault"} /\ x \in Places
        /\ x = "dispatch" => op.action = "admit" /\ op.ok
        /\ x = "stream" => op.action = "observe"
    BY <2>2, Failures, Successes DEF Places
  <2>4. x \in {"dispatch", "stream"} => row'[d] \in DOMAIN files.state.rows
    <3>1. x \in {"dispatch", "stream"} => row' = row
      BY <2>2, <2>3, Moves DEF TypeInv
    <3>2. x = "dispatch" => row[d] = Len(files.state.rows) /\ row[d] > 0
      BY <2>1, <2>3 DEF TypeInv, MemInv
    <3>3. x = "stream" => row[d] \in DOMAIN files.state.rows
      BY <2>1, <2>3 DEF TypeInv, TypeOK, MemInv
    <3> QED BY <1>0, <3>1, <3>2, <3>3 DEF StateType
  <2>5. /\ at' \in [Drivers -> Places] /\ row' \in [Drivers -> Nat]
        /\ answer' \in [Drivers -> Answers \cup {"none"}] /\ at'[d] = x
        /\ \A e \in Drivers \ {d} : at'[e] = at[e] /\ row'[e] = row[e]
    BY <2>2, <2>3, Moves DEF TypeInv
  <2>6. \A e \in Drivers : at'[e] \in {"dispatch", "wait", "observe", "stream"} =>
          row'[e] \in DOMAIN files.state.rows
    BY <2>3, <2>4, <2>5 DEF TypeInv, TypeOK
  <2>7. TypeOK'
    BY <2>1, <2>5, <2>6 DEF TypeInv, TypeOK, Places
  <2>8. MemInv'
    BY <1>0, <2>1 DEF MemInv
  <2> QED BY <2>7, <2>8 DEF TypeInv
<1>6. ASSUME NEW d \in Drivers, GuardDies(d) PROVE TypeInv'
  <2>1. PICK x \in AfterFailure(op.action) : GoesOn(d, x)
    BY <1>6 DEF GuardDies
  <2>2. x \in {"gone", "fault", "choose"} /\ x \in Places
    BY <2>1, Failures DEF Places
  <2>3. /\ op' = Idle /\ torn' \in BOOLEAN /\ crashes' \in 0 .. MaxCrashes
        /\ UNCHANGED <<files, disk, sent, claimants>>
    BY <1>6, CampaignAssumption DEF GuardDies, Crash, TypeInv, TypeOK
  <2>4. TypeOK'
    BY <2>1, <2>2, <2>3, Moves DEF TypeInv, TypeOK, Places
  <2>5. MemInv'
    BY <2>3 DEF TypeInv, MemInv
  <2> QED BY <2>4, <2>5 DEF TypeInv
<1>7. ASSUME NEW d \in Drivers, DriverDies(d) PROVE TypeInv'
  <2>1. GoesOn(d, "gone") /\ "gone" \in Places /\ UNCHANGED <<files, disk, sent, claimants>>
    BY <1>7 DEF DriverDies, Places
  <2>2. /\ torn' \in BOOLEAN /\ crashes' \in 0 .. MaxCrashes
        /\ op' = Idle \/ (op.by # d /\ op' = op)
    <3>1. CASE op.by = d
      BY <1>7, <3>1, CampaignAssumption DEF DriverDies, Crash, TypeInv, TypeOK
    <3>2. CASE op.by # d
      BY <1>7, <3>2, CampaignAssumption DEF DriverDies, TypeInv, TypeOK
    <3> QED BY <3>1, <3>2
  <2>3. TypeOK'
    BY <2>1, <2>2, Moves DEF TypeInv, TypeOK, Places
  <2>4. op # Idle /\ op.by # d => at'[op.by] = at[op.by] /\ row'[op.by] = row[op.by]
    BY <1>0, <2>1, Moves DEF TypeInv, OpType
  <2>5. MemInv'
    BY <2>1, <2>2, <2>4 DEF TypeInv, MemInv
  <2> QED BY <2>3, <2>5 DEF TypeInv
<1>13. ASSUME NEW d \in Drivers, Leaves(d) PROVE TypeInv'
  <2>1. /\ GoesOn(d, "gone") /\ "gone" \in Places /\ op.by # d
        /\ UNCHANGED <<files, disk, op, sent, claimants, torn, crashes>>
    BY <1>13 DEF Leaves, Places
  <2>2. TypeOK'
    BY <2>1, Moves DEF TypeInv, TypeOK, Places
  <2>3. op # Idle => at'[op.by] = at[op.by] /\ row'[op.by] = row[op.by]
    BY <1>0, <2>1, Moves DEF TypeInv, OpType
  <2>4. MemInv'
    BY <2>1, <2>3 DEF TypeInv, MemInv
  <2> QED BY <2>2, <2>4 DEF TypeInv
<1>8. ASSUME PowerFails PROVE TypeInv'
  <2>1. PICK m, s, c, e \in {files, disk} :
          disk' = [marker |-> m.marker, journal |-> s.journal, state |-> s.state,
                   claims |-> c.claims, events |-> e.events]
    BY <1>8 DEF PowerFails
  <2>2. DirectoryOK(disk') /\ files' = disk' /\ disk'.state \in StateType
    BY <1>8, <2>1 DEF PowerFails, TypeInv, TypeOK, DirectoryOK, DirectoryType
  <2>3. /\ op' = Idle /\ torn' \in BOOLEAN /\ crashes' \in 0 .. MaxCrashes
        /\ UNCHANGED <<sent, claimants>>
        /\ row' = [d \in Drivers |-> 0] /\ answer' = [d \in Drivers |-> "none"]
    BY <1>8, CampaignAssumption DEF PowerFails, Crash, TypeInv, TypeOK
  <2>4. at' \in [Drivers -> {"claim", "resume", "gone"}]
    BY <1>8 DEF PowerFails
  <2>5. TypeOK'
    BY <2>2, <2>3, <2>4 DEF TypeInv, TypeOK
  <2>6. MemInv'
    BY <2>2, <2>3, ExtendsItself DEF MemInv
  <2> QED BY <2>5, <2>6 DEF TypeInv
<1>9. ASSUME NEW d \in Drivers, Dispatch(d) PROVE TypeInv'
  <2>1. files.state.rows[row[d]] \in RowType
    BY <1>0, <1>9 DEF Dispatch, TypeInv, TypeOK, StateType
  <2>2. TypeOK'
    BY <1>9, <2>1 DEF Dispatch, TypeInv, TypeOK
  <2>3. MemInv'
    BY <1>0, <1>9 DEF Dispatch, TypeInv, TypeOK, MemInv, OpType
  <2> QED BY <2>2, <2>3 DEF TypeInv
<1>10. ASSUME NEW d \in Drivers, Answered(d) PROVE TypeInv'
  <2>1. TypeOK'
    BY <1>10 DEF Answered, TypeInv, TypeOK
  <2>2. MemInv'
    BY <1>0, <1>10 DEF Answered, TypeInv, TypeOK, MemInv, OpType
  <2> QED BY <2>1, <2>2 DEF TypeInv
<1>11. ASSUME NEW d \in Drivers, Lost(d) PROVE TypeInv'
  <2>1. TypeOK'
    BY <1>11 DEF Lost, TypeInv, TypeOK
  <2>2. MemInv'
    BY <1>0, <1>11 DEF Lost, TypeInv, TypeOK, MemInv, OpType
  <2> QED BY <2>1, <2>2 DEF TypeInv
<1>12. ASSUME Settles \/ AuditPasses \/ AuditWrites \/ AuditFails \/ UNCHANGED vars PROVE TypeInv'
  <2>1. UNCHANGED <<files, disk, op, drivers, sent, claimants, torn, crashes>>
    BY <1>12 DEF Settles, AuditPasses, AuditWrites, AuditFails, vars
  <2> QED BY <2>1 DEF TypeInv, TypeOK, MemInv
<1> QED BY <1>1, <1>2, <1>3, <1>4, <1>5, <1>6, <1>7, <1>8, <1>9, <1>10, <1>11, <1>12, <1>13
  DEF Next, Over

(* Besides, what an operation holds in memory only ever adds to state.json,   *)
(* and the durable copy of state.json only lags behind it: _save, which       *)
(* replaces the file (live_qa_guard.py:107-113), never loses a row.           *)
THEOREM TypesHold == Spec => []TypeInv
<1>1. Init => TypeInv
  BY TypeInit
<1>2. TypeInv /\ [Next]_vars => TypeInv'
  BY TypeStep
<1> QED BY <1>1, <1>2, PTL DEF Spec

(* Every variable of the campaign keeps its type: operation() never leaves a  *)
(* state.json that its handlers do not expect, and whoever is about to        *)
(* dispatch or observe has an admission on record.                            *)
THEOREM TypeCorrect == Spec => []TypeOK
<1>1. TypeInv => TypeOK
  BY DEF TypeInv
<1> QED BY <1>1, TypesHold, PTL

-----------------------------------------------------------------------------
(* The other steps write nothing: an operation is refused at its marker, or   *)
(* it dies; a driver hears of its request, or dies; the gateway and the audit *)
(* do their work.                                                             *)
Elsewhere ==
  /\ UNCHANGED <<files, disk, sent, claimants>> /\ op' \in {op, Idle}
  /\ (torn' = torn) \/ (op' = Idle /\ op.stage \in {"save", "saved"} /\ torn' = TRUE)
  /\ \A e \in Drivers : at'[e] = "dispatch" => at[e] = "dispatch" /\ row'[e] = row[e]
  /\ op' # Idle => row'[op.by] = row[op.by]

Working ==
  \E d \in Drivers :
    \/ \E a \in Actions : MayBegin /\ Begin(d, a)
    \/ Act(d) \/ Save(d) \/ Unlink(d) \/ Return(d) \/ Dispatch(d)

LEMMA Steps ==
  ASSUME TypeInv, [Next]_vars
  PROVE  Working \/ PowerFails \/ Elsewhere
<1> USE DEF drivers, gateway, auditor
<1>0. op # Idle => op.by \in Drivers
  BY DEF TypeInv, TypeOK, OpType
<1>1. ASSUME NEW d \in Drivers, NEW x \in Places, x # "dispatch", GoesOn(d, x)
      PROVE  /\ \A e \in Drivers : at'[e] = "dispatch" => at[e] = "dispatch" /\ row'[e] = row[e]
             /\ \A e \in Drivers \ {d} : row'[e] = row[e]
  BY <1>1, Moves DEF TypeInv
<1>2. ASSUME NEW d \in Drivers, NEW a \in Actions, Begin(d, a), ~MayBegin PROVE Elsewhere
  <2>1. PICK x \in AfterFailure(a) : GoesOn(d, x)
    BY <1>2 DEF Begin
  <2>2. x \in Places /\ x # "dispatch"
    BY <2>1, Failures DEF Places
  <2>3. op = Idle /\ UNCHANGED <<op, files, disk, sent, claimants, torn>>
    BY <1>2 DEF Begin
  <2> QED BY <1>1, <2>1, <2>2, <2>3 DEF Elsewhere
<1>3. ASSUME NEW d \in Drivers, GuardDies(d) PROVE Elsewhere
  <2>1. PICK x \in AfterFailure(op.action) : GoesOn(d, x)
    BY <1>3 DEF GuardDies
  <2>2. x \in Places /\ x # "dispatch"
    BY <2>1, Failures DEF Places
  <2>3. /\ op' = Idle /\ torn' = (torn \/ op.stage \in {"save", "saved"})
        /\ UNCHANGED <<files, disk, sent, claimants>>
    BY <1>3 DEF GuardDies, Crash
  <2>4. (torn' = torn) \/ (op.stage \in {"save", "saved"} /\ torn' = TRUE)
    BY <2>3 DEF TypeInv, TypeOK
  <2> QED BY <1>1, <2>1, <2>2, <2>3, <2>4 DEF Elsewhere
<1>4. ASSUME NEW d \in Drivers, DriverDies(d) PROVE Elsewhere
  <2>1. GoesOn(d, "gone") /\ "gone" \in Places /\ UNCHANGED <<files, disk, sent, claimants>>
    BY <1>4 DEF DriverDies, Places
  <2>2. /\ \A e \in Drivers : at'[e] = "dispatch" => at[e] = "dispatch" /\ row'[e] = row[e]
        /\ \A e \in Drivers \ {d} : row'[e] = row[e]
    BY <1>1, <2>1
  <2>3. CASE op.by = d
    <3>1. op' = Idle /\ torn' = (torn \/ op.stage \in {"save", "saved"})
      BY <1>4, <2>3 DEF DriverDies, Crash
    <3>2. (torn' = torn) \/ (op.stage \in {"save", "saved"} /\ torn' = TRUE)
      BY <3>1 DEF TypeInv, TypeOK
    <3> QED BY <2>1, <2>2, <3>1, <3>2 DEF Elsewhere
  <2>4. CASE op.by # d
    <3>1. op' = op /\ torn' = torn
      BY <1>4, <2>4 DEF DriverDies
    <3> QED BY <1>0, <2>1, <2>2, <2>4, <3>1 DEF Elsewhere
  <2> QED BY <2>3, <2>4
<1>10. ASSUME NEW d \in Drivers, Leaves(d) PROVE Elsewhere
  <2>1. /\ GoesOn(d, "gone") /\ "gone" \in Places /\ op.by # d
        /\ UNCHANGED <<files, disk, op, sent, claimants, torn>>
    BY <1>10 DEF Leaves, Places
  <2> QED BY <1>0, <1>1, <2>1 DEF Elsewhere
<1>5. ASSUME NEW d \in Drivers, Answered(d) \/ Lost(d) PROVE Elsewhere
  BY <1>5 DEF Answered, Lost, Elsewhere, TypeInv, TypeOK
<1>6. ASSUME Settles \/ AuditPasses \/ AuditWrites \/ AuditFails \/ UNCHANGED vars PROVE Elsewhere
  BY <1>6 DEF Settles, AuditPasses, AuditWrites, AuditFails, vars, Elsewhere
<1>7. ASSUME NEW d \in Drivers, NEW a \in Actions, Begin(d, a) PROVE Working \/ Elsewhere
  BY <1>2, <1>7 DEF Working
<1>8. ASSUME NEW d \in Drivers, Act(d) \/ Save(d) \/ Unlink(d) \/ Return(d) \/ Dispatch(d)
      PROVE  Working
  BY <1>8 DEF Working
<1>9. Over => UNCHANGED vars
  BY DEF Over
<1> QED BY <1>3, <1>4, <1>5, <1>6, <1>7, <1>8, <1>9, <1>10 DEF Next

-----------------------------------------------------------------------------
(* A torn operation leaves its marker behind, on the disk too, and with it no *)
(* other begins.                                                              *)
TearInv ==
  /\ op # Idle => /\ op.stage \in {"marked", "save", "saved"} => files.marker
                  /\ op.stage \in {"save", "saved"} => disk.marker
  /\ torn => op = Idle /\ files.marker /\ disk.marker

LEMMA TearStep == TypeInv /\ TearInv /\ [Next]_vars => TearInv'
<1> SUFFICES ASSUME TypeInv, TearInv, [Next]_vars PROVE TearInv'
  OBVIOUS
<1>0. files \in DirectoryType /\ disk \in DirectoryType /\ (op # Idle => op \in OpType)
  BY DEF TypeInv, TypeOK, DirectoryOK
<1>1. ASSUME NEW d \in Drivers, NEW a \in Actions, MayBegin, Begin(d, a) PROVE TearInv'
  BY <1>0, <1>1 DEF Begin, MayBegin, TearInv, DirectoryType
<1>2. ASSUME NEW d \in Drivers, Act(d) PROVE TearInv'
  <2>1. Effect(d) /\ disk' = files /\ op.stage = "marked" /\ op # Idle /\ UNCHANGED torn
    BY <1>2, ActEffect DEF Act, Synced, Idle
  <2> QED BY <2>1 DEF Effect, TearInv
<1>3. ASSUME NEW d \in Drivers, Save(d) PROVE TearInv'
  BY <1>0, <1>3 DEF Save, Goes, Idle, TearInv, DirectoryType, OpType
<1>4. ASSUME NEW d \in Drivers, Unlink(d) PROVE TearInv'
  BY <1>0, <1>4 DEF Unlink, Goes, Idle, Synced, TearInv, DirectoryType, OpType
<1>5. ASSUME NEW d \in Drivers, Return(d) PROVE TearInv'
  BY <1>0, <1>5 DEF Return, Idle, Synced, TearInv
<1>6. ASSUME NEW d \in Drivers, Dispatch(d) PROVE TearInv'
  BY <1>6 DEF Dispatch, TearInv
<1>7. ASSUME PowerFails PROVE TearInv'
  <2>1. PICK m, s, c, e \in {files, disk} :
          disk' = [marker |-> m.marker, journal |-> s.journal, state |-> s.state,
                   claims |-> c.claims, events |-> e.events]
    BY <1>7 DEF PowerFails
  <2>2. op' = Idle /\ torn' = (torn \/ op.stage \in {"save", "saved"}) /\ files' = disk'
    BY <1>7 DEF PowerFails, Crash
  <2>3. torn' => files.marker /\ disk.marker
    <3>1. torn \/ op.stage \in {"save", "saved"} <=> torn'
      BY <2>2 DEF TypeInv, TypeOK
    <3>2. op.stage \in {"save", "saved"} => op # Idle
      BY DEF Idle
    <3> QED BY <3>1, <3>2 DEF TearInv
  <2> QED BY <2>1, <2>2, <2>3 DEF TearInv
<1>8. ASSUME Elsewhere PROVE TearInv'
  BY <1>8 DEF Elsewhere, TearInv, Idle
<1> QED BY Steps, <1>1, <1>2, <1>3, <1>4, <1>5, <1>6, <1>7, <1>8 DEF Working

(* "Unfinished journal transaction; manual reconciliation required, no new    *)
(* dispatch" (live_qa_guard.py:76): once an operation was left in the middle  *)
(* of its work, by whatever died, nothing is ever admitted again.             *)
THEOREM NothingIsAdmittedAfterATear == Spec => NothingAfterATear
<1>1. Init => TearInv
  BY DEF Init, TearInv
<1>2. TypeInv /\ TearInv /\ [Next]_vars
        => (torn => Len(files'.state.rows) <= Len(files.state.rows))
  <2> SUFFICES ASSUME TypeInv, TearInv, [Next]_vars, torn
               PROVE  Len(files'.state.rows) <= Len(files.state.rows)
    OBVIOUS
  <2>1. /\ files.state \in StateType /\ disk.state \in StateType /\ op = Idle /\ files.marker
        /\ Extends(disk.state, files.state) /\ files \in DirectoryType
    BY DEF TypeInv, TypeOK, MemInv, DirectoryOK, StateOK, TearInv
  <2>2. Len(disk.state.rows) <= Len(files.state.rows) /\ Len(files.state.rows) <= Len(files.state.rows)
    BY <2>1 DEF Extends, StateType
  <2>3. files'.state \in {files.state, disk.state}
    <3>1. ASSUME PowerFails PROVE files'.state \in {files.state, disk.state}
      BY <3>1 DEF PowerFails
    <3>2. ASSUME NEW d \in Drivers, Dispatch(d) PROVE files'.state \in {files.state, disk.state}
      BY <3>2 DEF Dispatch
    <3>3. ~MayBegin
      BY <2>1 DEF MayBegin
    <3>4. \A d \in Drivers : ~(Act(d) \/ Save(d) \/ Unlink(d) \/ Return(d))
      BY <2>1 DEF Act, Save, Unlink, Return, Goes, Idle
    <3>5. ASSUME Elsewhere PROVE files'.state \in {files.state, disk.state}
      BY <3>5 DEF Elsewhere
    <3> QED BY Steps, <3>1, <3>2, <3>3, <3>4, <3>5 DEF Working
  <2> QED BY <2>2, <2>3
<1> QED BY <1>1, <1>2, TearStep, TypesHold, PTL DEF Spec, NothingAfterATear

-----------------------------------------------------------------------------
(* Whoever was granted a phase left its claim file on the disk; a grant that  *)
(* is still on its way found none.                                            *)
ClaimInv ==
  /\ \A d \in claimants : PhaseOf[d] \in files.claims /\ PhaseOf[d] \in disk.claims
  /\ op # Idle /\ op.action = "claim" /\ op.ok /\ op.stage # "marked" =>
       /\ PhaseOf[op.by] \in files.claims
       /\ \A e \in claimants : PhaseOf[e] # PhaseOf[op.by]
  /\ ClaimedOnce

LEMMA ClaimStep == TypeInv /\ ClaimInv /\ [Next]_vars => ClaimInv'
<1> SUFFICES ASSUME TypeInv, ClaimInv, [Next]_vars PROVE ClaimInv'
  OBVIOUS
<1> USE DEF ClaimedOnce
<1>0. /\ files \in DirectoryType /\ disk \in DirectoryType /\ (op # Idle => op \in OpType)
      /\ claimants \subseteq Drivers
  BY DEF TypeInv, TypeOK, DirectoryOK
<1>1. ASSUME NEW d \in Drivers, NEW a \in Actions, MayBegin, Begin(d, a) PROVE ClaimInv'
  <2>1. /\ op'.stage = "marked" /\ files'.claims = files.claims
        /\ UNCHANGED <<disk, claimants>>
    BY <1>0, <1>1 DEF Begin, DirectoryType
  <2> QED BY <2>1 DEF ClaimInv
<1>2. ASSUME NEW d \in Drivers, Act(d) PROVE ClaimInv'
  <2>1. Effect(d) /\ disk' = files /\ op.stage = "marked" /\ op # Idle /\ UNCHANGED claimants
    BY <1>2, ActEffect DEF Act, Synced, Idle
  <2> QED BY <2>1 DEF Effect, ClaimInv
<1>3. ASSUME NEW d \in Drivers, Save(d) PROVE ClaimInv'
  <2>1. /\ op # Idle /\ op'.action = op.action /\ op'.ok = op.ok /\ op'.by = op.by
        /\ op.stage # "marked" /\ files'.claims = files.claims /\ UNCHANGED <<disk, claimants>>
    BY <1>0, <1>3 DEF Save, Goes, Idle, DirectoryType, OpType
  <2> QED BY <2>1 DEF ClaimInv
<1>4. ASSUME NEW d \in Drivers, Unlink(d) PROVE ClaimInv'
  <2>1. /\ op # Idle /\ op'.action = op.action /\ op'.ok = op.ok /\ op'.by = op.by
        /\ op.stage # "marked" /\ files'.claims = files.claims /\ UNCHANGED claimants
        /\ disk' = files
    BY <1>0, <1>4 DEF Unlink, Goes, Idle, Synced, DirectoryType, OpType
  <2> QED BY <2>1 DEF ClaimInv
<1>5. ASSUME NEW d \in Drivers, Return(d) PROVE ClaimInv'
  <2>1. /\ op # Idle /\ op.by = d /\ op.stage = "unlinked" /\ op' = Idle /\ disk' = files
        /\ files' = files
        /\ claimants' = IF op.action = "claim" /\ op.ok THEN claimants \cup {d} ELSE claimants
    BY <1>5 DEF Return, Idle, Synced
  <2> QED BY <2>1 DEF ClaimInv
<1>6. ASSUME NEW d \in Drivers, Dispatch(d) PROVE ClaimInv'
  BY <1>6 DEF Dispatch, ClaimInv
<1>7. ASSUME PowerFails PROVE ClaimInv'
  <2>1. PICK m, s, c, e \in {files, disk} :
          disk' = [marker |-> m.marker, journal |-> s.journal, state |-> s.state,
                   claims |-> c.claims, events |-> e.events]
    BY <1>7 DEF PowerFails
  <2>2. op' = Idle /\ files' = disk' /\ UNCHANGED claimants
    BY <1>7 DEF PowerFails, Crash
  <2> QED BY <2>1, <2>2 DEF ClaimInv
<1>8. ASSUME Elsewhere PROVE ClaimInv'
  BY <1>8 DEF Elsewhere, ClaimInv
<1> QED BY Steps, <1>1, <1>2, <1>3, <1>4, <1>5, <1>6, <1>7, <1>8 DEF Working

(* "Phase already claimed; automatic reruns are forbidden"                    *)
(* (live_qa_guard.py:125): a phase is granted to one driver, whichever of     *)
(* them, the guard or the machine dies in between.                            *)
THEOREM ClaimsAreSingle == Spec => []ClaimedOnce
<1>1. Init => ClaimInv
  BY DEF Init, ClaimInv, ClaimedOnce, Idle
<1>2. ClaimInv => ClaimedOnce
  BY DEF ClaimInv
<1> QED BY <1>1, <1>2, ClaimStep, TypesHold, PTL DEF Spec

-----------------------------------------------------------------------------
(* Who may dispatch has an admission that no crash takes back.                *)
RecordInv ==
  /\ \A i \in DOMAIN sent : OnRecord(disk.state, sent[i])
  /\ \A d \in Drivers : at[d] = "dispatch" => row[d] \in DOMAIN disk.state.rows

LEMMA RecordsLast ==
  ASSUME NEW s \in StateType, NEW t \in StateType, Extends(s, t), NEW r, OnRecord(s, r)
  PROVE  OnRecord(t, r)
  BY DEF Extends, OnRecord, StateType, Same

LEMMA RowsLast ==
  ASSUME NEW s \in StateType, NEW t \in StateType, Extends(s, t), NEW i \in DOMAIN s.rows
  PROVE  i \in DOMAIN t.rows /\ Same(t.rows[i], s.rows[i])
<1>1. /\ Len(s.rows) \in Nat /\ Len(t.rows) \in Nat
      /\ DOMAIN s.rows = 1 .. Len(s.rows) /\ DOMAIN t.rows = 1 .. Len(t.rows)
  BY DEF StateType
<1> QED BY <1>1 DEF Extends

LEMMA RecordStep == TypeInv /\ RecordInv /\ [Next]_vars => RecordInv'
<1> SUFFICES ASSUME TypeInv, RecordInv, [Next]_vars PROVE RecordInv'
  OBVIOUS
<1>0. /\ files.state \in StateType /\ disk.state \in StateType /\ Extends(disk.state, files.state)
      /\ \A d \in Drivers : at[d] = "dispatch" => row[d] \in DOMAIN files.state.rows
      /\ \A i \in DOMAIN sent : OnRecord(files.state, sent[i])
  BY RecordsLast DEF TypeInv, TypeOK, MemInv, DirectoryOK, StateOK, RecordInv
<1>1. ASSUME NEW d \in Drivers, NEW a \in Actions, MayBegin, Begin(d, a) PROVE RecordInv'
  BY <1>1 DEF Begin, drivers, RecordInv
<1>2. ASSUME NEW d \in Drivers, Act(d) PROVE RecordInv'
  <2>1. Effect(d) /\ disk' = files /\ op.by = d /\ op # Idle /\ UNCHANGED <<at, sent>>
    BY <1>2, ActEffect DEF Act, Synced, Idle
  <2>2. at[d] # "dispatch"
    BY <2>1 DEF TypeInv, MemInv
  <2>3. \A e \in Drivers : at[e] = "dispatch" => row'[e] = row[e]
    BY <2>1, <2>2 DEF Effect, TypeInv, TypeOK
  <2> QED BY <1>0, <2>1, <2>3 DEF RecordInv
<1>3. ASSUME NEW d \in Drivers, Save(d) PROVE RecordInv'
  BY <1>3 DEF Save, drivers, RecordInv
<1>4. ASSUME NEW d \in Drivers, Unlink(d) PROVE RecordInv'
  BY <1>0, <1>4 DEF Unlink, drivers, Synced, RecordInv
<1>5. ASSUME NEW d \in Drivers, Return(d) PROVE RecordInv'
  <2>1. disk' = files /\ files' = files /\ UNCHANGED sent
    BY <1>5 DEF Return, Synced
  <2>2. \A e \in Drivers : at'[e] = "dispatch" => row'[e] \in DOMAIN files'.state.rows
    BY <1>5, TypeStep DEF TypeInv, TypeOK
  <2> QED BY <1>0, <2>1, <2>2 DEF RecordInv
<1>6. ASSUME NEW d \in Drivers, Dispatch(d) PROVE RecordInv'
  <2>1. /\ at[d] = "dispatch" /\ at' = [at EXCEPT ![d] = "wait"]
        /\ sent' = Append(sent, files.state.rows[row[d]]) /\ UNCHANGED <<disk, row>>
    BY <1>6 DEF Dispatch
  <2>2. Same(files.state.rows[row[d]], disk.state.rows[row[d]])
    BY <1>0, <2>1, RowsLast DEF RecordInv
  <2>3. OnRecord(disk.state, files.state.rows[row[d]])
    BY <2>1, <2>2 DEF OnRecord, RecordInv, Same
  <2>4. sent \in Seq(RowType) /\ files.state.rows[row[d]] \in RowType
    BY <1>0, <2>1 DEF TypeInv, TypeOK, StateType
  <2>5. \A i \in DOMAIN sent' : sent'[i] = files.state.rows[row[d]]
                                \/ (i \in DOMAIN sent /\ sent'[i] = sent[i])
    BY <2>1, <2>4
  <2>6. \A e \in Drivers : at'[e] = "dispatch" => at[e] = "dispatch"
    BY <2>1 DEF TypeInv, TypeOK
  <2> QED BY <2>1, <2>3, <2>5, <2>6 DEF RecordInv
<1>7. ASSUME PowerFails PROVE RecordInv'
  <2>1. disk'.state \in {files.state, disk.state} /\ UNCHANGED sent
    BY <1>7 DEF PowerFails
  <2>2. \A d \in Drivers : at'[d] # "dispatch"
    BY <1>7 DEF PowerFails
  <2> QED BY <1>0, <2>1, <2>2 DEF RecordInv
<1>8. ASSUME Elsewhere PROVE RecordInv'
  BY <1>8 DEF Elsewhere, RecordInv
<1> QED BY Steps, <1>1, <1>2, <1>3, <1>4, <1>5, <1>6, <1>7, <1>8 DEF Working

(* Every request that was dispatched is a row of state.json and of its        *)
(* durable copy, and so is the one a driver is about to dispatch: admit is    *)
(* answered only when its row is durable (live_qa_guard.py:102-113).          *)
THEOREM RecordsHold == Spec => []RecordInv
<1>1. Init => RecordInv
  BY DEF Init, RecordInv
<1> QED BY <1>1, RecordStep, TypesHold, PTL DEF Spec

(* _save and _sync_directory (live_qa_guard.py:102-113): what the network has *)
(* seen, the journal knows, and its durable copy does, however often and      *)
(* wherever guard, driver and machine die.                                    *)
THEOREM NothingIsForgotten == Spec => []DispatchedIsOnRecord
<1>1. TypeInv /\ RecordInv => DispatchedIsOnRecord
  BY RecordsLast DEF TypeInv, TypeOK, MemInv, DirectoryOK, StateOK, RecordInv, DispatchedIsOnRecord
<1> QED BY <1>1, TypesHold, RecordsHold, PTL

-----------------------------------------------------------------------------
(* Every identity is one row's, every dispatch about to happen another row's, *)
(* and none of these was sent; nor was one whose admission is on its way.     *)
Distinct(s) == \A i, j \in DOMAIN s.rows : s.rows[i].id = s.rows[j].id => i = j
Granting == op # Idle /\ op.action = "admit" /\ op.ok /\ op.stage # "marked"
UniqueInv ==
  /\ Distinct(files.state) /\ (op # Idle => Distinct(op.mem))
  /\ \A d, e \in Drivers :
       at[d] = "dispatch" /\ at[e] = "dispatch" /\ row[d] = row[e] => d = e
  /\ \A d \in Drivers, i \in DOMAIN sent :
       at[d] = "dispatch" => sent[i].id # files.state.rows[row[d]].id
  /\ Granting =>
       /\ \A e \in Drivers : at[e] = "dispatch" => row[e] # row[op.by]
       /\ \A i \in DOMAIN sent : sent[i].id # op.mem.rows[row[op.by]].id
  /\ NeverTwice

LEMMA DistinctBefore ==
  ASSUME NEW s \in StateType, NEW t \in StateType, Extends(s, t), Distinct(t)
  PROVE  Distinct(s)
  BY DEF Extends, Distinct, StateType, Same

LEMMA UniqueStep == TypeInv /\ RecordInv /\ UniqueInv /\ [Next]_vars => UniqueInv'
<1> SUFFICES ASSUME TypeInv, RecordInv, UniqueInv, [Next]_vars PROVE UniqueInv'
  OBVIOUS
<1> USE DEF NeverTwice, drivers
<1>0. /\ files.state \in StateType /\ disk.state \in StateType /\ Extends(disk.state, files.state)
      /\ \A d \in Drivers : at[d] = "dispatch" => row[d] \in DOMAIN files.state.rows
      /\ \A i \in DOMAIN sent : OnRecord(files.state, sent[i])
      /\ op # Idle => op \in OpType /\ op.mem \in StateType /\ Extends(files.state, op.mem)
  BY RecordsLast DEF TypeInv, TypeOK, MemInv, DirectoryOK, StateOK, RecordInv
<1>1. ASSUME NEW d \in Drivers, NEW a \in Actions, MayBegin, Begin(d, a) PROVE UniqueInv'
  <2>1. /\ op'.stage = "marked" /\ op'.mem = files.state /\ files'.state = files.state
        /\ UNCHANGED <<at, row, sent>>
    BY <1>1 DEF Begin, TypeInv, TypeOK, DirectoryOK, DirectoryType
  <2> QED BY <2>1 DEF UniqueInv, Granting, Distinct
<1>2. ASSUME NEW d \in Drivers, Act(d) PROVE UniqueInv'
  <2>1. /\ Effect(d) /\ op.by = d /\ op # Idle /\ op.mem = files.state /\ files'.state = files.state
        /\ UNCHANGED <<at, sent>>
    BY <1>2, ActEffect DEF Act, Idle, Effect, TypeInv, MemInv
  <2>2. at[d] # "dispatch"
    BY <2>1 DEF TypeInv, MemInv
  <2>3. \A e \in Drivers : at[e] = "dispatch" => row'[e] = row[e]
    BY <2>1, <2>2 DEF Effect, TypeInv, TypeOK
  <2> DEFINE n == Len(op.mem.rows) + 1
             new == op'.mem.rows[n].id
  <2>4. CASE op.action = "admit" /\ op'.ok
    <3>1. /\ row'[d] = n /\ Len(op'.mem.rows) = n /\ Unused(op.mem, new)
          /\ op'.mem \in StateType /\ op'.by = d /\ Extends(op.mem, op'.mem)
      BY <2>1, <2>4 DEF Effect, TypeInv, TypeOK, StateOK
    <3>2. DOMAIN op'.mem.rows = DOMAIN op.mem.rows \cup {n}
      BY <1>0, <2>1, <3>1 DEF StateType
    <3>3. Distinct(op'.mem)
      <4>1. /\ \A i \in DOMAIN op.mem.rows : op'.mem.rows[i].id = op.mem.rows[i].id
            /\ \A i \in DOMAIN op.mem.rows : op.mem.rows[i].id # new
        BY <3>1 DEF Unused, Extends, Same
      <4>2. Distinct(op.mem)
        BY <2>1 DEF UniqueInv
      <4> HIDE DEF n
      <4> QED BY <3>2, <4>1, <4>2 DEF Distinct
    <3>4. \A e \in Drivers : at[e] = "dispatch" => row'[e] # n
      BY <1>0, <2>1, <2>3 DEF StateType
    <3>5. \A i \in DOMAIN sent : sent[i].id # new
      BY <1>0, <2>1, <3>1 DEF OnRecord, Unused, Same
    <3> QED BY SMTT(20), <2>1, <2>3, <3>1, <3>3, <3>4, <3>5 DEF UniqueInv
  <2>5. CASE ~(op.action = "admit" /\ op'.ok)
    <3>1. /\ row' = row /\ Len(op'.mem.rows) = Len(op.mem.rows) /\ Extends(op.mem, op'.mem)
          /\ op'.mem \in StateType /\ op'.action = op.action
      BY <2>1, <2>5 DEF Effect, StateOK
    <3>2. Distinct(op'.mem)
      <4>1. DOMAIN op'.mem.rows = DOMAIN op.mem.rows
        BY <1>0, <2>1, <3>1 DEF StateType
      <4> QED BY <2>1, <3>1, <4>1 DEF UniqueInv, Distinct, Extends, Same
    <3> QED BY <2>1, <2>5, <3>1, <3>2 DEF UniqueInv, Granting
  <2> QED BY <2>4, <2>5
<1>3. ASSUME NEW d \in Drivers, Save(d) PROVE UniqueInv'
  <2>1. /\ op # Idle /\ op.stage # "marked" /\ op'.mem = op.mem /\ op'.by = op.by
        /\ op'.action = op.action /\ op'.ok = op.ok /\ files'.state = op.mem
        /\ UNCHANGED <<at, row, sent>>
    BY <1>0, <1>3 DEF Save, Goes, Idle, OpType, TypeInv, TypeOK, DirectoryOK, DirectoryType
  <2>2. \A e \in Drivers : at[e] = "dispatch" =>
          op.mem.rows[row[e]].id = files.state.rows[row[e]].id
    BY <1>0, <2>1, RowsLast DEF Same
  <2> QED BY <2>1, <2>2 DEF UniqueInv, Granting
<1>4. ASSUME NEW d \in Drivers, Unlink(d) PROVE UniqueInv'
  <2>1. /\ op # Idle /\ op.stage # "marked" /\ op'.mem = op.mem /\ op'.by = op.by
        /\ op'.action = op.action /\ op'.ok = op.ok /\ files'.state = files.state
        /\ UNCHANGED <<at, row, sent>>
    BY <1>0, <1>4 DEF Unlink, Goes, Idle, OpType, TypeInv, TypeOK, DirectoryOK, DirectoryType
  <2> QED BY <2>1 DEF UniqueInv, Granting
<1>5. ASSUME NEW d \in Drivers, Return(d) PROVE UniqueInv'
  <2>1. /\ op.by = d /\ op.stage = "unlinked" /\ op # Idle /\ op' = Idle /\ op.mem = files.state
        /\ UNCHANGED <<files, sent>>
    BY <1>5 DEF Return, Idle, TypeInv, MemInv
  <2>2. PICK x \in IF op.ok THEN AfterSuccess(d) ELSE AfterFailure(op.action) : GoesOn(d, x)
    BY <1>5 DEF Return
  <2>3. x \in Places /\ (x = "dispatch" => op.action = "admit" /\ op.ok)
    BY <2>2, Failures, Successes DEF Places
  <2>4. /\ at'[d] = x /\ (x = "dispatch" => row' = row)
        /\ \A e \in Drivers \ {d} : at'[e] = at[e] /\ row'[e] = row[e]
    BY <2>2, <2>3, Moves DEF TypeInv
  <2>5. CASE x = "dispatch"
    <3>1. Granting
      BY <2>1, <2>3, <2>5 DEF Granting
    <3> QED BY <2>1, <2>4, <2>5, <3>1 DEF UniqueInv, Granting
  <2>6. CASE x # "dispatch"
    BY <2>1, <2>4, <2>6 DEF UniqueInv, Granting
  <2> QED BY <2>5, <2>6
<1>6. ASSUME NEW d \in Drivers, Dispatch(d) PROVE UniqueInv'
  <2> DEFINE r == files.state.rows[row[d]]
  <2>1. /\ at[d] = "dispatch" /\ at' = [at EXCEPT ![d] = "wait"]
        /\ sent' = Append(sent, r) /\ UNCHANGED <<files, op, row>>
    BY <1>6 DEF Dispatch
  <2>2. sent \in Seq(RowType) /\ r \in RowType
    BY <1>0, <2>1 DEF TypeInv, TypeOK, StateType
  <2>3. /\ \A i \in DOMAIN sent' : (sent'[i] = r /\ i = Len(sent) + 1)
                                 \/ (i \in DOMAIN sent /\ sent'[i] = sent[i])
        /\ \A i \in DOMAIN sent : sent[i].id # r.id
    BY <2>1, <2>2 DEF UniqueInv
  <2>4. \A e \in Drivers : at'[e] = "dispatch" => at[e] = "dispatch" /\ e # d
    BY <2>1 DEF TypeInv, TypeOK
  <2>5. \A e \in Drivers : at'[e] = "dispatch" => files.state.rows[row[e]].id # r.id
    BY <1>0, <2>1, <2>4 DEF UniqueInv, Distinct
  <2>6. Granting => r.id # op.mem.rows[row[op.by]].id
    <3> SUFFICES ASSUME Granting PROVE r.id # op.mem.rows[row[op.by]].id
      OBVIOUS
    <3>1. row[d] \in DOMAIN op.mem.rows /\ op.mem.rows[row[d]].id = r.id
      BY <1>0, <2>1, RowsLast DEF Granting, Same
    <3>2. row[op.by] \in DOMAIN op.mem.rows
      BY <1>0 DEF Granting, TypeInv, MemInv, StateType
    <3> QED BY <2>1, <3>1, <3>2 DEF UniqueInv, Distinct, Granting
  <2>7. NeverTwice'
    BY <2>3 DEF UniqueInv
  <2> HIDE DEF r
  <2>8. /\ \A e \in Drivers, i \in DOMAIN sent' :
             at'[e] = "dispatch" => sent'[i].id # files.state.rows[row[e]].id
        /\ Granting => \A i \in DOMAIN sent' : sent'[i].id # op.mem.rows[row[op.by]].id
    BY <2>3, <2>4, <2>5, <2>6 DEF UniqueInv
  <2> QED BY <2>1, <2>4, <2>7, <2>8 DEF UniqueInv, Granting
<1>7. ASSUME PowerFails PROVE UniqueInv'
  <2>1. files'.state \in {files.state, disk.state} /\ op' = Idle /\ UNCHANGED sent
    BY <1>7 DEF PowerFails, Crash
  <2>2. \A d \in Drivers : at'[d] # "dispatch"
    BY <1>7 DEF PowerFails
  <2>3. Distinct(files'.state)
    BY <1>0, <2>1, DistinctBefore DEF UniqueInv
  <2> QED BY <2>1, <2>2, <2>3 DEF UniqueInv, Granting
<1>8. ASSUME Elsewhere PROVE UniqueInv'
  BY <1>8 DEF Elsewhere, UniqueInv, Granting
<1> QED BY Steps, <1>1, <1>2, <1>3, <1>4, <1>5, <1>6, <1>7, <1>8 DEF Working

(* "Duplicate request identity; retries forbidden" (live_qa_guard.py:290): no *)
(* identity is dispatched twice, by whichever driver, before or after a crash *)
(* or a repair, and whatever identities the callers choose.                   *)
THEOREM NoIdentityTwice == Spec => []NeverTwice
<1>1. Init => UniqueInv
  <2> SUFFICES ASSUME Init PROVE UniqueInv
    OBVIOUS
  <2>1. Distinct(files.state) /\ op = Idle /\ sent = <<>> /\ \A d \in Drivers : at[d] # "dispatch"
    BY DEF Init, Distinct, Fresh
  <2> QED BY <2>1 DEF UniqueInv, Granting, NeverTwice
<1>2. UniqueInv => NeverTwice
  BY DEF UniqueInv
<1> QED BY <1>1, <1>2, UniqueStep, TypesHold, RecordsHold, PTL DEF Spec

-----------------------------------------------------------------------------
(* A state in which a complete phase has no request without its outcome; no   *)
(* handler leaves another, nor was one ever durable.                          *)
Completed(s) ==
  \A i \in DOMAIN s.rows :
    s.phase[s.rows[i].phase] = "complete" => s.rows[i].seen \notin {"no", "stream"}
CompleteInv ==
  Completed(files.state) /\ Completed(disk.state) /\ (op # Idle => Completed(op.mem))

(* An outcome that is recorded completes nothing, and opens no gap: only a    *)
(* request without one can get one that lacks its usage.                      *)
LEMMA RecordedCompletes ==
  ASSUME NEW s, StateOK(s), Completed(s), NEW i \in DOMAIN s.rows, NEW x \in Seen,
         x \in {"no", "stream"} => s.rows[i].seen = "no"
  PROVE  Completed([s EXCEPT !.rows[i].seen = x])
<1> DEFINE t == [s EXCEPT !.rows[i].seen = x]
           r == [s.rows EXCEPT ![i].seen = x]
<1>1. s.rows \in Seq(RowType) /\ s \in StateType /\ s.rows[i] \in RowType
  BY DEF StateOK, StateType
<1>2. t.rows = r /\ t.phase = s.phase /\ DOMAIN r = DOMAIN s.rows
  BY <1>1 DEF StateType
<1>3. /\ \A j \in DOMAIN s.rows : r[j].phase = s.rows[j].phase
      /\ \A j \in DOMAIN s.rows \ {i} : r[j].seen = s.rows[j].seen
      /\ r[i].seen = x
  BY <1>1 DEF RowType
<1> HIDE DEF r, t
<1>4. Completed(t)
  BY <1>2, <1>3 DEF Completed
<1> QED BY <1>4 DEF t

LEMMA ActCompletes ==
  ASSUME TypeInv, CompleteInv, NEW d \in Drivers, Act(d)
  PROVE  Completed(op'.mem)
<1> DEFINE p == PhaseOf[d]
<1>1. op \in OpType /\ StateOK(op.mem) /\ op.mem \in StateType /\ op # Idle /\ op.stage = "marked"
      /\ op.by = d /\ op.mem = files.state /\ Completed(op.mem) /\ p \in Phases
  BY CampaignAssumption DEF TypeInv, TypeOK, MemInv, StateOK, Act, Idle, CompleteInv
<1>2. ASSUME NEW s, Accepts(s) PROVE op'.mem = s
  BY <1>1, <1>2 DEF Accepts, OpType
<1>12. \A i \in DOMAIN op.mem.rows : op.mem.rows[i].phase \in Phases /\ op.mem.rows[i].kind \in Kinds
  <2>1. op.mem.rows \in Seq(RowType)
    BY <1>1 DEF StateType
  <2>2. \A i \in DOMAIN op.mem.rows : op.mem.rows[i] \in RowType
    BY <2>1
  <2> QED BY <2>2 DEF RowType
<1>3. CASE op.action = "claim" /\ Claim(d)
  <2>1. op'.mem = [op.mem EXCEPT !.phase[p] = "open"]
    BY <1>2, <1>3 DEF Claim
  <2>2. op'.mem.rows = op.mem.rows /\ \A q \in Phases : op'.mem.phase[q] \in {op.mem.phase[q], "open"}
    BY <1>1, <2>1 DEF StateType
  <2> QED BY <1>1, <1>12, <2>2 DEF Completed
<1>4. CASE op.action = "resume" /\ Resume(d)
  <2>1. op'.mem = [op.mem EXCEPT !.halt = FALSE, !.ready[p] = FALSE, !.resumed = TRUE]
    BY <1>2, <1>4 DEF Resume
  <2>2. op'.mem.rows = op.mem.rows /\ op'.mem.phase = op.mem.phase
    BY <1>1, <2>1 DEF StateType
  <2> QED BY <1>1, <2>2 DEF Completed
<1>5. CASE op.action = "ready" /\ Ready(d)
  <2>1. op'.mem = [op.mem EXCEPT !.ready[p] = TRUE]
    BY <1>2, <1>5 DEF Ready
  <2>2. op'.mem.rows = op.mem.rows /\ op'.mem.phase = op.mem.phase
    BY <1>1, <2>1 DEF StateType
  <2> QED BY <1>1, <2>2 DEF Completed
<1>6. CASE op.action = "fault" /\ Fault
  <2>1. op'.mem = [op.mem EXCEPT !.halt = TRUE]
    BY <1>2, <1>6 DEF Fault
  <2>2. op'.mem.rows = op.mem.rows /\ op'.mem.phase = op.mem.phase
    BY <1>1, <2>1 DEF StateType
  <2> QED BY <1>1, <2>2 DEF Completed
<1>7. CASE op.action = "finish" /\ Finish(d)
  <2>1. PICK fails \in BOOLEAN :
          op'.mem = [op.mem EXCEPT !.phase[p] = "complete", !.failed[p] = fails]
    BY <1>2, <1>7 DEF Finish
  <2>2. /\ op'.mem.rows = op.mem.rows
        /\ \A q \in Phases \ {p} : op'.mem.phase[q] = op.mem.phase[q]
    BY <1>1, <2>1 DEF StateType
  <2>3. \A i \in DOMAIN op.mem.rows :
          op.mem.rows[i].phase = p => op.mem.rows[i].seen \notin {"no", "stream"}
    BY <1>7, <1>12 DEF Finish, MayFinish, Rows
  <2> QED BY <1>1, <1>12, <2>2, <2>3 DEF Completed
<1>8. CASE op.action = "admit" /\ Admit(d)
  <2>1. PICK k \in Kinds : \E cap \in CapsOf(k), id \in IdentitiesFor(op.mem, p) :
          MayAdmit(op.mem, p, k, cap) /\ Accepts(WithRow(op.mem, p, k, cap, id))
    BY <1>8 DEF Admit, WithRow
  <2>2. PICK cap \in CapsOf(k), id \in IdentitiesFor(op.mem, p) :
          MayAdmit(op.mem, p, k, cap) /\ Accepts(WithRow(op.mem, p, k, cap, id))
    BY <2>1
  <2> DEFINE r == [phase |-> p, kind |-> k, cap |-> cap, id |-> id, seen |-> "no"]
             t == WithRow(op.mem, p, k, cap, id)
  <2>3. t.rows = Append(op.mem.rows, r) /\ t.phase = op.mem.phase
    BY <1>1 DEF WithRow, StateType
  <2>4. /\ DOMAIN t.rows = DOMAIN op.mem.rows \cup {Len(op.mem.rows) + 1}
        /\ \A i \in DOMAIN op.mem.rows : t.rows[i] = op.mem.rows[i]
        /\ t.rows[Len(op.mem.rows) + 1].phase = p
    BY <1>1, <2>3 DEF StateType
  <2>5. op.mem.phase[p] # "complete"
    BY <2>2 DEF MayAdmit, Open
  <2>6. op'.mem = t
    BY <1>2, <2>2
  <2> HIDE DEF t
  <2> QED BY ZenonT(30), <1>1, <2>3, <2>4, <2>5, <2>6 DEF Completed
<1>9. CASE op.action = "observe" /\ Observe(d)
  <2>1. op'.mem = [op.mem EXCEPT !.rows[row[d]].seen = answer[d]]
    BY <1>2, <1>9 DEF Observe
  <2>2. row[d] \in DOMAIN op.mem.rows /\ answer[d] \in Seen /\ op.mem.rows[row[d]].seen = "no"
    BY <1>1, <1>9 DEF Observe, TypeInv, TypeOK, MemInv, Seen, Answers
  <2> QED BY <1>1, <2>1, <2>2, RecordedCompletes
<1>10. CASE op.action = "stream" /\ Terminal(d)
  <2>1. op'.mem = [op.mem EXCEPT !.rows[row[d]].seen = "ended"]
    BY <1>2, <1>10 DEF Terminal
  <2>2. row[d] \in DOMAIN op.mem.rows /\ "ended" \in Seen
    BY <1>1, <1>10 DEF TypeInv, TypeOK, MemInv, Seen
  <2> QED BY <1>1, <2>1, <2>2, RecordedCompletes
<1>11. CASE Refuse(d)
  <2> DEFINE kept == IF op.action = "observe" /\ op.mem.rows[row[d]].seen = "no"
                     THEN [op.mem EXCEPT !.rows[row[d]].seen = answer[d]] ELSE op.mem
             s == IF op.action \in {"observe", "stream", "finish"}
                  THEN [kept EXCEPT !.halt = TRUE] ELSE op.mem
  <2>1. kept \in StateType /\ Completed(kept)
    <3>1. CASE op.action = "observe" /\ op.mem.rows[row[d]].seen = "no"
      <4>1. row[d] \in DOMAIN op.mem.rows /\ answer[d] \in Seen
        BY <1>1, <1>11, <3>1 DEF Refuse, TypeInv, TypeOK, MemInv, Seen, Answers
      <4> QED BY <1>1, <3>1, <4>1, Recorded, RecordedCompletes DEF StateOK
    <3>2. CASE ~(op.action = "observe" /\ op.mem.rows[row[d]].seen = "no")
      BY <1>1, <3>2
    <3> QED BY <3>1, <3>2
  <2>2. op'.mem = s
    BY <1>1, <1>11 DEF Refuse, OpType
  <2> HIDE DEF kept
  <2>3. [kept EXCEPT !.halt = TRUE].rows = kept.rows /\ [kept EXCEPT !.halt = TRUE].phase = kept.phase
    BY <2>1 DEF StateType
  <2>4. Completed([kept EXCEPT !.halt = TRUE])
    BY <2>1, <2>3 DEF Completed
  <2> QED BY <1>1, <2>2, <2>4
<1> QED BY <1>3, <1>4, <1>5, <1>6, <1>7, <1>8, <1>9, <1>10, <1>11 DEF Act

LEMMA CompleteStep == TypeInv /\ CompleteInv /\ [Next]_vars => CompleteInv'
<1> SUFFICES ASSUME TypeInv, CompleteInv, [Next]_vars PROVE CompleteInv'
  OBVIOUS
<1>0. files \in DirectoryType /\ (op # Idle => op \in OpType)
  BY DEF TypeInv, TypeOK, DirectoryOK
<1>1. ASSUME NEW d \in Drivers, NEW a \in Actions, MayBegin, Begin(d, a) PROVE CompleteInv'
  BY <1>0, <1>1 DEF Begin, CompleteInv, DirectoryType
<1>2. ASSUME NEW d \in Drivers, Act(d) PROVE CompleteInv'
  <2>1. Effect(d) /\ disk' = files /\ Completed(op'.mem)
    BY <1>2, ActEffect, ActCompletes DEF Act, Synced
  <2> QED BY <2>1 DEF Effect, CompleteInv
<1>3. ASSUME NEW d \in Drivers, Save(d) PROVE CompleteInv'
  BY <1>0, <1>3 DEF Save, Goes, Idle, OpType, DirectoryType, CompleteInv
<1>4. ASSUME NEW d \in Drivers, Unlink(d) PROVE CompleteInv'
  BY <1>0, <1>4 DEF Unlink, Goes, Idle, Synced, OpType, DirectoryType, CompleteInv
<1>5. ASSUME NEW d \in Drivers, Return(d) PROVE CompleteInv'
  BY <1>5 DEF Return, Synced, CompleteInv
<1>6. ASSUME NEW d \in Drivers, Dispatch(d) PROVE CompleteInv'
  BY <1>6 DEF Dispatch, CompleteInv
<1>7. ASSUME PowerFails PROVE CompleteInv'
  <2>1. disk'.state \in {files.state, disk.state} /\ files' = disk' /\ op' = Idle
    BY <1>7 DEF PowerFails, Crash
  <2> QED BY <2>1 DEF CompleteInv
<1>8. ASSUME Elsewhere PROVE CompleteInv'
  BY <1>8 DEF Elsewhere, CompleteInv
<1> QED BY Steps, <1>1, <1>2, <1>3, <1>4, <1>5, <1>6, <1>7, <1>8 DEF Working

(* "Dispatch has no observed result", "stream lacks terminal usage"           *)
(* (live_qa_guard.py:375-377): a phase that is complete stays without an open *)
(* request, although the driver that was halted may still be at work beside   *)
(* the one that repaired the run.                                             *)
THEOREM CompleteMeansObserved == Spec => []CompleteIsObserved
<1>1. Init => CompleteInv
  BY DEF Init, CompleteInv, Completed, Fresh
<1>2. CompleteInv => CompleteIsObserved
  BY DEF CompleteInv, Completed, CompleteIsObserved
<1> QED BY <1>1, <1>2, CompleteStep, TypesHold, PTL DEF Spec

-----------------------------------------------------------------------------
(* A state whose requests are within the allowances.                          *)
Counted(s) ==
  Cardinality(AllRows(s, Posts)) <= PostLimit /\ Cardinality(AllRows(s, {"auto"})) <= 1
CountInv ==
  Counted(files.state) /\ Counted(disk.state) /\ (op # Idle => Counted(op.mem))

LEMMA RowsAreFinite ==
  ASSUME NEW s \in StateType, NEW K
  PROVE  IsFiniteSet(AllRows(s, K)) /\ Cardinality(AllRows(s, K)) \in Nat
<1>1. DOMAIN s.rows = 1 .. Len(s.rows) /\ Len(s.rows) \in Nat
  BY DEF StateType
<1>2. IsFiniteSet(DOMAIN s.rows)
  BY <1>1, FS_Interval
<1> QED BY <1>2, FS_Subset, FS_CardinalityType DEF AllRows

(* The same rows, but for their outcomes, are as many of each kind. *)
LEMMA SameCount ==
  ASSUME NEW s \in StateType, NEW t \in StateType, Extends(s, t), Len(t.rows) = Len(s.rows), Counted(s)
  PROVE  Counted(t)
<1>1. DOMAIN t.rows = DOMAIN s.rows
  BY DEF StateType
<1>2. AllRows(t, Posts) = AllRows(s, Posts) /\ AllRows(t, {"auto"}) = AllRows(s, {"auto"})
  BY <1>1 DEF AllRows, Extends, Same
<1> QED BY <1>2 DEF Counted

(* One more row. *)
LEMMA AdmittedCount ==
  ASSUME NEW s, StateOK(s), Counted(s), NEW p \in Phases, NEW k \in Kinds,
         NEW cap \in CapsOf(k), NEW id \in IdentitiesFor(s, p), MayAdmit(s, p, k, cap)
  PROVE  Counted(WithRow(s, p, k, cap, id))
<1> DEFINE t == WithRow(s, p, k, cap, id)
           r == [phase |-> p, kind |-> k, cap |-> cap, id |-> id, seen |-> "no"]
           n == Len(s.rows) + 1
<1>1. s \in StateType /\ s.rows \in Seq(RowType)
  BY DEF StateOK, StateType
<1>2. t.rows = Append(s.rows, r)
  BY <1>1 DEF WithRow, StateType
<1>3. /\ DOMAIN t.rows = DOMAIN s.rows \cup {n} /\ n \notin DOMAIN s.rows
      /\ \A i \in DOMAIN s.rows : t.rows[i] = s.rows[i]
      /\ t.rows[n].kind = k
  BY <1>1, <1>2
<1> HIDE DEF t, n
<1>4. ASSUME NEW K
      PROVE  AllRows(t, K) = IF k \in K THEN AllRows(s, K) \cup {n} ELSE AllRows(s, K)
  BY <1>3 DEF AllRows
<1>5. ASSUME NEW K
      PROVE  /\ Cardinality(AllRows(s, K)) \in Nat
             /\ Cardinality(AllRows(t, K)) = IF k \in K THEN Cardinality(AllRows(s, K)) + 1
                                            ELSE Cardinality(AllRows(s, K))
  <2>1. n \notin AllRows(s, K)
    BY <1>3 DEF AllRows
  <2>2. IsFiniteSet(AllRows(s, K)) /\ Cardinality(AllRows(s, K)) \in Nat
    BY <1>1, RowsAreFinite
  <2>3. Cardinality(AllRows(s, K) \cup {n}) = Cardinality(AllRows(s, K)) + 1
    BY <2>1, <2>2, FS_AddElement
  <2> QED BY <1>4, <2>2, <2>3
<1>6. k \in Posts => Cardinality(AllRows(s, Posts)) < PostLimit
  BY DEF MayAdmit, PostsLeft
<1>7. k = "auto" => Cardinality(AllRows(s, {"auto"})) = 0
  BY FS_EmptySet DEF MayAdmit
<1>8. Cardinality(AllRows(t, Posts)) <= PostLimit
  BY <1>5, <1>6, CampaignAssumption DEF Counted
<1>9. Cardinality(AllRows(t, {"auto"})) <= 1
  BY <1>5, <1>7 DEF Counted
<1> QED BY <1>8, <1>9 DEF Counted, t

LEMMA ActCounts ==
  ASSUME TypeInv, CountInv, NEW d \in Drivers, Act(d)
  PROVE  Counted(op'.mem)
<1>1. op \in OpType /\ StateOK(op.mem) /\ op.mem \in StateType /\ op # Idle /\ op.stage = "marked"
      /\ op.by = d /\ op.ok /\ Counted(op.mem) /\ PhaseOf[d] \in Phases
  BY CampaignAssumption DEF TypeInv, TypeOK, MemInv, StateOK, Act, Idle, CountInv
<1>2. Effect(d)
  BY ActEffect
<1>3. CASE op.action = "admit" /\ op'.ok
  <2>1. Admit(d)
    BY <1>1, <1>3 DEF Act, Refuse, OpType
  <2>2. PICK k \in Kinds : \E cap \in CapsOf(k), id \in IdentitiesFor(op.mem, PhaseOf[d]) :
          /\ MayAdmit(op.mem, PhaseOf[d], k, cap)
          /\ Accepts(WithRow(op.mem, PhaseOf[d], k, cap, id))
    BY <2>1 DEF Admit, WithRow
  <2>3. PICK cap \in CapsOf(k), id \in IdentitiesFor(op.mem, PhaseOf[d]) :
          /\ MayAdmit(op.mem, PhaseOf[d], k, cap)
          /\ Accepts(WithRow(op.mem, PhaseOf[d], k, cap, id))
    BY <2>2
  <2>4. op'.mem = WithRow(op.mem, PhaseOf[d], k, cap, id)
    BY <1>1, <2>3 DEF Accepts, OpType
  <2> QED BY <1>1, <2>3, <2>4, AdmittedCount
<1>4. CASE ~(op.action = "admit" /\ op'.ok)
  BY <1>1, <1>2, <1>4, SameCount DEF Effect, StateOK
<1> QED BY <1>3, <1>4

LEMMA CountStep == TypeInv /\ CountInv /\ [Next]_vars => CountInv'
<1> SUFFICES ASSUME TypeInv, CountInv, [Next]_vars PROVE CountInv'
  OBVIOUS
<1>0. files \in DirectoryType /\ (op # Idle => op \in OpType)
  BY DEF TypeInv, TypeOK, DirectoryOK
<1>1. ASSUME NEW d \in Drivers, NEW a \in Actions, MayBegin, Begin(d, a) PROVE CountInv'
  BY <1>0, <1>1 DEF Begin, CountInv, DirectoryType
<1>2. ASSUME NEW d \in Drivers, Act(d) PROVE CountInv'
  <2>1. Effect(d) /\ disk' = files /\ Counted(op'.mem)
    BY <1>2, ActEffect, ActCounts DEF Act, Synced
  <2> QED BY <2>1 DEF Effect, CountInv
<1>3. ASSUME NEW d \in Drivers, Save(d) PROVE CountInv'
  BY <1>0, <1>3 DEF Save, Goes, Idle, OpType, DirectoryType, CountInv
<1>4. ASSUME NEW d \in Drivers, Unlink(d) PROVE CountInv'
  BY <1>0, <1>4 DEF Unlink, Goes, Idle, Synced, OpType, DirectoryType, CountInv
<1>5. ASSUME NEW d \in Drivers, Return(d) PROVE CountInv'
  BY <1>5 DEF Return, Synced, CountInv
<1>6. ASSUME NEW d \in Drivers, Dispatch(d) PROVE CountInv'
  BY <1>6 DEF Dispatch, CountInv
<1>7. ASSUME PowerFails PROVE CountInv'
  <2>1. disk'.state \in {files.state, disk.state} /\ files' = disk' /\ op' = Idle
    BY <1>7 DEF PowerFails, Crash
  <2> QED BY <2>1 DEF CountInv
<1>8. ASSUME Elsewhere PROVE CountInv'
  BY <1>8 DEF Elsewhere, CountInv
<1> QED BY Steps, <1>1, <1>2, <1>3, <1>4, <1>5, <1>6, <1>7, <1>8 DEF Working

(* What was dispatched maps one to one to rows of the same kind. *)
LEMMA DispatchedAtMost ==
  ASSUME TypeInv, DispatchedIsOnRecord, NeverTwice, NEW K
  PROVE  Dispatched(K) \in Nat /\ Dispatched(K) <= Cardinality(AllRows(files.state, K))
<1> DEFINE S == {i \in DOMAIN sent : sent[i].kind \in K}
           T == AllRows(files.state, K)
           rowOf == [i \in S |-> CHOOSE j \in T : files.state.rows[j].id = sent[i].id]
<1>1. ASSUME NEW i \in S PROVE rowOf[i] \in T /\ files.state.rows[rowOf[i]].id = sent[i].id
  <2>1. \E j \in T : files.state.rows[j].id = sent[i].id
    BY DEF DispatchedIsOnRecord, OnRecord, AllRows, Same
  <2> QED BY <2>1
<1>2. rowOf \in Injection(S, T)
  <2>1. rowOf \in [S -> T]
    BY <1>1
  <2>2. \A i, j \in S : rowOf[i] = rowOf[j] => i = j
    <3> HIDE DEF rowOf
    <3> QED BY <1>1 DEF NeverTwice
  <2> HIDE DEF rowOf, S, T
  <2> QED BY <2>1, <2>2 DEF Injection, IsInjective
<1>3. IsFiniteSet(T)
  BY RowsAreFinite DEF TypeInv, TypeOK, DirectoryOK, StateOK
<1>4. IsFiniteSet(S) /\ Cardinality(S) <= Cardinality(T)
  <2> HIDE DEF rowOf, S, T
  <2> QED BY <1>2, <1>3, FS_Injection
<1> QED BY <1>4, FS_CardinalityType DEF Dispatched

(* _admit's allowances (live_qa_guard.py:246, 272): over both phases, repairs *)
(* and crashes no more POSTs were dispatched than planned, and one "auto".    *)
THEOREM RequestsStayWithinThePlan == Spec => []WithinRequests
<1>1. Init => CountInv
  <2> SUFFICES ASSUME Init PROVE CountInv
    OBVIOUS
  <2>1. AllRows(Fresh, Posts) = {} /\ AllRows(Fresh, {"auto"}) = {}
    BY DEF AllRows, Fresh
  <2>2. Counted(Fresh)
    BY <2>1, FS_EmptySet, CampaignAssumption DEF Counted
  <2> QED BY <2>2 DEF Init, CountInv
<1>2. TypeInv /\ CountInv /\ DispatchedIsOnRecord /\ NeverTwice => WithinRequests
  <2> SUFFICES ASSUME TypeInv, CountInv, DispatchedIsOnRecord, NeverTwice PROVE WithinRequests
    OBVIOUS
  <2>1. files.state \in StateType
    BY DEF TypeInv, TypeOK, DirectoryOK, StateOK
  <2>2. /\ Cardinality(AllRows(files.state, Posts)) \in Nat
        /\ Cardinality(AllRows(files.state, {"auto"})) \in Nat
    BY <2>1, RowsAreFinite
  <2>3. Dispatched(Posts) <= PostLimit
    BY <2>2, DispatchedAtMost, CampaignAssumption DEF CountInv, Counted
  <2>4. Dispatched({"auto"}) <= 1
    BY <2>2, DispatchedAtMost DEF CountInv, Counted
  <2> QED BY <2>3, <2>4 DEF WithinRequests
<1> QED BY <1>1, <1>2, CountStep, TypesHold, NothingIsForgotten, NoIdentityTwice, PTL DEF Spec

-----------------------------------------------------------------------------
(* The gateway never takes back what it settled or refused. *)
Settled(s) ==
  \A i \in Rows(s, "typescript", Priced) : s.rows[i].id \in receipts \cup refusals

LEMMA GatewayKeeps ==
  ASSUME [Next]_vars
  PROVE  receipts \subseteq receipts' /\ refusals \subseteq refusals'
<1> USE DEF gateway, auditor, drivers
<1>1. ASSUME NEW d \in Drivers, NEW a \in Actions, Begin(d, a)
      PROVE  UNCHANGED <<receipts, refusals>>
  BY <1>1 DEF Begin
<1>2. ASSUME NEW d \in Drivers,
             Act(d) \/ Save(d) \/ Unlink(d) \/ Return(d) \/ GuardDies(d) \/ DriverDies(d)
               \/ Leaves(d) \/ Dispatch(d) \/ Lost(d)
      PROVE  UNCHANGED <<receipts, refusals>>
  BY <1>2 DEF Act, Save, Unlink, Return, GuardDies, DriverDies, Leaves, Dispatch, Lost
<1>3. ASSUME NEW d \in Drivers, Answered(d)
      PROVE  receipts \subseteq receipts' /\ refusals \subseteq refusals'
  BY <1>3 DEF Answered
<1>4. ASSUME PowerFails \/ AuditPasses \/ AuditWrites \/ AuditFails \/ UNCHANGED vars
      PROVE  UNCHANGED <<receipts, refusals>>
  BY <1>4 DEF PowerFails, AuditPasses, AuditWrites, AuditFails, vars
<1>5. Settles => receipts \subseteq receipts' /\ refusals \subseteq refusals'
  BY DEF Settles
<1> QED BY <1>1, <1>2, <1>3, <1>4, <1>5 DEF Next, Over

(* A row is on record as refused only if the gateway refused its request. *)
Refusals(s) == \A i \in DOMAIN s.rows : s.rows[i].seen = "refused" => s.rows[i].id \in refusals
RefusedInv ==
  /\ Refusals(files.state) /\ Refusals(disk.state) /\ (op # Idle => Refusals(op.mem))
  /\ \A d \in Drivers : at[d] = "observe" /\ answer[d] = "refused" =>
       files.state.rows[row[d]].id \in refusals

LEMMA RecordedRefusal ==
  ASSUME NEW s, StateOK(s), Refusals(s), NEW i \in DOMAIN s.rows, NEW x \in Seen,
         x = "refused" => s.rows[i].id \in refusals
  PROVE  Refusals([s EXCEPT !.rows[i].seen = x])
<1> DEFINE t == [s EXCEPT !.rows[i].seen = x]
           r == [s.rows EXCEPT ![i].seen = x]
<1>1. s.rows \in Seq(RowType) /\ s \in StateType /\ s.rows[i] \in RowType
  BY DEF StateOK, StateType
<1>2. t.rows = r /\ DOMAIN r = DOMAIN s.rows
  BY <1>1 DEF StateType
<1>3. /\ \A j \in DOMAIN s.rows : r[j].id = s.rows[j].id
      /\ \A j \in DOMAIN s.rows \ {i} : r[j].seen = s.rows[j].seen
      /\ r[i].seen = x
  BY <1>1 DEF RowType
<1> HIDE DEF r, t
<1>4. Refusals(t)
  BY <1>2, <1>3 DEF Refusals
<1> QED BY <1>4 DEF t

LEMMA ActRefusals ==
  ASSUME TypeInv, RefusedInv, NEW d \in Drivers, Act(d)
  PROVE  Refusals(op'.mem) /\ UNCHANGED <<receipts, refusals>>
<1> DEFINE p == PhaseOf[d]
<1>1. op \in OpType /\ StateOK(op.mem) /\ op.mem \in StateType /\ op # Idle /\ op.stage = "marked"
      /\ op.by = d /\ op.mem = files.state /\ Refusals(op.mem) /\ UNCHANGED <<receipts, refusals>>
  BY DEF TypeInv, TypeOK, MemInv, StateOK, Act, Idle, RefusedInv, gateway
<1>2. ASSUME NEW s, Accepts(s) PROVE op'.mem = s
  BY <1>1, <1>2 DEF Accepts, OpType
<1>3. ASSUME op'.mem.rows = op.mem.rows PROVE Refusals(op'.mem)
  BY <1>1, <1>3 DEF Refusals
<1>4. CASE op.action = "claim" /\ Claim(d)
  <2>1. op'.mem = [op.mem EXCEPT !.phase[p] = "open"]
    BY <1>2, <1>4 DEF Claim
  <2> QED BY <1>1, <1>3, <2>1 DEF StateType
<1>5. CASE op.action = "resume" /\ Resume(d)
  <2>1. op'.mem = [op.mem EXCEPT !.halt = FALSE, !.ready[p] = FALSE, !.resumed = TRUE]
    BY <1>2, <1>5 DEF Resume
  <2> QED BY <1>1, <1>3, <2>1 DEF StateType
<1>6. CASE op.action = "ready" /\ Ready(d)
  <2>1. op'.mem = [op.mem EXCEPT !.ready[p] = TRUE]
    BY <1>2, <1>6 DEF Ready
  <2> QED BY <1>1, <1>3, <2>1 DEF StateType
<1>7. CASE op.action = "fault" /\ Fault
  <2>1. op'.mem = [op.mem EXCEPT !.halt = TRUE]
    BY <1>2, <1>7 DEF Fault
  <2> QED BY <1>1, <1>3, <2>1 DEF StateType
<1>8. CASE op.action = "finish" /\ Finish(d)
  <2>1. PICK fails \in BOOLEAN :
          op'.mem = [op.mem EXCEPT !.phase[p] = "complete", !.failed[p] = fails]
    BY <1>2, <1>8 DEF Finish
  <2> QED BY <1>1, <1>3, <2>1 DEF StateType
<1>9. CASE op.action = "admit" /\ Admit(d)
  <2>1. PICK k \in Kinds : \E cap \in CapsOf(k), id \in IdentitiesFor(op.mem, p) :
          Accepts(WithRow(op.mem, p, k, cap, id))
    BY <1>9 DEF Admit, WithRow
  <2>2. PICK cap \in CapsOf(k), id \in IdentitiesFor(op.mem, p) :
          Accepts(WithRow(op.mem, p, k, cap, id))
    BY <2>1
  <2> DEFINE r == [phase |-> p, kind |-> k, cap |-> cap, id |-> id, seen |-> "no"]
             t == WithRow(op.mem, p, k, cap, id)
  <2>3. t.rows = Append(op.mem.rows, r)
    BY <1>1 DEF WithRow, StateType
  <2>4. /\ DOMAIN t.rows = DOMAIN op.mem.rows \cup {Len(op.mem.rows) + 1}
        /\ \A i \in DOMAIN op.mem.rows : t.rows[i] = op.mem.rows[i]
        /\ t.rows[Len(op.mem.rows) + 1].seen = "no"
    BY <1>1, <2>3 DEF StateType
  <2>5. op'.mem = t
    BY <1>2, <2>2
  <2> HIDE DEF t
  <2> QED BY <1>1, <2>4, <2>5 DEF Refusals
<1>10. CASE op.action = "observe" /\ Observe(d)
  <2>1. op'.mem = [op.mem EXCEPT !.rows[row[d]].seen = answer[d]]
    BY <1>2, <1>10 DEF Observe
  <2>2. row[d] \in DOMAIN op.mem.rows /\ answer[d] \in Seen /\ at[d] = "observe"
    BY <1>1, <1>10 DEF Observe, TypeInv, TypeOK, MemInv, Seen, Answers
  <2> QED BY <1>1, <2>1, <2>2, RecordedRefusal DEF RefusedInv
<1>11. CASE op.action = "stream" /\ Terminal(d)
  <2>1. op'.mem = [op.mem EXCEPT !.rows[row[d]].seen = "ended"]
    BY <1>2, <1>11 DEF Terminal
  <2>2. row[d] \in DOMAIN op.mem.rows /\ "ended" \in Seen
    BY <1>1, <1>11 DEF TypeInv, TypeOK, MemInv, Seen
  <2> QED BY <1>1, <2>1, <2>2, RecordedRefusal
<1>12. CASE Refuse(d)
  <2> DEFINE kept == IF op.action = "observe" /\ op.mem.rows[row[d]].seen = "no"
                     THEN [op.mem EXCEPT !.rows[row[d]].seen = answer[d]] ELSE op.mem
             s == IF op.action \in {"observe", "stream", "finish"}
                  THEN [kept EXCEPT !.halt = TRUE] ELSE op.mem
  <2>1. kept \in StateType /\ Refusals(kept)
    <3>1. CASE op.action = "observe" /\ op.mem.rows[row[d]].seen = "no"
      <4>1. row[d] \in DOMAIN op.mem.rows /\ answer[d] \in Seen /\ answer[d] # "refused"
        BY <1>1, <1>12, <3>1 DEF Refuse, TypeInv, TypeOK, MemInv, Seen, Answers
      <4> QED BY <1>1, <3>1, <4>1, Recorded, RecordedRefusal DEF StateOK
    <3>2. CASE ~(op.action = "observe" /\ op.mem.rows[row[d]].seen = "no")
      BY <1>1, <3>2
    <3> QED BY <3>1, <3>2
  <2>2. op'.mem = s
    BY <1>1, <1>12 DEF Refuse, OpType
  <2> HIDE DEF kept
  <2>3. [kept EXCEPT !.halt = TRUE].rows = kept.rows
    BY <2>1 DEF StateType
  <2>4. Refusals([kept EXCEPT !.halt = TRUE])
    BY <2>1, <2>3 DEF Refusals
  <2> QED BY <1>1, <2>2, <2>4
<1> QED BY <1>1, <1>4, <1>5, <1>6, <1>7, <1>8, <1>9, <1>10, <1>11, <1>12 DEF Act

(* Who observes went there with its answer, and stays there with it. *)
LEMMA Observers ==
  ASSUME TypeInv, RefusedInv, refusals \subseteq refusals', Extends(files.state, files'.state),
         \A e \in Drivers : at'[e] = "observe" =>
           at[e] = "observe" /\ row'[e] = row[e] /\ answer'[e] = answer[e]
  PROVE  \A d \in Drivers : at'[d] = "observe" /\ answer'[d] = "refused" =>
           files'.state.rows[row'[d]].id \in refusals'
<1> SUFFICES ASSUME NEW d \in Drivers, at'[d] = "observe", answer'[d] = "refused"
             PROVE  files'.state.rows[row'[d]].id \in refusals'
  OBVIOUS
<1>1. at[d] = "observe" /\ answer[d] = "refused" /\ row'[d] = row[d]
  OBVIOUS
<1>2. row[d] \in DOMAIN files.state.rows /\ files.state.rows[row[d]].id \in refusals
  BY <1>1 DEF TypeInv, TypeOK, RefusedInv
<1> QED BY <1>1, <1>2 DEF Extends, Same

LEMMA MovesOn ==
  ASSUME TypeOK, NEW d \in Drivers, NEW x \in Places \ {"observe"}, GoesOn(d, x)
  PROVE  \A e \in Drivers : at'[e] = "observe" =>
           at[e] = "observe" /\ row'[e] = row[e] /\ answer'[e] = answer[e]
  BY DEF TypeOK, GoesOn, Places

LEMMA RefusedStep == TypeInv /\ RefusedInv /\ [Next]_vars => RefusedInv'
<1> SUFFICES ASSUME TypeInv, RefusedInv, [Next]_vars PROVE RefusedInv'
  OBVIOUS
<1> USE DEF drivers, gateway, auditor
<1>0. /\ files.state \in StateType /\ disk.state \in StateType
      /\ (op # Idle => op \in OpType /\ op.mem \in StateType)
      /\ Extends(files.state, files.state) /\ refusals \subseteq refusals'
  BY ExtendsItself, GatewayKeeps DEF TypeInv, TypeOK, DirectoryOK, StateOK
<1>1. ASSUME NEW s, Refusals(s) PROVE \A i \in DOMAIN s.rows :
        s.rows[i].seen = "refused" => s.rows[i].id \in refusals'
  BY <1>0, <1>1 DEF Refusals
<1>2. ASSUME files'.state = files.state, disk'.state \in {disk.state, files.state},
             op' = Idle \/ (op # Idle /\ op'.mem = op.mem) \/ op'.mem = files.state,
             \A e \in Drivers : at'[e] = "observe" =>
               at[e] = "observe" /\ row'[e] = row[e] /\ answer'[e] = answer[e]
      PROVE  RefusedInv'
  BY <1>0, <1>1, <1>2, Observers DEF RefusedInv, Refusals
<1>3. ASSUME NEW d \in Drivers, NEW a \in Actions, Begin(d, a) PROVE RefusedInv'
  <2>1. CASE MayBegin
    <3>1. op'.mem = files.state /\ UNCHANGED <<at, row, answer, disk>>
      BY <1>3, <2>1 DEF Begin
    <3>2. files'.state = files.state
      BY <1>3, <2>1 DEF Begin, TypeInv, TypeOK, DirectoryOK, DirectoryType
    <3> QED BY <1>2, <3>1, <3>2
  <2>2. CASE ~MayBegin
    <3>1. PICK x \in AfterFailure(a) : GoesOn(d, x)
      BY <1>3, <2>2 DEF Begin
    <3>2. x \in Places \ {"observe"}
      BY <3>1, Failures DEF Places
    <3>3. op' = Idle /\ UNCHANGED <<files, disk>>
      BY <1>3, <2>2 DEF Begin
    <3> QED BY <1>2, <3>1, <3>2, <3>3, MovesOn DEF TypeInv
  <2> QED BY <2>1, <2>2
<1>4. ASSUME NEW d \in Drivers, Act(d) PROVE RefusedInv'
  <2>1. Effect(d) /\ Refusals(op'.mem) /\ disk' = files /\ UNCHANGED <<at, answer, refusals>>
        /\ op # Idle /\ op.by = d
    BY <1>4, ActEffect, ActRefusals DEF Act, Synced, Idle
  <2>2. \A e \in Drivers : at[e] = "observe" => row'[e] = row[e]
    BY <2>1 DEF Effect, TypeInv, TypeOK, MemInv
  <2>3. files'.state = files.state
    BY <2>1 DEF Effect
  <2>4. \A d_1 \in Drivers : at'[d_1] = "observe" /\ answer'[d_1] = "refused" =>
          files'.state.rows[row'[d_1]].id \in refusals'
    BY <1>0, <2>1, <2>2, <2>3, Observers
  <2> QED BY <2>1, <2>3, <2>4 DEF RefusedInv, Refusals
<1>5. ASSUME NEW d \in Drivers, Save(d) PROVE RefusedInv'
  <2>1. op # Idle /\ op' = [op EXCEPT !.stage = "saved"]
        /\ files' = [files EXCEPT !.state = op.mem, !.journal = TRUE]
        /\ UNCHANGED <<disk, at, row, answer, refusals>>
    BY <1>5 DEF Save, Goes, Idle
  <2>2. op'.mem = op.mem /\ files'.state = op.mem
    BY <1>0, <2>1 DEF OpType, TypeInv, TypeOK, DirectoryOK, DirectoryType
  <2>3. \A d_1 \in Drivers : at'[d_1] = "observe" /\ answer'[d_1] = "refused" =>
          files'.state.rows[row'[d_1]].id \in refusals'
    BY <1>0, <2>1, <2>2, Observers DEF TypeInv, MemInv
  <2> QED BY <2>1, <2>2, <2>3 DEF RefusedInv, Refusals
<1>6. ASSUME NEW d \in Drivers, Unlink(d) PROVE RefusedInv'
  <2>1. op # Idle /\ op' = [op EXCEPT !.stage = "unlinked"] /\ disk' = files
        /\ files' = [files EXCEPT !.marker = FALSE] /\ UNCHANGED <<at, row, answer>>
    BY <1>6 DEF Unlink, Goes, Idle, Synced
  <2>2. op'.mem = op.mem /\ files'.state = files.state
    BY <1>0, <2>1 DEF OpType, TypeInv, TypeOK, DirectoryOK, DirectoryType
  <2> QED BY <1>2, <2>1, <2>2
<1>7. ASSUME NEW d \in Drivers, Return(d) PROVE RefusedInv'
  <2>1. PICK x \in IF op.ok THEN AfterSuccess(d) ELSE AfterFailure(op.action) : GoesOn(d, x)
    BY <1>7 DEF Return
  <2>2. x \in Places \ {"observe"}
    BY <2>1, Failures, Successes DEF Places
  <2>3. op' = Idle /\ disk' = files /\ UNCHANGED files
    BY <1>7 DEF Return, Synced
  <2> QED BY <1>2, <2>1, <2>2, <2>3, MovesOn DEF TypeInv
<1>8. ASSUME NEW d \in Drivers, GuardDies(d) PROVE RefusedInv'
  <2>1. PICK x \in AfterFailure(op.action) : GoesOn(d, x)
    BY <1>8 DEF GuardDies
  <2>2. x \in Places \ {"observe"}
    BY <2>1, Failures DEF Places
  <2>3. op' = Idle /\ UNCHANGED <<files, disk>>
    BY <1>8 DEF GuardDies, Crash
  <2> QED BY <1>2, <2>1, <2>2, <2>3, MovesOn DEF TypeInv
<1>9. ASSUME NEW d \in Drivers, DriverDies(d) PROVE RefusedInv'
  <2>1. GoesOn(d, "gone") /\ "gone" \in Places \ {"observe"} /\ UNCHANGED <<files, disk>>
        /\ op' \in {op, Idle}
    BY <1>9 DEF DriverDies, Crash, Places
  <2> QED BY <1>2, <2>1, MovesOn DEF TypeInv
<1>14. ASSUME NEW d \in Drivers, Leaves(d) PROVE RefusedInv'
  <2>1. GoesOn(d, "gone") /\ "gone" \in Places \ {"observe"} /\ UNCHANGED <<files, disk, op>>
    BY <1>14 DEF Leaves, Places
  <2> QED BY <1>2, <2>1, MovesOn DEF TypeInv
<1>10. ASSUME PowerFails PROVE RefusedInv'
  <2>1. PICK m, s, c, e \in {files, disk} :
          disk' = [marker |-> m.marker, journal |-> s.journal, state |-> s.state,
                   claims |-> c.claims, events |-> e.events]
    BY <1>10 DEF PowerFails
  <2>2. op' = Idle /\ files' = disk' /\ disk'.state = s.state
        /\ at' \in [Drivers -> {"claim", "resume", "gone"}] /\ UNCHANGED refusals
    BY <1>10, <2>1 DEF PowerFails, Crash
  <2> QED BY <2>2 DEF RefusedInv, Refusals
<1>11. ASSUME NEW d \in Drivers, Dispatch(d) \/ Lost(d) PROVE RefusedInv'
  <2>1. UNCHANGED <<files, disk, op, row, answer>>
        /\ \E x \in {"wait", "fault"} : at' = [at EXCEPT ![d] = x]
    BY <1>11 DEF Dispatch, Lost
  <2>2. \A e \in Drivers : at'[e] = "observe" => at[e] = "observe"
    BY <2>1 DEF TypeInv, TypeOK
  <2> QED BY <1>2, <2>1, <2>2
<1>12. ASSUME NEW d \in Drivers, Answered(d) PROVE RefusedInv'
  <2> DEFINE r == files.state.rows[row[d]]
  <2>1. PICK a \in Answers : answer' = [answer EXCEPT ![d] = a]
          /\ refusals' = refusals \cup IF a = "refused" THEN {r.id} ELSE {}
    BY <1>12 DEF Answered
  <2>2. at[d] = "wait" /\ at' = [at EXCEPT ![d] = "observe"] /\ UNCHANGED <<files, disk, op, row>>
    BY <1>12 DEF Answered
  <2>3. ASSUME NEW e \in Drivers, at'[e] = "observe", answer'[e] = "refused"
        PROVE  files.state.rows[row[e]].id \in refusals'
    <3>1. CASE e = d
      BY <2>1, <2>2, <2>3, <3>1 DEF TypeInv, TypeOK
    <3>2. CASE e # d
      BY <1>0, <2>1, <2>2, <2>3, <3>2 DEF RefusedInv, TypeInv, TypeOK
    <3> QED BY <3>1, <3>2
  <2> QED BY <1>1, <2>2, <2>3 DEF RefusedInv, Refusals
<1>13. ASSUME Settles \/ AuditPasses \/ AuditWrites \/ AuditFails \/ UNCHANGED vars
       PROVE  RefusedInv'
  <2>1. UNCHANGED <<files, disk, op, drivers>>
    BY <1>13 DEF Settles, AuditPasses, AuditWrites, AuditFails, vars
  <2> QED BY <1>2, <2>1
<1> QED BY <1>3, <1>4, <1>5, <1>6, <1>7, <1>8, <1>9, <1>10, <1>11, <1>12, <1>13, <1>14
  DEF Next, Over

(* What an audit found settled, and what a proof attests, is settled. *)
AuditInv ==
  \A s \in StateType : audit = <<s>> \/ proof = <<s>> => Settled(s)

LEMMA StaysSettled ==
  ASSUME [Next]_vars, NEW s, Settled(s)
  PROVE  Settled(s)'
  BY GatewayKeeps DEF Settled, Rows

LEMMA AuditStep == TypeInv /\ RefusedInv /\ AuditInv /\ [Next]_vars => AuditInv'
<1> SUFFICES ASSUME TypeInv, RefusedInv, AuditInv, [Next]_vars PROVE AuditInv'
  OBVIOUS
<1> USE DEF drivers, gateway, auditor
<1>1. CASE UNCHANGED <<audit, proof>>
  BY <1>1, StaysSettled DEF AuditInv
<1>2. CASE AuditPasses
  <2>1. /\ audit' = <<files.state>> /\ proof' = proof /\ receipts' = receipts /\ refusals' = refusals
        /\ \A i \in Rows(files.state, "typescript", Priced) : SettledRow(files.state.rows[i])
    BY <1>2 DEF AuditPasses
  <2>2. Settled(files.state)
    BY <2>1 DEF Settled, SettledRow, Rows, RefusedInv, Refusals
  <2>3. Settled(files.state)'
    BY <1>2, <2>1, <2>2 DEF AuditPasses, Settled, Rows
  <2>4. ASSUME NEW s \in StateType, audit' = <<s>> PROVE s = files.state
    BY <2>1, <2>4
  <2>5. files' = files
    BY <1>2 DEF AuditPasses
  <2>6. ASSUME NEW s \in StateType, audit' = <<s>> \/ proof' = <<s>> PROVE Settled(s)'
    BY <2>1, <2>3, <2>4, <2>5, <2>6, StaysSettled DEF AuditInv
  <2> QED BY <2>6 DEF AuditInv
<1>3. CASE AuditWrites \/ AuditFails
  <2>1. audit' = <<>> /\ proof' \in {audit, <<>>}
    BY <1>3 DEF AuditWrites, AuditFails
  <2>2. ASSUME NEW s PROVE <<s>> # <<>>
    OBVIOUS
  <2> QED BY <2>1, <2>2, StaysSettled DEF AuditInv
<1>4. ASSUME NEW d \in Drivers, NEW a \in Actions, Begin(d, a) PROVE UNCHANGED <<audit, proof>>
  BY <1>4 DEF Begin
<1>5. ASSUME NEW d \in Drivers,
             Act(d) \/ Save(d) \/ Unlink(d) \/ Return(d) \/ GuardDies(d) \/ DriverDies(d)
               \/ Leaves(d) \/ Dispatch(d) \/ Answered(d) \/ Lost(d)
      PROVE  UNCHANGED <<audit, proof>>
  BY <1>5 DEF Act, Save, Unlink, Return, GuardDies, DriverDies, Leaves, Dispatch, Answered, Lost
<1>6. PowerFails \/ Settles \/ UNCHANGED vars => UNCHANGED <<audit, proof>>
  BY DEF PowerFails, Settles, vars
<1> QED BY <1>1, <1>2, <1>3, <1>4, <1>5, <1>6 DEF Next, Over

-----------------------------------------------------------------------------
(* Once the second phase is granted, the first is complete and settled in     *)
(* every state that is, or may become, state.json.                            *)
Done(s) == s.phase["typescript"] = "complete" /\ Settled(s)
Granted ==
  \/ \E d \in claimants : PhaseOf[d] = "python"
  \/ op # Idle /\ op.action = "claim" /\ op.ok /\ op.stage # "marked" /\ PhaseOf[op.by] = "python"
DoneInv ==
  Granted => Done(files.state) /\ Done(disk.state) /\ (op # Idle => Done(op.mem))

(* No handler opens a phase again that is complete, or adds to it. *)
LEMMA StaysComplete ==
  ASSUME TypeInv, NEW d \in Drivers, Act(d), op.mem.phase["typescript"] = "complete"
  PROVE  op'.mem.phase["typescript"] = "complete"
<1> DEFINE p == PhaseOf[d]
<1>1. op \in OpType /\ op.mem \in StateType /\ op # Idle /\ op.by = d /\ p \in Phases
      /\ StateOK(op.mem)
  BY CampaignAssumption DEF TypeInv, TypeOK, StateOK, Act, Idle
<1>2. ASSUME NEW s, Accepts(s) PROVE op'.mem = s
  BY <1>1, <1>2 DEF Accepts, OpType
<1>3. CASE op.action = "claim" /\ Claim(d)
  <2>1. op.mem.phase[p] = "none" /\ op'.mem = [op.mem EXCEPT !.phase[p] = "open"]
    BY <1>2, <1>3 DEF Claim, MayClaim
  <2> QED BY <1>1, <2>1 DEF StateType
<1>4. CASE op.action = "finish" /\ Finish(d)
  <2>1. PICK fails \in BOOLEAN :
          op'.mem = [op.mem EXCEPT !.phase[p] = "complete", !.failed[p] = fails]
    BY <1>2, <1>4 DEF Finish
  <2> QED BY <1>1, <2>1 DEF StateType
<1>5. CASE Resume(d) \/ Ready(d) \/ Fault
  <2>1. op'.mem \in {[op.mem EXCEPT !.halt = FALSE, !.ready[p] = FALSE, !.resumed = TRUE],
                     [op.mem EXCEPT !.ready[p] = TRUE], [op.mem EXCEPT !.halt = TRUE]}
    BY <1>2, <1>5 DEF Resume, Ready, Fault
  <2> QED BY <1>1, <2>1 DEF StateType
<1>6. CASE Admit(d)
  <2>1. PICK k \in Kinds : \E cap \in CapsOf(k), id \in IdentitiesFor(op.mem, p) :
          Accepts(WithRow(op.mem, p, k, cap, id))
    BY <1>6 DEF Admit, WithRow
  <2>2. PICK cap \in CapsOf(k), id \in IdentitiesFor(op.mem, p) :
          op'.mem = WithRow(op.mem, p, k, cap, id)
    BY <1>2, <2>1
  <2> QED BY <1>1, <2>2 DEF WithRow, StateType
<1>7. CASE Observe(d) \/ Terminal(d)
  <2>1. \E x \in {answer[d], "ended"} : op'.mem = [op.mem EXCEPT !.rows[row[d]].seen = x]
    BY <1>2, <1>7 DEF Observe, Terminal
  <2> QED BY <1>1, <2>1 DEF StateType
<1>8. CASE Refuse(d)
  <2> DEFINE kept == IF op.action = "observe" /\ op.mem.rows[row[d]].seen = "no"
                     THEN [op.mem EXCEPT !.rows[row[d]].seen = answer[d]] ELSE op.mem
  <2>1. op'.mem = IF op.action \in {"observe", "stream", "finish"}
                  THEN [kept EXCEPT !.halt = TRUE] ELSE op.mem
    BY <1>1, <1>8 DEF Refuse, OpType
  <2>2. /\ [kept EXCEPT !.halt = TRUE].phase = kept.phase
        /\ kept.phase = op.mem.phase
    BY <1>1 DEF StateType
  <2> HIDE DEF kept
  <2> QED BY <2>1, <2>2
<1> QED BY <1>3, <1>4, <1>5, <1>6, <1>7, <1>8 DEF Act

LEMMA ActDone ==
  ASSUME TypeInv, NEW d \in Drivers, Act(d), Done(op.mem)
  PROVE  Done(op'.mem)
<1> DEFINE p == PhaseOf[d]
<1>1. op \in OpType /\ op.mem \in StateType /\ Effect(d) /\ p \in Phases
  BY CampaignAssumption, ActEffect DEF TypeInv, TypeOK, StateOK, Act, Idle
<1>2. op'.mem \in StateType /\ Extends(op.mem, op'.mem)
  BY <1>1 DEF Effect, StateOK
<1>3. \A i \in DOMAIN op'.mem.rows \ DOMAIN op.mem.rows : op'.mem.rows[i].phase # "typescript"
  <2>1. CASE op.action = "admit" /\ Admit(d)
    <3>1. PICK k \in Kinds : \E cap \in CapsOf(k), id \in IdentitiesFor(op.mem, p) :
            Open(op.mem, p) /\ Accepts(WithRow(op.mem, p, k, cap, id))
      BY <2>1 DEF Admit, WithRow, MayAdmit
    <3>2. PICK cap \in CapsOf(k), id \in IdentitiesFor(op.mem, p) :
            Open(op.mem, p) /\ op'.mem = WithRow(op.mem, p, k, cap, id)
      BY <1>1, <3>1 DEF Accepts, OpType
    <3> DEFINE r == [phase |-> p, kind |-> k, cap |-> cap, id |-> id, seen |-> "no"]
    <3>3. p # "typescript" /\ r.phase = p
      BY <3>2 DEF Open, Done
    <3>4. op'.mem.rows = Append(op.mem.rows, r)
      BY <1>1, <3>2 DEF WithRow, StateType
    <3> HIDE DEF r
    <3>5. DOMAIN op'.mem.rows \ DOMAIN op.mem.rows = {Len(op.mem.rows) + 1}
          /\ op'.mem.rows[Len(op.mem.rows) + 1] = r
      BY <1>1, <3>4 DEF StateType
    <3> QED BY <3>3, <3>5
  <2>2. CASE ~(op.action = "admit" /\ Admit(d))
    <3>1. ~(op.action = "admit" /\ op'.ok)
      BY <1>1, <2>2 DEF Act, Refuse, OpType
    <3> QED BY <1>1, <1>2, <3>1 DEF Effect, StateType
  <2> QED BY <2>1, <2>2
<1>4. ASSUME NEW i \in Rows(op'.mem, "typescript", Priced)
      PROVE  op'.mem.rows[i].id \in receipts \cup refusals
  <2>1. i \in DOMAIN op.mem.rows /\ Same(op'.mem.rows[i], op.mem.rows[i])
    BY <1>2, <1>3, <1>4 DEF Rows, Extends
  <2>2. i \in Rows(op.mem, "typescript", Priced)
    BY <1>4, <2>1 DEF Rows, Same
  <2> QED BY <2>1, <2>2 DEF Done, Settled, Same
<1> QED BY <1>4, StaysComplete DEF Done, Settled

LEMMA DoneStep == TypeInv /\ AuditInv /\ DoneInv /\ [Next]_vars => DoneInv'
<1> SUFFICES ASSUME TypeInv, AuditInv, DoneInv, [Next]_vars PROVE DoneInv'
  OBVIOUS
<1>0. /\ files \in DirectoryType /\ files.state \in StateType
      /\ (op # Idle => op \in OpType /\ op.by \in Drivers)
      /\ receipts \subseteq receipts' /\ refusals \subseteq refusals'
  BY GatewayKeeps DEF TypeInv, TypeOK, DirectoryOK, StateOK, OpType
<1>1. ASSUME NEW s, Done(s)
      PROVE  /\ s.phase["typescript"] = "complete"
             /\ \A i \in Rows(s, "typescript", Priced) : s.rows[i].id \in receipts' \cup refusals'
  BY <1>0, <1>1 DEF Done, Settled
<1>2. ASSUME Granted' => Granted, Done(files.state) /\ Done(disk.state) => Done(files'.state),
             Done(files.state) /\ Done(disk.state) => Done(disk'.state),
             Granted /\ op' # Idle => Done(op'.mem)
      PROVE  DoneInv'
  <2>1. ASSUME Granted' PROVE Done(files'.state) /\ Done(disk'.state) /\ (op' # Idle => Done(op'.mem))
    BY <1>2, <2>1 DEF DoneInv
  <2>2. ASSUME Granted' PROVE Done(files.state)' /\ Done(disk.state)' /\ (op' # Idle => Done(op.mem)')
    BY <1>1, <2>1, <2>2 DEF Done, Settled, Rows
  <2> QED BY <2>2 DEF DoneInv
<1>3. ASSUME NEW d \in Drivers, NEW a \in Actions, MayBegin, Begin(d, a) PROVE DoneInv'
  <2>1. /\ op' = [by |-> d, action |-> a, stage |-> "marked", mem |-> files.state, ok |-> TRUE]
        /\ files'.state = files.state /\ op = Idle /\ UNCHANGED <<disk, claimants>>
    BY <1>0, <1>3 DEF Begin, DirectoryType
  <2>2. Granted' => Granted
    BY <2>1 DEF Granted
  <2> QED BY <1>2, <2>1, <2>2 DEF DoneInv
<1>4. ASSUME NEW d \in Drivers, Act(d) PROVE DoneInv'
  <2>1. /\ Effect(d) /\ disk' = files /\ files'.state = files.state /\ op # Idle /\ op.by = d
        /\ UNCHANGED claimants /\ op.mem = files.state /\ op.stage = "marked"
    BY <1>4, ActEffect DEF Act, Synced, Idle, Effect, TypeInv, MemInv
  <2>2. CASE op.action = "claim" /\ op'.ok /\ PhaseOf[d] = "python"
    <3>1. Claim(d)
      BY <1>0, <1>4, <2>1, <2>2 DEF Act, Refuse, OpType
    <3>2. files.state.phase["typescript"] = "complete" /\ proof = <<files.state>>
      BY <2>1, <2>2, <3>1 DEF Claim, MayClaim, Attested
    <3>3. Done(files.state)
      BY <1>0, <3>2 DEF Done, AuditInv
    <3>4. Done(op'.mem)
      BY <1>4, <2>1, <3>3, ActDone
    <3>5. Done(files.state)' /\ Done(disk.state)' /\ Done(op.mem)'
      BY <1>1, <2>1, <3>3, <3>4 DEF Done, Settled, Rows
    <3> QED BY <3>5 DEF DoneInv
  <2>3. CASE ~(op.action = "claim" /\ op'.ok /\ PhaseOf[d] = "python")
    <3>1. Granted' => Granted
      BY <2>1, <2>3 DEF Granted, Effect
    <3>2. Granted => Done(op'.mem)
      BY <1>4, <2>1, ActDone DEF DoneInv
    <3> QED BY <1>2, <2>1, <3>1, <3>2
  <2> QED BY <2>2, <2>3
<1>5. ASSUME NEW d \in Drivers, Save(d) PROVE DoneInv'
  <2>1. /\ op # Idle /\ op'.mem = op.mem /\ op'.action = op.action /\ op'.ok = op.ok /\ op'.by = op.by
        /\ op.stage # "marked" /\ files'.state = op.mem /\ UNCHANGED <<disk, claimants>>
    BY <1>0, <1>5 DEF Save, Goes, Idle, DirectoryType, OpType
  <2>2. Granted' => Granted
    BY <2>1 DEF Granted
  <2>3. Granted => Done(files'.state) /\ Done(disk'.state) /\ Done(op'.mem)
    BY <2>1 DEF DoneInv
  <2>4. Granted' => Done(files.state)' /\ Done(disk.state)' /\ Done(op.mem)'
    BY <1>1, <2>2, <2>3 DEF Done, Settled, Rows
  <2> QED BY <2>4 DEF DoneInv
<1>6. ASSUME NEW d \in Drivers, Unlink(d) PROVE DoneInv'
  <2>1. /\ op # Idle /\ op'.mem = op.mem /\ op'.action = op.action /\ op'.ok = op.ok /\ op'.by = op.by
        /\ op.stage # "marked" /\ files'.state = files.state /\ disk' = files /\ UNCHANGED claimants
    BY <1>0, <1>6 DEF Unlink, Goes, Idle, Synced, DirectoryType, OpType
  <2>2. Granted' => Granted
    BY <2>1 DEF Granted
  <2> QED BY <1>2, <2>1, <2>2 DEF DoneInv
<1>7. ASSUME NEW d \in Drivers, Return(d) PROVE DoneInv'
  <2>1. /\ op # Idle /\ op.by = d /\ op.stage = "unlinked" /\ op' = Idle /\ disk' = files
        /\ files' = files
        /\ claimants' = IF op.action = "claim" /\ op.ok THEN claimants \cup {d} ELSE claimants
    BY <1>7 DEF Return, Idle, Synced
  <2>2. Granted' => Granted
    BY <2>1 DEF Granted
  <2> QED BY <1>2, <2>1, <2>2
<1>8. ASSUME NEW d \in Drivers, Dispatch(d) PROVE DoneInv'
  <2>1. UNCHANGED <<files, disk, op, claimants>>
    BY <1>8 DEF Dispatch
  <2> QED BY <1>2, <2>1 DEF DoneInv, Granted
<1>9. ASSUME PowerFails PROVE DoneInv'
  <2>1. PICK m, s, c, e \in {files, disk} :
          disk' = [marker |-> m.marker, journal |-> s.journal, state |-> s.state,
                   claims |-> c.claims, events |-> e.events]
    BY <1>9 DEF PowerFails
  <2>2. op' = Idle /\ files' = disk' /\ UNCHANGED claimants
    BY <1>9 DEF PowerFails, Crash
  <2>3. Granted' => Granted
    BY <2>2 DEF Granted
  <2> QED BY <1>2, <2>1, <2>2, <2>3
<1>10. ASSUME Elsewhere PROVE DoneInv'
  <2>1. Granted' => Granted
    BY <1>10 DEF Elsewhere, Granted
  <2>2. UNCHANGED <<files, disk>> /\ op' \in {op, Idle}
    BY <1>10 DEF Elsewhere
  <2> QED BY <1>2, <2>1, <2>2 DEF DoneInv
<1> QED BY Steps, <1>3, <1>4, <1>5, <1>6, <1>7, <1>8, <1>9, <1>10 DEF Working

(* "Python waits for successful TypeScript completion and root                *)
(* reconciliation" (live_qa_guard.py:130): whoever is granted the second      *)
(* phase finds every priced request of the first settled with the gateway or  *)
(* refused by it, and none is added to them afterwards.                       *)
THEOREM PythonFindsItSettled == Spec => []PythonWaits
<1>1. Init => RefusedInv /\ AuditInv /\ DoneInv
  <2> SUFFICES ASSUME Init PROVE RefusedInv /\ AuditInv /\ DoneInv
    OBVIOUS
  <2>1. RefusedInv
    BY DEF Init, RefusedInv, Refusals, Fresh
  <2>2. AuditInv
    <3>1. ASSUME NEW s PROVE <<s>> # <<>>
      OBVIOUS
    <3> QED BY <3>1 DEF Init, AuditInv
  <2>3. DoneInv
    BY DEF Init, DoneInv, Granted
  <2> QED BY <2>1, <2>2, <2>3
<1>2. TypeInv /\ DispatchedIsOnRecord /\ DoneInv => PythonWaits
  <2> SUFFICES ASSUME TypeInv, DispatchedIsOnRecord, DoneInv,
                      NEW d \in claimants, PhaseOf[d] = "python",
                      NEW i \in DOMAIN sent, sent[i].phase = "typescript", sent[i].kind \in Priced
               PROVE  sent[i].id \in receipts \cup refusals
    BY DEF PythonWaits
  <2>1. Settled(files.state)
    BY DEF DoneInv, Granted, Done
  <2>2. PICK j \in DOMAIN files.state.rows : Same(files.state.rows[j], sent[i])
    BY DEF DispatchedIsOnRecord, OnRecord
  <2> QED BY <2>1, <2>2 DEF Settled, Rows, Same
<1> QED BY <1>1, <1>2, RefusedStep, AuditStep, DoneStep, TypesHold, NothingIsForgotten, PTL DEF Spec
-----------------------------------------------------------------------------
(* A ceiling as a set, of as many units as it has: the sum of the ceilings is *)
(* the number of all of them.                                                 *)
Units(s) == {u \in (DOMAIN s) \X Nat : 1 <= u[2] /\ u[2] <= s[u[1]].cap}
Sums(s, n) == IsFiniteSet(Units(s)) /\ Cardinality(Units(s)) = n

LEMMA NothingSumsToZero == Sums(<<>>, 0)
<1>1. Units(<<>>) = {}
  BY DEF Units
<1> QED BY <1>1, FS_EmptySet DEF Sums

LEMMA OneRowMore ==
  ASSUME NEW s \in Seq(RowType), NEW r \in RowType, NEW n \in Nat, Sums(s, n),
         NEW t, t = Append(s, r)
  PROVE  Sums(t, n + r.cap)
<1> DEFINE m == Len(s) + 1
           new == {m} \X (1 .. r.cap)
<1>1. /\ t[m] = r /\ DOMAIN t = DOMAIN s \cup {m} /\ m \notin DOMAIN s
      /\ \A i \in DOMAIN s : t[i] = s[i]
  OBVIOUS
<1>2. r.cap \in Nat
  BY DEF RowType
<1> HIDE DEF m
<1>3. Units(t) = Units(s) \cup new /\ Units(s) \cap new = {}
  BY <1>1, <1>2 DEF Units
<1>4. IsFiniteSet(new) /\ Cardinality(new) = r.cap
  <2>1. IsFiniteSet({m}) /\ Cardinality({m}) = 1
    BY FS_Singleton
  <2>2. IsFiniteSet(1 .. r.cap) /\ Cardinality(1 .. r.cap) = r.cap
    <3>1. 1 \in Int /\ r.cap \in Int /\ (r.cap = 0 \/ r.cap >= 1)
      BY <1>2
    <3>2. /\ IsFiniteSet(1 .. r.cap)
          /\ Cardinality(1 .. r.cap) = IF 1 > r.cap THEN 0 ELSE r.cap - 1 + 1
      BY <3>1, FS_Interval, Zenon
    <3> QED BY <3>1, <3>2
  <2>3. IsFiniteSet(new) /\ Cardinality(new) = Cardinality({m}) * Cardinality(1 .. r.cap)
    BY <2>1, <2>2, FS_Product, Zenon
  <2> QED BY <1>2, <2>1, <2>2, <2>3
<1> HIDE DEF new
<1>5. /\ IsFiniteSet(Units(s) \cup new)
      /\ Cardinality(Units(s) \cup new)
           = Cardinality(Units(s)) + Cardinality(new) - Cardinality(Units(s) \cap new)
  BY <1>4, FS_Union DEF Sums
<1>6. Cardinality(Units(s) \cap new) = 0
  BY <1>3, FS_EmptySet
<1> QED BY <1>2, <1>3, <1>4, <1>5, <1>6 DEF Sums

(* What is reserved is the sum of the ceilings on record, within the plan. *)
Reserved(s) == Sums(s.rows, s.reserved) /\ s.reserved <= SpendLimit
ReservedInv ==
  Reserved(files.state) /\ Reserved(disk.state) /\ (op # Idle => Reserved(op.mem))

LEMMA SameUnits ==
  ASSUME NEW s \in StateType, NEW t \in StateType, Extends(s, t), Len(t.rows) = Len(s.rows)
  PROVE  Units(t.rows) = Units(s.rows)
<1>1. DOMAIN t.rows = DOMAIN s.rows /\ \A i \in DOMAIN s.rows : t.rows[i].cap = s.rows[i].cap
  BY DEF StateType, Extends, Same
<1> QED BY <1>1 DEF Units

(* Of the handlers only an admission touches what is reserved. *)
LEMMA NothingElseReserves ==
  ASSUME TypeInv, NEW d \in Drivers, Act(d), ~(op.action = "admit" /\ op'.ok)
  PROVE  op'.mem.reserved = op.mem.reserved
<1> DEFINE p == PhaseOf[d]
<1>1. op \in OpType /\ op.mem \in StateType /\ op # Idle
  BY DEF TypeInv, TypeOK, Act, Idle, StateOK
<1>2. ASSUME NEW s, Accepts(s) PROVE op'.mem = s /\ op'.ok = op.ok
  BY <1>1, <1>2 DEF Accepts, OpType
<1>3. op.ok
  BY <1>1 DEF TypeInv, MemInv, Act
<1>4. CASE Claim(d)
  BY <1>1, <1>2, <1>4 DEF Claim, StateType
<1>5. CASE Resume(d)
  <2> DEFINE s == [op.mem EXCEPT !.halt = FALSE, !.ready[p] = FALSE, !.resumed = TRUE]
  <2>1. s.reserved = op.mem.reserved
    BY <1>1 DEF StateType
  <2>2. Accepts(s)
    BY <1>5 DEF Resume
  <2> HIDE DEF s
  <2> QED BY <1>2, <2>1, <2>2
<1>6. CASE Ready(d)
  BY <1>1, <1>2, <1>6 DEF Ready, StateType
<1>7. CASE op.action = "admit" /\ Admit(d)
  BY <1>2, <1>3, <1>7 DEF Admit
<1>8. CASE Observe(d)
  BY <1>1, <1>2, <1>8 DEF Observe, StateType
<1>9. CASE Terminal(d)
  BY <1>1, <1>2, <1>9 DEF Terminal, StateType
<1>10. CASE Fault
  BY <1>1, <1>2, <1>10 DEF Fault, StateType
<1>11. CASE Finish(d)
  <2>1. PICK fails \in BOOLEAN :
          Accepts([op.mem EXCEPT !.phase[p] = "complete", !.failed[p] = fails])
    BY <1>11, Zenon DEF Finish
  <2> DEFINE s == [op.mem EXCEPT !.phase[p] = "complete", !.failed[p] = fails]
  <2>2. s.reserved = op.mem.reserved
    BY <1>1 DEF StateType
  <2> HIDE DEF s
  <2> QED BY <1>2, <2>1, <2>2 DEF s
<1>12. CASE Refuse(d)
  <2> DEFINE kept == IF op.action = "observe" /\ op.mem.rows[row[d]].seen = "no"
                     THEN [op.mem EXCEPT !.rows[row[d]].seen = answer[d]] ELSE op.mem
  <2>1. kept.reserved = op.mem.reserved /\ kept \in [DOMAIN op.mem -> {kept[x] : x \in DOMAIN op.mem}]
    BY <1>1 DEF StateType
  <2>2. op'.mem = IF op.action \in {"observe", "stream", "finish"}
                  THEN [kept EXCEPT !.halt = TRUE] ELSE op.mem
    BY <1>1, <1>12 DEF Refuse, OpType
  <2> HIDE DEF kept
  <2>3. [kept EXCEPT !.halt = TRUE].reserved = kept.reserved
    BY <1>1, <2>1 DEF StateType
  <2> QED BY <2>1, <2>2, <2>3
<1> QED BY <1>4, <1>5, <1>6, <1>7, <1>8, <1>9, <1>10, <1>11, <1>12 DEF Act

LEMMA ActReserves ==
  ASSUME TypeInv, ReservedInv, NEW d \in Drivers, Act(d)
  PROVE  Reserved(op'.mem)
<1>1. op \in OpType /\ StateOK(op.mem) /\ op.mem \in StateType /\ op # Idle /\ op.ok
      /\ Reserved(op.mem) /\ PhaseOf[d] \in Phases
  BY CampaignAssumption DEF TypeInv, TypeOK, MemInv, StateOK, Act, Idle, ReservedInv
<1>2. Effect(d)
  BY ActEffect
<1>3. CASE op.action = "admit" /\ op'.ok
  <2>1. Admit(d)
    BY <1>1, <1>3 DEF Act, Refuse, OpType
  <2>2. PICK k \in Kinds : \E cap \in CapsOf(k), id \in IdentitiesFor(op.mem, PhaseOf[d]) :
          /\ MayAdmit(op.mem, PhaseOf[d], k, cap)
          /\ Accepts(WithRow(op.mem, PhaseOf[d], k, cap, id))
    BY <2>1, Zenon DEF Admit, WithRow
  <2>3. PICK cap \in CapsOf(k), id \in IdentitiesFor(op.mem, PhaseOf[d]) :
          MayAdmit(op.mem, PhaseOf[d], k, cap) /\ Accepts(WithRow(op.mem, PhaseOf[d], k, cap, id))
    BY <2>2
  <2> DEFINE r == [phase |-> PhaseOf[d], kind |-> k, cap |-> cap, id |-> id, seen |-> "no"]
  <2>4. op'.mem = WithRow(op.mem, PhaseOf[d], k, cap, id)
    BY <1>1, <2>3 DEF Accepts, OpType
  <2>5. op'.mem.rows = Append(op.mem.rows, r) /\ op'.mem.reserved = op.mem.reserved + cap
    BY <1>1, <2>4 DEF WithRow, StateType
  <2>6. StateOK(op'.mem)
    BY <1>2 DEF Effect
  <2>7. op.mem.rows \in Seq(RowType) /\ op'.mem.rows \in Seq(RowType) /\ op.mem.reserved \in Nat
    BY <1>1, <2>6 DEF StateOK, StateType
  <2>8. r \in RowType /\ r.cap = cap
    <3>1. r = op'.mem.rows[Len(op.mem.rows) + 1] /\ Len(op'.mem.rows) = Len(op.mem.rows) + 1
      BY <2>5, <2>7
    <3> QED BY <2>7, <3>1
  <2> HIDE DEF r
  <2>9. Sums(op'.mem.rows, op'.mem.reserved)
    BY <1>1, <2>5, <2>7, <2>8, OneRowMore DEF Reserved
  <2>10. op.mem.reserved + cap <= SpendLimit
    <3>1. CASE k \in Priced
      BY <2>3, <3>1 DEF MayAdmit, Affordable
    <3>2. CASE k \notin Priced
      <4>1. cap = 0
        BY <2>3, <3>2 DEF CapsOf, Priced
      <4> QED BY <1>1, <2>7, <4>1 DEF Reserved
    <3> QED BY <3>1, <3>2
  <2> QED BY <2>5, <2>9, <2>10 DEF Reserved
<1>4. CASE ~(op.action = "admit" /\ op'.ok)
  <2>1. op'.mem \in StateType /\ Extends(op.mem, op'.mem) /\ Len(op'.mem.rows) = Len(op.mem.rows)
    BY <1>2, <1>4 DEF Effect, StateOK
  <2>2. Units(op'.mem.rows) = Units(op.mem.rows)
    BY <1>1, <2>1, SameUnits
  <2>3. op'.mem.reserved = op.mem.reserved
    BY <1>4, NothingElseReserves
  <2> QED BY <1>1, <2>2, <2>3 DEF Reserved, Sums
<1> QED BY <1>3, <1>4

LEMMA ReservedStep == TypeInv /\ ReservedInv /\ [Next]_vars => ReservedInv'
<1> SUFFICES ASSUME TypeInv, ReservedInv, [Next]_vars PROVE ReservedInv'
  OBVIOUS
<1>0. files \in DirectoryType /\ (op # Idle => op \in OpType)
  BY DEF TypeInv, TypeOK, DirectoryOK
<1>1. ASSUME NEW d \in Drivers, NEW a \in Actions, MayBegin, Begin(d, a) PROVE ReservedInv'
  BY <1>0, <1>1 DEF Begin, ReservedInv, DirectoryType
<1>2. ASSUME NEW d \in Drivers, Act(d) PROVE ReservedInv'
  <2>1. Effect(d) /\ disk' = files /\ Reserved(op'.mem)
    BY <1>2, ActEffect, ActReserves DEF Act, Synced
  <2> QED BY <2>1 DEF Effect, ReservedInv
<1>3. ASSUME NEW d \in Drivers, Save(d) PROVE ReservedInv'
  BY <1>0, <1>3 DEF Save, Goes, Idle, OpType, DirectoryType, ReservedInv
<1>4. ASSUME NEW d \in Drivers, Unlink(d) PROVE ReservedInv'
  BY <1>0, <1>4 DEF Unlink, Goes, Idle, Synced, OpType, DirectoryType, ReservedInv
<1>5. ASSUME NEW d \in Drivers, Return(d) PROVE ReservedInv'
  BY <1>5 DEF Return, Synced, ReservedInv
<1>6. ASSUME NEW d \in Drivers, Dispatch(d) PROVE ReservedInv'
  BY <1>6 DEF Dispatch, ReservedInv
<1>7. ASSUME PowerFails PROVE ReservedInv'
  <2>1. disk'.state \in {files.state, disk.state} /\ files' = disk' /\ op' = Idle
    BY <1>7 DEF PowerFails, Crash
  <2> QED BY <2>1 DEF ReservedInv
<1>8. ASSUME Elsewhere PROVE ReservedInv'
  BY <1>8 DEF Elsewhere, ReservedInv
<1> QED BY Steps, <1>1, <1>2, <1>3, <1>4, <1>5, <1>6, <1>7, <1>8 DEF Working

(* CapSum is a running total of what was dispatched.  That there is one, and  *)
(* that all of them end at the number of units, is carried from step to step. *)
IsRunningTotal(t, s) ==
  t = [n \in 0 .. Len(s) |-> IF n = 0 THEN 0 ELSE t[n - 1] + s[n].cap]
RunningInv ==
  /\ \E t : IsRunningTotal(t, sent)
  /\ \A t : IsRunningTotal(t, sent) => t[Len(sent)] \in Nat /\ Sums(sent, t[Len(sent)])

LEMMA NothingRunsUpToZero == sent = <<>> => RunningInv
<1> SUFFICES ASSUME sent = <<>> PROVE RunningInv
  OBVIOUS
<1>1. IsRunningTotal([n \in 0 .. 0 |-> 0], sent)
  BY DEF IsRunningTotal
<1>2. \A t : IsRunningTotal(t, sent) => t[Len(sent)] = 0
  BY DEF IsRunningTotal
<1> QED BY <1>1, <1>2, NothingSumsToZero DEF RunningInv

LEMMA OneMoreDispatched ==
  ASSUME RunningInv, NEW r \in RowType, sent \in Seq(RowType), sent' = Append(sent, r)
  PROVE  RunningInv'
<1>1. PICK a \in Seq(RowType), b \in Seq(RowType) :
        a = sent /\ b = sent' /\ b = Append(a, r)
  OBVIOUS
<1>2. /\ Len(b) = Len(a) + 1 /\ Len(a) \in Nat /\ b[Len(b)] = r
      /\ \A n \in 1 .. Len(a) : b[n] = a[n]
  BY <1>1
<1>3. ASSUME NEW t, IsRunningTotal(t, a)
      PROVE  \E u : IsRunningTotal(u, b)
  <2> DEFINE u == [n \in 0 .. Len(b) |-> IF n = Len(b) THEN t[Len(a)] + r.cap ELSE t[n]]
  <2>1. \A n \in 0 .. Len(a) : t[n] = IF n = 0 THEN 0 ELSE t[n - 1] + a[n].cap
    BY <1>3 DEF IsRunningTotal
  <2>2. ASSUME NEW n \in 0 .. Len(b)
        PROVE  u[n] = IF n = 0 THEN 0 ELSE u[n - 1] + b[n].cap
    <3>1. CASE n = Len(b)
      BY <1>2, <3>1
    <3>2. CASE n # Len(b)
      <4>1. n \in 0 .. Len(a) /\ t[n] = IF n = 0 THEN 0 ELSE t[n - 1] + a[n].cap
        BY <1>2, <2>1, <3>2
      <4> QED BY <1>2, <3>2, <4>1
    <3> QED BY <3>1, <3>2
  <2>3. u = [n \in 0 .. Len(b) |-> IF n = 0 THEN 0 ELSE u[n - 1] + b[n].cap]
    BY <2>2
  <2> QED BY <2>3 DEF IsRunningTotal
<1>4. ASSUME NEW u, IsRunningTotal(u, b)
      PROVE  u[Len(b)] \in Nat /\ Sums(b, u[Len(b)])
  <2> DEFINE t == [n \in 0 .. Len(a) |-> u[n]]
  <2>1. \A n \in 0 .. Len(b) : u[n] = IF n = 0 THEN 0 ELSE u[n - 1] + b[n].cap
    BY <1>4 DEF IsRunningTotal
  <2>2. ASSUME NEW n \in 0 .. Len(a)
        PROVE  t[n] = IF n = 0 THEN 0 ELSE t[n - 1] + a[n].cap
    <3>1. n \in 0 .. Len(b) /\ u[n] = IF n = 0 THEN 0 ELSE u[n - 1] + b[n].cap
      BY <1>2, <2>1
    <3>2. t[n] = u[n] /\ (n # 0 => t[n - 1] = u[n - 1] /\ b[n] = a[n])
      BY <1>2
    <3> QED BY <3>1, <3>2
  <2>3. IsRunningTotal(t, a)
    BY <2>2 DEF IsRunningTotal
  <2>4. u[Len(a)] \in Nat /\ Sums(a, u[Len(a)])
    BY <1>1, <1>2, <2>3 DEF RunningInv
  <2>5. u[Len(b)] = u[Len(a)] + r.cap
    BY <1>2, <2>1
  <2>6. Sums(b, u[Len(a)] + r.cap)
    BY <1>1, <2>4, OneRowMore
  <2>7. r.cap \in Nat
    BY DEF RowType
  <2> QED BY <2>4, <2>5, <2>6, <2>7
<1> QED BY <1>1, <1>3, <1>4 DEF RunningInv

LEMMA RunningStep == TypeInv /\ RunningInv /\ [Next]_vars => RunningInv'
<1> SUFFICES ASSUME TypeInv, RunningInv, [Next]_vars PROVE RunningInv'
  OBVIOUS
<1>1. ASSUME NEW d \in Drivers, Dispatch(d) PROVE RunningInv'
  <2>1. files.state.rows[row[d]] \in RowType /\ sent \in Seq(RowType)
    BY <1>1 DEF Dispatch, TypeInv, TypeOK, DirectoryOK, StateOK, StateType
  <2> QED BY <1>1, <2>1, OneMoreDispatched DEF Dispatch
<1>2. ASSUME sent' = sent PROVE RunningInv'
  BY <1>2 DEF RunningInv
<1>3. ASSUME NEW d \in Drivers, NEW a \in Actions, Begin(d, a) PROVE sent' = sent
  BY <1>3 DEF Begin
<1>4. ASSUME NEW d \in Drivers, Act(d) \/ Save(d) \/ Unlink(d) \/ Return(d) PROVE sent' = sent
  BY <1>4 DEF Act, Save, Unlink, Return
<1>5. PowerFails \/ Elsewhere => sent' = sent
  BY DEF PowerFails, Elsewhere
<1> QED BY Steps, <1>1, <1>2, <1>3, <1>4, <1>5 DEF Working

(* Every unit dispatched is a unit on record, each of them another. *)
LEMMA DispatchedUnits ==
  ASSUME TypeInv, DispatchedIsOnRecord, NeverTwice, ReservedInv, NEW n \in Nat, Sums(sent, n)
  PROVE  n <= SpendLimit
<1> DEFINE rows == files.state.rows
           S == Units(sent)
           T == Units(rows)
           onRecord == [u \in S |-> <<CHOOSE j \in DOMAIN rows : Same(rows[j], sent[u[1]]), u[2]>>]
<1>1. ASSUME NEW u \in S
      PROVE  /\ onRecord[u] \in T /\ onRecord[u][2] = u[2]
             /\ rows[onRecord[u][1]].id = sent[u[1]].id /\ u \in (DOMAIN sent) \X Nat
  <2>1. u[1] \in DOMAIN sent /\ u[2] \in Nat /\ 1 <= u[2] /\ u[2] <= sent[u[1]].cap
        /\ u \in (DOMAIN sent) \X Nat
    BY DEF Units
  <2>2. PICK j : j = onRecord[u][1]
    OBVIOUS
  <2>3. j \in DOMAIN rows /\ Same(rows[j], sent[u[1]])
    BY <2>1, <2>2 DEF DispatchedIsOnRecord, OnRecord
  <2>4. onRecord[u] = <<j, u[2]>>
    BY <2>2
  <2> HIDE DEF onRecord
  <2> QED BY <2>1, <2>3, <2>4 DEF Units, Same
<1>2. onRecord \in Injection(S, T)
  <2>1. onRecord \in [S -> T]
    BY <1>1
  <2>2. ASSUME NEW u \in S, NEW v \in S, onRecord[u] = onRecord[v] PROVE u = v
    <3> HIDE DEF onRecord, S, T
    <3>1. u[2] = v[2] /\ u[1] = v[1] /\ u \in (DOMAIN sent) \X Nat /\ v \in (DOMAIN sent) \X Nat
      BY <1>1, <2>2 DEF NeverTwice
    <3> QED BY <3>1
  <2> HIDE DEF onRecord, S, T
  <2> QED BY <2>1, <2>2 DEF Injection, IsInjective
<1>3. IsFiniteSet(T) /\ Cardinality(T) = files.state.reserved /\ files.state.reserved <= SpendLimit
  BY DEF ReservedInv, Reserved, Sums
<1>4. Cardinality(S) <= Cardinality(T) /\ Cardinality(S) = n
  <2> HIDE DEF onRecord, T
  <2> QED BY <1>2, <1>3, FS_Injection DEF Sums
<1>5. files.state.reserved \in Nat
  BY DEF TypeInv, TypeOK, DirectoryOK, StateOK, StateType
<1> QED BY <1>3, <1>4, <1>5, CampaignAssumption

(* "The conservative sum of all caps" (live_qa_guard.py:250-256, 272-275):    *)
(* over both phases, repairs and crashes the ceilings of what was really      *)
(* dispatched sum up to no more than the campaign may spend.                  *)
THEOREM CeilingsStayWithinThePlan == Spec => []WithinSpend
<1>1. Init => ReservedInv
  <2> SUFFICES ASSUME Init PROVE ReservedInv
    OBVIOUS
  <2>1. Reserved(Fresh)
    BY NothingSumsToZero, CampaignAssumption DEF Fresh, Reserved
  <2> QED BY <2>1 DEF Init, ReservedInv
<1>2. Init => RunningInv
  BY NothingRunsUpToZero DEF Init
<1>3. TypeInv /\ ReservedInv /\ RunningInv /\ DispatchedIsOnRecord /\ NeverTwice => WithinSpend
  <2> SUFFICES ASSUME TypeInv, ReservedInv, RunningInv, DispatchedIsOnRecord, NeverTwice
               PROVE  WithinSpend
    OBVIOUS
  <2>1. IsRunningTotal(CapSum, sent)
    BY DEF RunningInv, IsRunningTotal, CapSum
  <2>2. CapSum[Len(sent)] \in Nat /\ Sums(sent, CapSum[Len(sent)])
    BY <2>1 DEF RunningInv
  <2> QED BY <2>2, DispatchedUnits DEF WithinSpend
<1> QED BY <1>1, <1>2, <1>3, ReservedStep, RunningStep, TypesHold, NothingIsForgotten,
           NoIdentityTwice, PTL DEF Spec
-----------------------------------------------------------------------------
(* The drivers' scripts do with the guard only what QaGuard lets them do:     *)
(* everything proved above holds of a campaign that is run by live_qa.py and  *)
(* live-qa.mjs.                                                               *)
THEOREM ScriptsAreDrivers == LSpec => Spec
<1>1. LInit => Init
  BY DEF LInit
<1>2. [LNext]_lvars => [Next]_vars
  BY DEF LNext, lvars, Next, Starts, Acts, Hears, LosesItsGuard
<1> QED BY <1>1, <1>2, PTL DEF LSpec, Spec

(* A phase that is complete stays so, with the outcome it was recorded with;  *)
(* and the second does not open before.                                       *)
InOrder(s) == s.phase["python"] # "none" => s.phase["typescript"] = "complete"

LEMMA HandlersKeepOutcomes ==
  ASSUME TypeInv, NEW d \in Drivers, Act(d), NEW q \in Phases
  PROVE  /\ op.mem.phase[q] = "complete" =>
              op'.mem.phase[q] = "complete" /\ op'.mem.failed[q] = op.mem.failed[q]
         /\ InOrder(op.mem) => InOrder(op'.mem)
         /\ op.action = "finish" /\ op'.ok => op'.mem.phase[PhaseOf[d]] = "complete"
<1> DEFINE p == PhaseOf[d]
           Kept == op'.mem.phase = op.mem.phase /\ op'.mem.failed = op.mem.failed
<1>1. op \in OpType /\ op.mem \in StateType /\ op # Idle /\ op.by = d /\ p \in Phases
  BY CampaignAssumption DEF TypeInv, TypeOK, StateOK, Act, Idle
<1>2. ASSUME NEW s, Accepts(s) PROVE op'.mem = s
  BY <1>1, <1>2 DEF Accepts, OpType
<1>3. CASE op.action = "claim" /\ Claim(d)
  <2>1. /\ op.mem.phase[p] = "none" /\ op'.mem = [op.mem EXCEPT !.phase[p] = "open"]
        /\ p = "python" => op.mem.phase["typescript"] = "complete"
    BY <1>2, <1>3 DEF Claim, MayClaim
  <2> QED BY <1>1, <1>3, <2>1 DEF StateType, InOrder, Phases
<1>4. CASE op.action = "finish" /\ Finish(d)
  <2>1. PICK fails \in BOOLEAN :
          op'.mem = [op.mem EXCEPT !.phase[p] = "complete", !.failed[p] = fails]
    BY <1>2, <1>4, Zenon DEF Finish
  <2>2. op.mem.phase[p] = "open"
    BY <1>4 DEF Finish, MayFinish, Open
  <2>3. /\ op'.mem.phase = [op.mem.phase EXCEPT ![p] = "complete"]
        /\ op'.mem.failed = [op.mem.failed EXCEPT ![p] = fails]
    BY <1>1, <2>1 DEF StateType
  <2>4. op.mem.phase \in [Phases -> {"none", "open", "complete"}]
        /\ op.mem.failed \in [Phases -> BOOLEAN]
    BY <1>1 DEF StateType
  <2> QED BY <1>1, <2>2, <2>3, <2>4 DEF InOrder, Phases
<1>5. CASE op.action # "finish" /\ Kept
  BY <1>5 DEF InOrder
<1>6. CASE op.action = "finish" /\ Refuse(d)
  <2>1. op'.mem = [op.mem EXCEPT !.halt = TRUE] /\ ~op'.ok
    BY <1>1, <1>6 DEF Refuse, OpType
  <2> QED BY <1>1, <2>1 DEF StateType, InOrder
<1>7. Resume(d) \/ Ready(d) \/ Fault => Kept
  <2>1. ASSUME Resume(d) \/ Ready(d) \/ Fault
        PROVE  op'.mem \in {[op.mem EXCEPT !.halt = FALSE, !.ready[p] = FALSE, !.resumed = TRUE],
                            [op.mem EXCEPT !.ready[p] = TRUE], [op.mem EXCEPT !.halt = TRUE]}
    BY <1>2, <2>1 DEF Resume, Ready, Fault
  <2> QED BY <1>1, <2>1 DEF StateType
<1>8. Admit(d) => Kept
  <2> SUFFICES ASSUME Admit(d) PROVE Kept
    OBVIOUS
  <2>1. PICK k \in Kinds : \E cap \in CapsOf(k), id \in IdentitiesFor(op.mem, p) :
          Accepts(WithRow(op.mem, p, k, cap, id))
    BY Zenon DEF Admit, WithRow
  <2>2. PICK cap \in CapsOf(k), id \in IdentitiesFor(op.mem, p) :
          op'.mem = WithRow(op.mem, p, k, cap, id)
    BY <1>2, <2>1
  <2> QED BY <1>1, <2>2 DEF WithRow, StateType
<1>9. Observe(d) \/ Terminal(d) => Kept
  <2> SUFFICES ASSUME Observe(d) \/ Terminal(d) PROVE Kept
    OBVIOUS
  <2>1. \E x \in {answer[d], "ended"} : op'.mem = [op.mem EXCEPT !.rows[row[d]].seen = x]
    BY <1>2 DEF Observe, Terminal
  <2> QED BY <1>1, <2>1 DEF StateType
<1>10. Refuse(d) => Kept
  <2> SUFFICES ASSUME Refuse(d) PROVE Kept
    OBVIOUS
  <2> DEFINE kept == IF op.action = "observe" /\ op.mem.rows[row[d]].seen = "no"
                     THEN [op.mem EXCEPT !.rows[row[d]].seen = answer[d]] ELSE op.mem
  <2>1. op'.mem = IF op.action \in {"observe", "stream", "finish"}
                  THEN [kept EXCEPT !.halt = TRUE] ELSE op.mem
    BY <1>1 DEF Refuse, OpType
  <2>2. /\ [kept EXCEPT !.halt = TRUE].phase = kept.phase
        /\ [kept EXCEPT !.halt = TRUE].failed = kept.failed
        /\ kept.phase = op.mem.phase /\ kept.failed = op.mem.failed
    BY <1>1 DEF StateType
  <2> HIDE DEF kept
  <2> QED BY <2>1, <2>2
<1> HIDE DEF Kept
<1> QED BY <1>3, <1>4, <1>5, <1>6, <1>7, <1>8, <1>9, <1>10 DEF Act

(* The outcome of a phase, once a driver took it for its exit status, is in   *)
(* every state that is, or may become, state.json.                            *)
Succeeded(s) ==
  InOrder(s) /\ \A d \in zero : s.phase[PhaseOf[d]] = "complete" /\ ~s.failed[PhaseOf[d]]
ExitInv ==
  /\ zero \subseteq Drivers
  /\ Succeeded(files.state) /\ Succeeded(disk.state) /\ (op # Idle => Succeeded(op.mem))
  /\ op # Idle /\ op.action = "finish" /\ op.ok /\ op.stage # "marked" =>
       /\ op.mem.phase[PhaseOf[op.by]] = "complete"
       /\ op.mem.failed[PhaseOf[op.by]] = (op.by \in failed)

LEMMA ExitStep == TypeInv /\ TypeInv' /\ ExitInv /\ [LNext]_lvars => ExitInv'
<1> SUFFICES ASSUME TypeInv, TypeInv', ExitInv, [LNext]_lvars PROVE ExitInv'
  OBVIOUS
<1>0. files \in DirectoryType /\ (op # Idle => op \in OpType)
  BY DEF TypeInv, TypeOK, DirectoryOK
<1>1. ASSUME NEW s, Succeeded(s), zero' = zero PROVE Succeeded(s)'
  BY <1>1 DEF Succeeded, InOrder
<1>2. op' # Idle /\ op'.by = op.by /\ Tally(failed) => (op'.by \in failed' <=> op.by \in failed)
  BY DEF Tally, TypeInv, MemInv
<1>3. ASSUME NEW d \in Drivers, Starts(d) PROVE ExitInv'
  <2>1. PICK a \in Actions : Begin(d, a) /\ zero' = zero
    BY <1>3 DEF Starts
  <2>2. op = Idle /\ files'.state = files.state /\ disk' = disk /\ Succeeded(files.state)
        /\ Succeeded(disk.state)
    BY <1>0, <2>1 DEF Begin, DirectoryType, ExitInv
  <2>3. op' = Idle \/ (op'.stage = "marked" /\ op'.mem = files.state)
    BY <2>1 DEF Begin
  <2>4. Succeeded(files.state)' /\ Succeeded(disk.state)' /\ (op' # Idle => Succeeded(op.mem)')
    BY <2>1, <2>2, <2>3 DEF Succeeded, InOrder
  <2> QED BY <2>1, <2>3, <2>4 DEF ExitInv
<1>4. ASSUME NEW d \in Drivers, Acts(d) PROVE ExitInv'
  <2>1. /\ Act(d) /\ UNCHANGED <<failed, zero>>
        /\ op.action = "finish" /\ op'.ok => op'.mem.failed[PhaseOf[d]] = (d \in failed)
    BY <1>4 DEF Acts, scriptVars
  <2>2. /\ Effect(d) /\ disk' = files /\ files'.state = files.state /\ op # Idle
        /\ op'.by = d /\ op'.action = op.action
    BY <2>1, ActEffect DEF Act, Synced, Idle, Effect
  <2>3. InOrder(op'.mem)
    BY <2>1, <2>2, HandlersKeepOutcomes DEF ExitInv, Succeeded, Phases
  <2>4. ASSUME NEW e \in zero
        PROVE  op'.mem.phase[PhaseOf[e]] = "complete" /\ ~op'.mem.failed[PhaseOf[e]]
    <3>1. /\ PhaseOf[e] \in Phases
          /\ op.mem.phase[PhaseOf[e]] = "complete" /\ ~op.mem.failed[PhaseOf[e]]
      BY <2>2, CampaignAssumption DEF ExitInv, Succeeded
    <3> QED BY <2>1, <3>1, HandlersKeepOutcomes
  <2>5. Succeeded(op.mem)'
    BY <2>1, <2>3, <2>4 DEF Succeeded, InOrder
  <2>6. op.action = "finish" /\ op'.ok => op'.mem.phase[PhaseOf[d]] = "complete"
    BY <2>1, HandlersKeepOutcomes DEF Phases
  <2>7. Succeeded(files.state)' /\ Succeeded(disk.state)'
    BY <2>1, <2>2 DEF ExitInv, Succeeded, InOrder
  <2> QED BY <2>1, <2>2, <2>5, <2>6, <2>7 DEF ExitInv
<1>5. ASSUME NEW d \in Drivers, Hears(d) PROVE ExitInv'
  <2>1. /\ op # Idle /\ op.by = d /\ op.stage = "unlinked" /\ op' = Idle /\ disk' = files
        /\ files' = files /\ zero' = IF ExitsZero(d) THEN zero \cup {d} ELSE zero
    BY <1>5 DEF Hears, Return, Idle, Synced
  <2>2. op.mem = files.state /\ Succeeded(files.state)
    BY <2>1 DEF TypeInv, MemInv, ExitInv
  <2>3. ExitsZero(d) =>
          files.state.phase[PhaseOf[d]] = "complete" /\ ~files.state.failed[PhaseOf[d]]
    BY <2>1, <2>2 DEF ExitsZero, ExitInv
  <2>4. Succeeded(files.state)'
    BY <2>1, <2>2, <2>3 DEF Succeeded, InOrder
  <2>5. Succeeded(disk.state)' /\ zero' \subseteq Drivers
    BY <2>1, <2>4 DEF Succeeded, InOrder, ExitInv
  <2> QED BY <2>1, <2>4, <2>5 DEF ExitInv
<1>6. ASSUME NEW d \in Drivers, Save(d), Tally(failed), zero' = zero PROVE ExitInv'
  <2>1. /\ op # Idle /\ op'.mem = op.mem /\ op'.action = op.action /\ op'.ok = op.ok /\ op'.by = op.by
        /\ op.stage # "marked" /\ files'.state = op.mem /\ disk' = disk /\ op' # Idle
    BY <1>0, <1>6 DEF Save, Goes, Idle, DirectoryType, OpType
  <2>2. Succeeded(files.state)' /\ Succeeded(disk.state)' /\ Succeeded(op.mem)'
    BY <1>6, <2>1 DEF ExitInv, Succeeded, InOrder
  <2> QED BY <1>2, <1>6, <2>1, <2>2 DEF ExitInv
<1>7. ASSUME NEW d \in Drivers, Unlink(d), Tally(failed), zero' = zero PROVE ExitInv'
  <2>1. /\ op # Idle /\ op'.mem = op.mem /\ op'.action = op.action /\ op'.ok = op.ok /\ op'.by = op.by
        /\ op.stage # "marked" /\ files'.state = files.state /\ disk' = files /\ op' # Idle
    BY <1>0, <1>7 DEF Unlink, Goes, Idle, Synced, DirectoryType, OpType
  <2>2. Succeeded(files.state)' /\ Succeeded(disk.state)' /\ Succeeded(op.mem)'
    BY <1>7, <2>1 DEF ExitInv, Succeeded, InOrder
  <2> QED BY <1>2, <1>7, <2>1, <2>2 DEF ExitInv
<1>8. ASSUME PowerFails, zero' = zero PROVE ExitInv'
  <2>1. disk'.state \in {files.state, disk.state} /\ files' = disk' /\ op' = Idle
    BY <1>8 DEF PowerFails, Crash
  <2>2. Succeeded(files.state)' /\ Succeeded(disk.state)'
    BY <1>8, <2>1 DEF ExitInv, Succeeded, InOrder
  <2> QED BY <1>8, <2>1, <2>2 DEF ExitInv
<1>9. ASSUME UNCHANGED <<files, disk, zero>>, op' = Idle \/ (op' = op /\ Tally(failed)) PROVE ExitInv'
  <2>1. Succeeded(files.state)' /\ Succeeded(disk.state)' /\ (op' # Idle => Succeeded(op.mem)')
    BY <1>9 DEF ExitInv, Succeeded, InOrder
  <2> QED BY <1>2, <1>9, <2>1 DEF ExitInv
<1>10. ASSUME NEW d \in Drivers, LosesItsGuard(d) PROVE ExitInv'
  BY <1>9, <1>10 DEF LosesItsGuard, GuardDies, Crash
<1>11. ASSUME NEW d \in Drivers, Tally(failed), zero' = zero,
              DriverDies(d) \/ Leaves(d) \/ Dispatch(d) \/ Answered(d) \/ Lost(d)
       PROVE  ExitInv'
  BY <1>9, <1>11 DEF DriverDies, Leaves, Dispatch, Answered, Lost, Crash
<1>12. ASSUME Settles \/ AuditPasses \/ AuditWrites \/ AuditFails \/ Over,
              Tally(failed), zero' = zero
       PROVE  ExitInv'
  BY <1>9, <1>12 DEF Settles, AuditPasses, AuditWrites, AuditFails, Over, vars
<1>13. CASE UNCHANGED lvars
  BY <1>13 DEF lvars, vars, scriptVars, ExitInv, Succeeded, InOrder
<1> QED BY <1>3, <1>4, <1>5, <1>6, <1>7, <1>8, <1>10, <1>11, <1>12, <1>13 DEF LNext

(* "A non-executing invocation fails" (live-qa.mjs:19-21): when a driver      *)
(* ended with status zero, state.json says, before and after whatever crash,  *)
(* that its phase is complete, that no check of it failed, and that every     *)
(* request of this phase and of the first has an observed outcome.            *)
THEOREM ZeroMeansComplete == LSpec => []ZeroIsEarned
<1>1. LInit => ExitInv
  <2> SUFFICES ASSUME LInit PROVE ExitInv
    OBVIOUS
  <2>1. Succeeded(Fresh)
    BY DEF LInit, Succeeded, InOrder, Fresh, Phases
  <2> QED BY <2>1 DEF LInit, Init, ExitInv
<1>2. Init => CompleteInv
  BY DEF Init, CompleteInv, Completed, Fresh
<1>3. TypeInv /\ CompleteInv /\ ExitInv => ZeroIsEarned
  <2> SUFFICES ASSUME TypeInv, CompleteInv, ExitInv, NEW d \in zero,
                      NEW st \in {files.state, disk.state}
               PROVE  /\ st.phase[PhaseOf[d]] = "complete" /\ ~st.failed[PhaseOf[d]]
                      /\ \A i \in DOMAIN st.rows :
                           st.rows[i].phase \in {PhaseOf[d], "typescript"} =>
                             st.rows[i].seen \notin {"no", "stream"}
    BY DEF ZeroIsEarned
  <2>1. Succeeded(st) /\ Completed(st) /\ PhaseOf[d] \in Phases
    BY CampaignAssumption DEF ExitInv, CompleteInv
  <2>2. st.phase[PhaseOf[d]] = "complete" /\ ~st.failed[PhaseOf[d]]
    BY <2>1 DEF Succeeded
  <2>3. st.phase["typescript"] = "complete"
    BY <2>1, <2>2 DEF Succeeded, InOrder, Phases
  <2> QED BY <2>1, <2>2, <2>3 DEF Completed
<1> QED BY <1>1, <1>2, <1>3, ScriptsAreDrivers, TypesHold, CompleteStep, ExitStep, PTL
        DEF LSpec, Spec
=============================================================================
