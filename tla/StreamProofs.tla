---------------------------- MODULE StreamProofs ----------------------------
(* Proofs about Stream: for every set of scripts the gateway may send.        *)
EXTENDS Stream, TLAPS

-----------------------------------------------------------------------------
(* What is known of a body's frames and of how many a blank line ends. *)
LEMMA WholeBounds ==
  ASSUME script \in Script
  PROVE  /\ Len(frames) \in Nat /\ Whole \in 0 .. Len(frames)
         /\ \A i \in 1 .. Len(frames) : frames[i] \in Kinds
         /\ Whole < Len(frames) => Whole = Len(frames) - 1
  <1>1. frames \in Seq(Kinds) /\ script.terminated \in BOOLEAN
    BY DEF Script, frames
  <1>2. Len(frames) \in Nat /\ (frames # <<>> => Len(frames) >= 1)
    BY <1>1
  <1> QED
    BY <1>1, <1>2 DEF Whole

(* Nobody who is done with a stream is still in front of a frame: a stream    *)
(* that was cancelled before it was begun has no bytes left to deliver.       *)
StoppedInv ==
  /\ told => \/ cancelled
             \/ /\ body \notin {"open", "closed"} /\ pc \notin {"yield", "tail"}
                /\ pc = "got" => result # "data"
  /\ quit => signal \/ told \/ pc = "over"
  /\ released => told \/ pc = "over"

(* Where nothing more is read, the body is closed and read, or torn down.     *)
Drained == body # "open" /\ (body = "closed" => sent = read)
EndInv ==
  /\ pc \in {"tail", "closing", "over"} => Drained
  /\ pc = "got" /\ result = "end" => Drained
  /\ pc = "closing" => body # "closed"
  /\ pc = "over" => released /\ ~armed

(* Why the signal fired, and what a failed read means. *)
CauseInv ==
  /\ why = first
  /\ outcome \in {"caller", "idle"} => outcome = why
  /\ body = "aborted" => signal
  /\ pc = "got" /\ result = "failed" => body \in {"failed", "aborted"}
  /\ outcome = "raw" => body = "failed"

-----------------------------------------------------------------------------
(* The ways out of the frame loop. *)
LEMMA LoopSteps ==
  ASSUME script \in Script, signal \in BOOLEAN, cancelled \in BOOLEAN,
         NEW n \in Nat, NEW r \in Nat, r <= Len(frames), Loop(n, r)
  PROVE  \/ signal /\ Leave(why)
         \/ ~signal /\ cancelled /\ Leave("ok")
         \/ /\ ~signal /\ ~cancelled /\ pc' = "read" /\ next' = r
            /\ \A i \in n + 1 .. r : frames[i] = "noise"
            /\ UNCHANGED <<body, cancelled, outcome, released, yielded>>
         \/ /\ ~signal /\ ~cancelled
            /\ \E i \in n + 1 .. r :
                 /\ \A j \in n + 1 .. i - 1 : frames[j] = "noise"
                 /\ \/ frames[i] = "chunk" /\ Yield(i, "yield")
                    \/ frames[i] = "error" /\ Leave("frame")
                    \/ frames[i] = "done" /\ Leave("ok")
  <1>1. CASE signal
    BY <1>1 DEF Loop, UnlessStopped
  <1>2. CASE ~signal /\ cancelled
    BY <1>2 DEF Loop, UnlessStopped
  <1>3. CASE ~signal /\ ~cancelled
    <2>1. CASE /\ \A i \in n + 1 .. r : frames[i] = "noise"
               /\ pc' = "read" /\ next' = r
               /\ UNCHANGED <<body, cancelled, outcome, released, yielded>>
      BY <1>3, <2>1
    <2>2. ASSUME NEW i \in n + 1 .. r, frames[i] # "noise",
                 \A j \in n + 1 .. i - 1 : frames[j] = "noise", Accept(i, "yield")
          PROVE  \/ frames[i] = "chunk" /\ Yield(i, "yield")
                 \/ frames[i] = "error" /\ Leave("frame")
                 \/ frames[i] = "done" /\ Leave("ok")
      <3>1. i \in 1 .. Len(frames)
        BY WholeBounds
      <3>2. frames[i] \in {"chunk", "error", "done"}
        BY <2>2, <3>1, WholeBounds DEF Kinds
      <3> QED
        BY <2>2, <3>2 DEF Accept
    <2> QED
      BY <1>3, <2>1, <2>2 DEF Loop, UnlessStopped
  <1> QED
    BY <1>1, <1>2, <1>3

(* The script is fixed. *)
LEMMA ScriptStays ==
  ASSUME [Next]_vars
  PROVE  script' = script /\ frames' = frames /\ Whole' = Whole
  <1>1. script' = script
    BY DEF Next, Client, Begin, Resume, ResumeTail, Break, ReadSettles, GotData,
      GotEnd, GotFailure, Closed, StreamCancel, CallerAborts, IdleFires,
      FrameArrives, BodyStops, Over, vars, streamVars
  <1> QED
    BY <1>1 DEF frames, Whole

-----------------------------------------------------------------------------
LEMMA TypeInit == Init => TypeOK
  <1> SUFFICES ASSUME Init PROVE TypeOK
    OBVIOUS
  <1>1. script \in Script
    BY ScriptsAssumption DEF Init
  <1>2. Whole \in Nat /\ Len(frames) \in Nat
    BY <1>1, WholeBounds
  <1>3. quit \in BOOLEAN /\ signal \in BOOLEAN /\ why \in Causes /\ first \in Causes
    BY DEF Init, Causes
  <1>4. /\ sent = 0 /\ read = 0 /\ next = 0 /\ body \in {"open", "none"} /\ yielded = {}
        /\ pc = "unstarted" /\ result = "none" /\ outcome = "none"
    BY DEF Init
  <1>5. cancelled \in BOOLEAN /\ armed \in BOOLEAN /\ released \in BOOLEAN
        /\ told \in BOOLEAN /\ heard \in BOOLEAN
    BY DEF Init
  <1> QED
    BY <1>1, <1>2, <1>3, <1>4, <1>5 DEF TypeOK, Outcomes

LEMMA TypeStep == TypeOK /\ [Next]_vars => TypeOK'
  <1> SUFFICES ASSUME TypeOK, [Next]_vars PROVE TypeOK'
    OBVIOUS
  <1>s. script' = script /\ frames' = frames /\ Whole' = Whole
    BY ScriptStays
  <1>w. Len(frames) \in Nat /\ Whole \in 0 .. Len(frames)
    BY WholeBounds DEF TypeOK
  <1> USE DEF TypeOK
  <1> DEFINE IteratorTyped ==
         /\ pc' \in {"read", "closing", "yield"} /\ next' \in 0 .. Len(frames)
         /\ cancelled' \in BOOLEAN /\ outcome' \in Outcomes /\ released' \in BOOLEAN
         /\ yielded' \in SUBSET (1 .. Len(frames))
         /\ body' \in {"none", "open", "closed", "failed", "aborted", "cancelled"}
  <1>l. ASSUME NEW n \in Nat, NEW r \in Nat, r <= Len(frames), Loop(n, r)
        PROVE  IteratorTyped
    <2>1. ASSUME Leave(why) \/ Leave("ok") \/ Leave("frame") PROVE IteratorTyped
      BY <2>1 DEF Leave, Drop, Causes, Outcomes
    <2>2. ASSUME pc' = "read", next' = r,
                 UNCHANGED <<body, cancelled, outcome, released, yielded>>
          PROVE  IteratorTyped
      BY <1>l, <2>2
    <2>3. ASSUME NEW i \in n + 1 .. r, Yield(i, "yield") PROVE IteratorTyped
      BY <1>l, <1>w, <2>3 DEF Yield
    <2> HIDE DEF IteratorTyped
    <2> QED
      BY <1>l, <2>1, <2>2, <2>3, LoopSteps
  <1>1. CASE Begin
    <2>1. CASE Finish
      BY <1>1, <1>s, <1>w, <2>1 DEF Begin, Finish, Release, Outcomes
    <2>2. CASE Loop(0, 0) /\ UNCHANGED <<armed, heard>>
      <3>1. IteratorTyped
        BY <1>w, <1>l, <2>2
      <3> QED
        BY <1>1, <1>s, <2>2, <3>1 DEF Begin
    <2> QED
      BY <1>1, <2>1, <2>2 DEF Begin
  <1>2. CASE Resume
    BY <1>2, <1>s, <1>l, <1>w DEF Resume
  <1>3. CASE ResumeTail \/ Break
    BY ZenonT(30), <1>3, <1>s, <1>w DEF ResumeTail, Break, Finish, Release, Leave, Drop, Outcomes
  <1>4. CASE ReadSettles
    <2>1. result' \in {"data", "end", "failed"}
      BY <1>4 DEF ReadSettles
    <2> QED
      BY <1>4, <1>s, <1>w, <2>1 DEF ReadSettles, streamVars, leaseVars, history
  <1>14. CASE Closed
    BY <1>14, <1>s, <1>w DEF Closed, Release, streamVars, history
  <1>5. CASE GotData
    <2>1. PICK r \in read + 1 .. sent : read' = r /\ Loop(next, r)
      BY <1>5 DEF GotData
    <2>2. armed' \in BOOLEAN /\ heard' \in BOOLEAN
      BY <1>5 DEF GotData, Touch
    <2> QED
      BY <1>5, <1>s, <1>l, <1>w, <2>1, <2>2 DEF GotData
  <1>6. CASE GotEnd
    <2>1. CASE Finish
      BY <1>6, <1>s, <1>w, <2>1 DEF GotEnd, Finish, Release, Outcomes
    <2>2. CASE (\/ Leave(why) \/ Leave("ok")) /\ UNCHANGED <<armed, heard>>
      BY ZenonT(30), <1>6, <1>s, <1>w, <2>2 DEF GotEnd, Leave, Drop, Outcomes, Causes
    <2>3. ASSUME NEW i \in Last, Accept(i, "tail"), UNCHANGED <<armed, heard>>
          PROVE  TypeOK'
      <3>1. i \in 1 .. Len(frames)
        BY <1>w DEF Last
      <3>2. Yield(i, "tail") \/ Leave("frame") \/ Leave("ok")
        BY <2>3 DEF Accept
      <3>3. CASE Yield(i, "tail")
        BY <1>6, <1>s, <1>w, <2>3, <3>1, <3>3 DEF GotEnd, Yield
      <3>4. CASE Leave("frame") \/ Leave("ok")
        BY <1>6, <1>s, <1>w, <2>3, <3>4 DEF GotEnd, Leave, Drop, Outcomes
      <3> QED
        BY <3>2, <3>3, <3>4
    <2> QED
      BY <1>6, <2>1, <2>2, <2>3 DEF GotEnd, UnlessStopped
  <1>7. CASE GotFailure
    BY <1>7, <1>s, <1>w DEF GotFailure, Leave, Drop, Outcomes, Causes
  <1>8. CASE StreamCancel
    BY <1>8, <1>s, <1>w DEF StreamCancel, Release, Drop
  <1>a. ASSUME NEW cause \in {"caller", "idle"}, Abort(cause)
        PROVE  /\ signal' \in BOOLEAN /\ why' \in Causes /\ first' \in Causes
               /\ cancelled' \in BOOLEAN
               /\ body' \in {"none", "open", "closed", "failed", "aborted", "cancelled"}
    BY <1>a DEF Abort, Cause, Causes, Listening
  <1>9. CASE CallerAborts
    <2>1. CASE released
      BY <1>9, <1>s, <1>w, <2>1 DEF CallerAborts
    <2>2. CASE ~released
      BY <1>9, <1>a, <1>s, <1>w, <2>2 DEF CallerAborts
    <2> QED
      BY <2>1, <2>2
  <1>15. CASE IdleFires
    BY <1>15, <1>a, <1>s, <1>w DEF IdleFires
  <1>10. CASE FrameArrives
    BY <1>10, <1>s, <1>w DEF FrameArrives, iterVars, leaseVars
  <1>12. CASE BodyStops
    <2>1. body' \in {"failed", "closed"}
      BY <1>12 DEF BodyStops
    <2> QED
      BY <1>12, <1>s, <1>w, <2>1 DEF BodyStops, iterVars, leaseVars, history
  <1>11. CASE UNCHANGED vars
    BY <1>11, <1>s DEF vars, streamVars, iterVars, leaseVars, history
  <1>13. CASE Over
    BY <1>11, <1>13 DEF Over
  <1> QED
    BY <1>1, <1>2, <1>3, <1>4, <1>5, <1>6, <1>7, <1>8, <1>9, <1>10, <1>11, <1>12,
      <1>13, <1>14, <1>15 DEF Next, Client

(* Every variable of a stream keeps its type, for every script.               *)
THEOREM TypeCorrect == Spec => []TypeOK
  <1> QED
    BY TypeInit, TypeStep, PTL DEF Spec

-----------------------------------------------------------------------------
(* What an abort leaves alone, and what it does to the body. *)
LEMMA AbortSteps ==
  ASSUME TypeOK, NEW cause \in {"caller", "idle"}, Abort(cause)
  PROVE  /\ signal' /\ (why # "none" => why' = why)
         /\ why = first => why' = first'
         /\ body' # body => body \in {"open", "closed"} /\ body' \in {"aborted", "cancelled"}
         /\ cancelled => cancelled'
  <1>1. signal' /\ (why # "none" => why' = why) /\ (why = first => why' = first')
    BY DEF Abort, Cause
  <1>2. /\ body' # body => body \in {"open", "closed"} /\ body' \in {"aborted", "cancelled"}
        /\ cancelled => cancelled'
    BY DEF Abort
  <1> QED
    BY <1>1, <1>2

LEMMA LeaveSteps ==
  ASSUME NEW o, Leave(o)
  PROVE  /\ pc' = "closing" /\ outcome' = o /\ cancelled' /\ body' \notin {"open", "closed"}
         /\ body \notin {"open", "closed"} => body' = body
         /\ body \in {"open", "closed"} => body' = "cancelled"
         /\ next' = next /\ yielded' = yielded /\ released' = released
  BY DEF Leave, Drop

LEMMA CauseInit == Init => CauseInv
  BY DEF Init, CauseInv

LEMMA CauseStep == TypeOK /\ CauseInv /\ [Next]_vars => CauseInv'
  <1> SUFFICES ASSUME TypeOK, CauseInv, [Next]_vars PROVE CauseInv'
    OBVIOUS
  <1> USE DEF CauseInv
  <1>t. /\ script \in Script /\ signal \in BOOLEAN /\ cancelled \in BOOLEAN /\ why \in Causes
        /\ Len(frames) \in Nat /\ next \in 0 .. Len(frames) /\ sent \in 0 .. Len(frames)
        /\ read \in 0 .. sent
    BY WholeBounds DEF TypeOK
  <1>v. ASSUME NEW o, Leave(o), UNCHANGED <<signal, why, first>>,
               o = why \/ o \notin {"caller", "idle"}, o = "raw" => body = "failed"
        PROVE  CauseInv'
    BY <1>v, LeaveSteps
  <1>l. ASSUME NEW n \in Nat, NEW r \in Nat, r <= Len(frames), Loop(n, r),
               UNCHANGED <<signal, why, first>>
        PROVE  CauseInv'
    <2>1. CASE Leave(why) \/ Leave("ok") \/ Leave("frame")
      <3>1. why # "raw"
        BY <1>t DEF Causes
      <3> QED
        BY <1>l, <1>v, <2>1, <3>1
    <2>2. CASE pc' = "read" /\ UNCHANGED <<body, outcome>>
      BY <1>l, <2>2
    <2>3. ASSUME NEW i \in n + 1 .. r, Yield(i, "yield") PROVE CauseInv'
      BY <1>l, <2>3 DEF Yield
    <2> QED
      BY <1>l, <1>t, <2>1, <2>2, <2>3, LoopSteps
  <1>1. CASE Begin
    <2>1. CASE Finish
      BY <1>1, <2>1 DEF Begin, Finish
    <2>2. CASE Loop(0, 0)
      BY <1>1, <1>l, <1>t, <2>2 DEF Begin
    <2> QED
      BY <1>1, <2>1, <2>2 DEF Begin
  <1>2. CASE Resume
    BY <1>2, <1>l, <1>t DEF Resume
  <1>3. CASE ResumeTail
    BY <1>3 DEF ResumeTail, Finish
  <1>4. CASE Break
    BY <1>4, <1>v DEF Break
  <1>5. CASE ReadSettles
    BY <1>5 DEF ReadSettles, streamVars, leaseVars, history
  <1>6. CASE GotData
    BY <1>6, <1>l, <1>t DEF GotData
  <1>7. CASE GotEnd
    <2>1. CASE Finish
      BY <1>7, <2>1 DEF GotEnd, Finish
    <2>2. CASE Leave(why) \/ Leave("ok") \/ Leave("frame")
      <3>1. why # "raw"
        BY <1>t DEF Causes
      <3> QED
        BY <1>7, <1>v, <2>2, <3>1 DEF GotEnd
    <2>3. ASSUME NEW i, Yield(i, "tail") PROVE CauseInv'
      BY <1>7, <2>3 DEF GotEnd, Yield
    <2> QED
      BY <1>7, <2>1, <2>2, <2>3 DEF GotEnd, UnlessStopped, Accept
  <1>8. CASE GotFailure
    <2>1. ASSUME signal PROVE CauseInv'
      <3>1. why # "raw"
        BY <1>t DEF Causes
      <3> QED
        BY <1>8, <1>v, <2>1, <3>1 DEF GotFailure
    <2>2. ASSUME ~signal PROVE CauseInv'
      BY <1>8, <1>v, <2>2 DEF GotFailure
    <2> QED
      BY <2>1, <2>2
  <1>9. CASE Closed
    BY <1>9 DEF Closed, streamVars, history
  <1>10. CASE StreamCancel
    BY <1>10 DEF StreamCancel, Drop
  <1>11. CASE CallerAborts
    <2>1. CASE released
      BY <1>11, <2>1 DEF CallerAborts
    <2>2. CASE ~released
      BY <1>11, <2>2, AbortSteps DEF CallerAborts
    <2> QED
      BY <2>1, <2>2
  <1>12. CASE IdleFires
    BY <1>12, AbortSteps DEF IdleFires
  <1>13. CASE FrameArrives \/ BodyStops
    BY <1>13 DEF FrameArrives, BodyStops, iterVars, leaseVars, history
  <1>14. CASE UNCHANGED vars
    BY <1>14 DEF vars, streamVars, iterVars, leaseVars, history
  <1>15. CASE Over
    BY <1>14, <1>15 DEF Over
  <1> QED
    BY <1>1, <1>2, <1>3, <1>4, <1>5, <1>6, <1>7, <1>8, <1>9, <1>10, <1>11, <1>12,
      <1>13, <1>14, <1>15 DEF Next, Client

(* The error names what ended the stream: leaseStream's `why ??= cause`, and  *)
(* the catch around reader.read().                                            *)
THEOREM TheErrorNamesTheCause == Spec => []ErrorNamesTheCause
  <1>1. CauseInv => ErrorNamesTheCause
    BY DEF CauseInv, ErrorNamesTheCause
  <1> QED
    BY TypeInit, TypeStep, CauseInit, CauseStep, <1>1, PTL DEF Spec

-----------------------------------------------------------------------------
LEMMA EndInit == Init => EndInv
  BY DEF Init, EndInv, Drained

LEMMA EndStep == TypeOK /\ EndInv /\ [Next]_vars => EndInv'
  <1> SUFFICES ASSUME TypeOK, EndInv, [Next]_vars PROVE EndInv'
    OBVIOUS
  <1> USE DEF EndInv, Drained
  <1>t. /\ script \in Script /\ signal \in BOOLEAN /\ cancelled \in BOOLEAN
        /\ Len(frames) \in Nat /\ next \in 0 .. Len(frames) /\ sent \in 0 .. Len(frames)
        /\ read \in 0 .. sent
    BY WholeBounds DEF TypeOK
  <1>v. ASSUME NEW o, Leave(o) PROVE EndInv'
    BY <1>v, LeaveSteps
  <1>l. ASSUME NEW n \in Nat, NEW r \in Nat, r <= Len(frames), Loop(n, r) PROVE EndInv'
    <2>1. CASE Leave(why) \/ Leave("ok") \/ Leave("frame")
      BY <1>v, <2>1
    <2>2. CASE pc' \in {"read", "yield"}
      BY <2>2
    <2> QED
      BY <1>l, <1>t, <2>1, <2>2, LoopSteps DEF Yield
  <1>1. CASE Begin
    <2>1. CASE body = "none" /\ Finish
      BY <1>1, <2>1 DEF Begin, Finish, Release
    <2>2. CASE Loop(0, 0)
      BY <1>1, <1>l, <1>t, <2>2 DEF Begin
    <2> QED
      BY <1>1, <2>1, <2>2 DEF Begin
  <1>2. CASE Resume
    BY <1>2, <1>l, <1>t DEF Resume
  <1>3. CASE ResumeTail
    BY <1>3 DEF ResumeTail, Finish, Release
  <1>4. CASE Break \/ GotFailure
    BY <1>4, <1>v DEF Break, GotFailure
  <1>5. CASE ReadSettles
    BY <1>5 DEF ReadSettles, streamVars
  <1>6. CASE GotData
    BY <1>6, <1>l, <1>t DEF GotData
  <1>7. CASE GotEnd
    <2>1. CASE Finish
      BY <1>7, <2>1 DEF GotEnd, Finish, Release
    <2>2. CASE Leave(why) \/ Leave("ok") \/ Leave("frame")
      BY <1>v, <2>2
    <2>3. ASSUME NEW i, Yield(i, "tail") PROVE EndInv'
      BY <1>7, <2>3 DEF GotEnd, Yield
    <2> QED
      BY <1>7, <2>1, <2>2, <2>3 DEF GotEnd, UnlessStopped, Accept
  <1>8. CASE Closed
    BY <1>8 DEF Closed, Release, streamVars
  <1>9. CASE StreamCancel
    BY <1>9 DEF StreamCancel, Drop, Release
  <1>10. CASE CallerAborts
    <2>1. CASE released
      BY <1>10, <2>1 DEF CallerAborts
    <2>2. CASE ~released
      BY <1>10, <2>2, AbortSteps DEF CallerAborts
    <2> QED
      BY <2>1, <2>2
  <1>11. CASE IdleFires
    BY <1>11, AbortSteps DEF IdleFires
  <1>12. CASE FrameArrives \/ BodyStops
    BY <1>12 DEF FrameArrives, BodyStops, iterVars, leaseVars
  <1>13. CASE UNCHANGED vars
    BY <1>13 DEF vars, streamVars, iterVars, leaseVars
  <1>14. CASE Over
    BY <1>13, <1>14 DEF Over
  <1> QED
    BY <1>1, <1>2, <1>3, <1>4, <1>5, <1>6, <1>7, <1>8, <1>9, <1>10, <1>11, <1>12,
      <1>13, <1>14 DEF Next, Client

(* However the iterator ends, its finally leaves no body open or unread and   *)
(* no clock running.                                                          *)
THEOREM NothingStaysOpen == Spec => []NothingIsLeftOpen
  <1>1. EndInv => NothingIsLeftOpen
    BY DEF EndInv, Drained, NothingIsLeftOpen
  <1> QED
    BY TypeInit, TypeStep, EndInit, EndStep, <1>1, PTL DEF Spec

-----------------------------------------------------------------------------
LEMMA StoppedInit == Init => StoppedInv
  BY DEF Init, StoppedInv

LEMMA StoppedStep == TypeOK /\ StoppedInv /\ [Next]_vars => StoppedInv'
  <1> SUFFICES ASSUME TypeOK, StoppedInv, [Next]_vars PROVE StoppedInv'
    OBVIOUS
  <1> USE DEF StoppedInv
  <1>t. /\ script \in Script /\ signal \in BOOLEAN /\ cancelled \in BOOLEAN
        /\ Len(frames) \in Nat /\ next \in 0 .. Len(frames) /\ sent \in 0 .. Len(frames)
        /\ read \in 0 .. sent
    BY WholeBounds DEF TypeOK
  <1>v. ASSUME NEW o, Leave(o), pc # "over", UNCHANGED <<signal, quit, told>> PROVE StoppedInv'
    BY <1>v, LeaveSteps
  <1>l. ASSUME NEW n \in Nat, NEW r \in Nat, r <= Len(frames), Loop(n, r),
               told => cancelled \/ (body \notin {"open", "closed"} /\ r = 0),
               pc # "over", UNCHANGED <<signal, quit, told>>
        PROVE  StoppedInv'
    <2>1. CASE Leave(why) \/ Leave("ok") \/ Leave("frame")
      BY <1>l, <1>v, <2>1
    <2>2. CASE ~cancelled /\ pc' = "read" /\ UNCHANGED <<body, cancelled, released>>
      BY <1>l, <2>2
    <2>3. ASSUME ~cancelled, NEW i \in n + 1 .. r, Yield(i, "yield") PROVE StoppedInv'
      <3>1. ~told
        BY <1>l, <2>3
      <3> QED
        BY <1>l, <2>3, <3>1 DEF Yield
    <2> QED
      BY <1>l, <1>t, <2>1, <2>2, <2>3, LoopSteps
  <1>1. CASE Begin
    <2>1. CASE Finish
      BY <1>1, <2>1 DEF Begin, Finish, Release
    <2>2. CASE Loop(0, 0)
      BY <1>1, <1>l, <1>t, <2>2 DEF Begin
    <2> QED
      BY <1>1, <2>1, <2>2 DEF Begin
  <1>2. CASE Resume
    BY <1>2, <1>l, <1>t DEF Resume
  <1>3. CASE ResumeTail
    BY <1>3 DEF ResumeTail, Finish, Release
  <1>4. CASE Break \/ GotFailure
    BY <1>4, <1>v DEF Break, GotFailure
  <1>5. CASE ReadSettles
    BY <1>5 DEF ReadSettles, streamVars, leaseVars, history
  <1>6. CASE GotData
    BY <1>6, <1>l, <1>t DEF GotData
  <1>7. CASE GotEnd
    <2>1. CASE Finish
      BY <1>7, <2>1 DEF GotEnd, Finish, Release
    <2>2. CASE Leave(why) \/ Leave("ok") \/ Leave("frame")
      BY <1>7, <1>v, <2>2 DEF GotEnd
    <2>3. ASSUME ~cancelled, NEW i \in Last, Yield(i, "tail") PROVE StoppedInv'
      BY <1>7, <2>3 DEF GotEnd, Yield, Last
    <2> QED
      BY <1>7, <2>1, <2>2, <2>3 DEF GotEnd, UnlessStopped, Accept
  <1>8. CASE Closed
    BY <1>8 DEF Closed, streamVars, history
  <1>9. CASE StreamCancel
    BY <1>9 DEF StreamCancel, Drop
  <1>10. CASE CallerAborts
    <2>1. CASE released
      BY <1>10, <2>1 DEF CallerAborts
    <2>2. CASE ~released
      BY <1>10, <2>2, AbortSteps DEF CallerAborts
    <2> QED
      BY <2>1, <2>2
  <1>11. CASE IdleFires
    BY <1>11, AbortSteps DEF IdleFires
  <1>12. CASE FrameArrives \/ BodyStops
    BY <1>12 DEF FrameArrives, BodyStops, iterVars, leaseVars, history
  <1>13. CASE UNCHANGED vars
    BY <1>13 DEF vars, streamVars, iterVars, leaseVars, history
  <1>14. CASE Over
    BY <1>13, <1>14 DEF Over
  <1> QED
    BY <1>1, <1>2, <1>3, <1>4, <1>5, <1>6, <1>7, <1>8, <1>9, <1>10, <1>11, <1>12,
      <1>13, <1>14 DEF Next, Client

(* After an abort, a cancel() or the clock no chunk is handed out: the checks *)
(* of makeStream before each read, after it and before each buffered frame.   *)
THEOREM NothingAfterAStop == Spec => StopsAtOnce
  <1>1. TypeOK /\ StoppedInv /\ [Next]_vars
        => [quit \/ told \/ signal => yielded' = yielded]_vars
    <2> SUFFICES ASSUME TypeOK, StoppedInv, Next, quit \/ told \/ signal
                 PROVE  yielded' = yielded
      OBVIOUS
    <2>t. /\ script \in Script /\ signal \in BOOLEAN /\ cancelled \in BOOLEAN
          /\ Len(frames) \in Nat /\ next \in 0 .. Len(frames) /\ sent \in 0 .. Len(frames)
          /\ read \in 0 .. sent
      BY WholeBounds DEF TypeOK
    <2>l. ASSUME NEW n \in Nat, NEW r \in Nat, r <= Len(frames), Loop(n, r),
                 signal \/ cancelled \/ r = 0
          PROVE  yielded' = yielded
      <3>1. CASE yielded' = yielded
        BY <3>1
      <3>2. ASSUME NEW i \in n + 1 .. r, ~signal, ~cancelled PROVE yielded' = yielded
        BY <2>l, <3>2
      <3> QED
        BY <2>l, <2>t, <3>1, <3>2, LoopSteps DEF Leave
    <2>1. CASE Begin
      BY <2>1, <2>l, <2>t DEF Begin, Finish
    <2>2. CASE Resume
      BY <2>2, <2>l, <2>t DEF Resume, StoppedInv
    <2>3. CASE GotData
      BY <2>3, <2>l, <2>t DEF GotData, StoppedInv
    <2>4. CASE GotEnd
      BY <2>4 DEF GotEnd, StoppedInv, UnlessStopped, Finish, Leave, Last
    <2>5. CASE Break \/ GotFailure \/ ResumeTail
      BY <2>5 DEF Break, GotFailure, ResumeTail, Leave, Finish
    <2>6. CASE ReadSettles \/ Closed \/ BodyStops
      BY <2>6 DEF ReadSettles, Closed, BodyStops, history
    <2>7. CASE StreamCancel \/ CallerAborts \/ IdleFires \/ FrameArrives
      BY <2>7 DEF StreamCancel, CallerAborts, IdleFires, FrameArrives
    <2>8. CASE Over
      BY <2>8 DEF Over, vars, history
    <2> QED
      BY <2>1, <2>2, <2>3, <2>4, <2>5, <2>6, <2>7, <2>8 DEF Next, Client
  <1> QED
    BY TypeInit, TypeStep, StoppedInit, StoppedStep, <1>1, PTL DEF Spec, StopsAtOnce

-----------------------------------------------------------------------------
(* While the iterator runs it has handed out the chunks among the frames it   *)
(* consumed and met nothing that ends the loop; where it is done it has met   *)
(* the end, unless somebody stopped it.                                       *)
Running == pc \in {"read", "got", "yield", "tail"}
Chunks(n) == {i \in 1 .. n : frames[i] = "chunk"}
DeliveredInv ==
  /\ pc = "unstarted" => next = 0 /\ yielded = {} /\ read = 0
  /\ pc \in {"read", "got"} => next = read
  /\ pc = "yield" => next <= read
  /\ pc = "tail" => next = Len(frames)
  /\ Running => /\ yielded = Chunks(next) /\ outcome = "none"
                /\ \A i \in 1 .. next : frames[i] \in {"chunk", "noise"}
  /\ pc = "unstarted" => outcome = "none"
  /\ cancelled \/ body = "cancelled" =>
       told \/ signal \/ pc \in {"closing", "over"}
  /\ body = "closed" => sent = Whole
  /\ body = "none" => pc \in {"unstarted", "over"}
  /\ pc = "got" /\ result = "end" => body \in {"closed", "cancelled", "aborted"}
  /\ NormalEndIsWhole

LEMMA ChunksGrow ==
  ASSUME NEW n \in Nat, NEW r \in Nat, n <= r, \A j \in n + 1 .. r : frames[j] = "noise"
  PROVE  Chunks(r) = Chunks(n)
  BY DEF Chunks

LEMMA ChunksAdd ==
  ASSUME NEW n \in Nat, NEW i \in Nat, n < i, frames[i] = "chunk",
         \A j \in n + 1 .. i - 1 : frames[j] = "noise"
  PROVE  Chunks(i) = Chunks(n) \cup {i}
  BY DEF Chunks

(* The loop that met [DONE], or the end of the body, has handed out all there *)
(* was to hand out.                                                           *)
LEMMA AllDelivered ==
  ASSUME script \in Script, NEW n \in 0 .. Len(frames),
         \A j \in 1 .. n : frames[j] \in {"chunk", "noise"},
         \/ n = Len(frames)
         \/ n + 1 = Len(frames) /\ frames[Len(frames)] # "chunk"
         \/ \E i \in n + 1 .. Len(frames) :
              frames[i] = "done" /\ \A j \in n + 1 .. i - 1 : frames[j] = "noise"
  PROVE  Chunks(n) = Deliverable
  <1>t. Len(frames) \in Nat
    BY WholeBounds
  <1>1. \A j \in Chunks(n) : j \in Deliverable
    BY <1>t DEF Chunks, Deliverable
  <1>2. ASSUME NEW j \in Deliverable PROVE j \in Chunks(n)
    <2>1. j \in 1 .. Len(frames) /\ frames[j] = "chunk" /\ \A k \in 1 .. j - 1 : frames[k] # "done"
      BY DEF Deliverable
    <2>2. j <= n
      BY <1>t, <2>1
    <2> QED
      BY <1>t, <2>1, <2>2 DEF Chunks
  <1> QED
    BY <1>1, <1>2 DEF Chunks, Deliverable

LEMMA DeliveredInit == Init => DeliveredInv
  BY DEF Init, DeliveredInv, Running, NormalEndIsWhole

LEMMA DeliveredStep ==
  TypeOK /\ CauseInv /\ EndInv /\ DeliveredInv /\ [Next]_vars => DeliveredInv'
  <1> SUFFICES ASSUME TypeOK, CauseInv, EndInv, DeliveredInv, [Next]_vars PROVE DeliveredInv'
    OBVIOUS
  <1>t. /\ script \in Script /\ signal \in BOOLEAN /\ cancelled \in BOOLEAN
        /\ Len(frames) \in Nat /\ next \in 0 .. Len(frames) /\ sent \in 0 .. Len(frames)
        /\ read \in 0 .. sent /\ Whole \in 0 .. Len(frames) /\ why # "ok"
    BY WholeBounds DEF TypeOK, Causes
  <1>s. /\ script' = script /\ frames' = frames /\ Whole' = Whole
        /\ Deliverable' = Deliverable
    <2>1. script' = script /\ frames' = frames /\ Whole' = Whole
      BY ScriptStays
    <2> QED
      BY <2>1 DEF Deliverable
  <1>c. Chunks(next)' = Chunks(next')
    BY <1>s DEF Chunks
  <1> USE DEF DeliveredInv, Running
  (* Leaving the loop: normally only when told to, or with everything handed out. *)
  <1>v. ASSUME NEW o, Leave(o), body # "none", UNCHANGED <<sent, told>>,
               o = "ok" => told \/ yielded = Deliverable
        PROVE  DeliveredInv'
    BY <1>v, <1>s, LeaveSteps DEF NormalEndIsWhole
  <1>l. ASSUME NEW n \in Nat, NEW r \in Nat, n <= r, r <= Len(frames), Loop(n, r),
               yielded = Chunks(n), outcome = "none", body # "none",
               \A j \in 1 .. n : frames[j] \in {"chunk", "noise"},
               cancelled \/ body = "cancelled" => told \/ signal,
               read' = r, UNCHANGED <<sent, told, signal>>
        PROVE  DeliveredInv'
    <2>1. CASE signal /\ Leave(why)
      BY <1>t, <1>v, <1>l, <2>1
    <2>2. CASE ~signal /\ cancelled /\ Leave("ok")
      BY <1>v, <1>l, <2>2
    <2>3. CASE /\ pc' = "read" /\ next' = r
               /\ \A i \in n + 1 .. r : frames[i] = "noise"
               /\ UNCHANGED <<body, cancelled, outcome, released, yielded>>
      <3>1. yielded' = Chunks(next)' /\ \A j \in 1 .. r : frames'[j] \in {"chunk", "noise"}
        BY <1>l, <1>s, <1>c, <2>3, ChunksGrow
      <3> QED
        BY <1>l, <1>s, <2>3, <3>1 DEF NormalEndIsWhole
    <2>4. ASSUME NEW i \in n + 1 .. r, \A j \in n + 1 .. i - 1 : frames[j] = "noise",
                 frames[i] = "chunk", Yield(i, "yield")
          PROVE  DeliveredInv'
      <3>1. Chunks(i) = Chunks(n) \cup {i} /\ i \in Nat
        BY <1>l, <2>4, ChunksAdd
      <3>2. yielded' = Chunks(next)' /\ \A j \in 1 .. i : frames'[j] \in {"chunk", "noise"}
        BY <1>l, <1>s, <1>c, <2>4, <3>1 DEF Yield
      <3> QED
        BY <1>l, <1>s, <2>4, <3>2 DEF NormalEndIsWhole, Yield
    <2>5. CASE Leave("frame")
      BY <1>v, <1>l, <2>5
    <2>6. ASSUME NEW i \in n + 1 .. r, \A j \in n + 1 .. i - 1 : frames[j] = "noise",
                 frames[i] = "done", Leave("ok")
          PROVE  DeliveredInv'
      <3>1. yielded = Deliverable
        BY SMTT(20), <1>l, <1>t, <2>6, AllDelivered
      <3> QED
        BY <1>v, <1>l, <2>6, <3>1
    <2> QED
      BY <1>l, <1>t, <2>1, <2>2, <2>3, <2>4, <2>5, <2>6, LoopSteps
  <1>1. CASE Begin
    <2>1. CASE body = "none" /\ Finish
      BY <1>1, <1>s, <2>1 DEF Begin, Finish, NormalEndIsWhole
    <2>2. CASE body # "none" /\ Loop(0, 0)
      <3>1. Chunks(0) = {}
        BY DEF Chunks
      <3> QED
        BY <1>1, <1>l, <1>t, <2>2, <3>1 DEF Begin
    <2> QED
      BY <1>1, <2>1, <2>2 DEF Begin
  <1>2. CASE Resume
    BY <1>2, <1>l, <1>t DEF Resume
  <1>3. CASE ResumeTail
    <2>1. yielded = Deliverable
      BY <1>3, <1>t, AllDelivered DEF ResumeTail
    <2> QED
      BY <1>3, <1>s, <2>1 DEF ResumeTail, Finish, NormalEndIsWhole
  <1>4. CASE Break
    BY <1>4, <1>v DEF Break
  <1>5. CASE ReadSettles
    BY <1>5, <1>s, <1>c, <1>t DEF ReadSettles, streamVars, leaseVars, history, NormalEndIsWhole
  <1>6. CASE GotData
    BY <1>6, <1>l, <1>t DEF GotData
  <1>7. CASE GotEnd
    <2>1. CASE ~signal /\ ~cancelled /\ Last = {} /\ Finish
      <3>1. told \/ body = "closed"
        BY <1>7, <2>1 DEF GotEnd, CauseInv
      <3>2. ASSUME body = "closed" PROVE yielded = Deliverable
        <4>1. next = Whole
          BY <1>7, <1>t, <3>2 DEF GotEnd, EndInv, Drained
        <4>2. \/ Whole = Len(frames)
              \/ Whole + 1 = Len(frames) /\ frames[Len(frames)] # "chunk"
          BY <1>t, <2>1, <3>2, WholeBounds DEF Last
        <4> QED
          BY <1>7, <1>t, <4>1, <4>2, AllDelivered DEF GotEnd
      <3> QED
        BY <1>7, <1>s, <2>1, <3>1, <3>2 DEF GotEnd, Finish, NormalEndIsWhole
    <2>2. CASE signal /\ Leave(why)
      BY <1>7, <1>v, <1>t, <2>2 DEF GotEnd
    <2>3. CASE ~signal /\ cancelled /\ Leave("ok")
      BY <1>7, <1>v, <2>3 DEF GotEnd
    <2>4. ASSUME ~signal, ~cancelled, NEW i \in Last, Accept(i, "tail") PROVE DeliveredInv'
      <3>1. /\ body = "closed" /\ i = Len(frames) /\ i = Whole + 1
            /\ frames[i] \in {"chunk", "error"}
        BY <1>t, <2>4, WholeBounds DEF Last
      <3>2. next = Whole
        BY <1>7, <1>t, <3>1 DEF GotEnd, EndInv, Drained
      <3>3. CASE frames[i] = "error"
        BY <1>7, <1>v, <2>4, <3>3 DEF GotEnd, Accept
      <3>4. CASE frames[i] = "chunk"
        <4>1. Chunks(i) = Chunks(next) \cup {i} /\ i \in Nat
          BY <1>t, <3>1, <3>2, <3>4, ChunksAdd
        <4>2. Yield(i, "tail")
          BY <2>4, <3>4 DEF Accept
        <4>3. yielded' = Chunks(next)' /\ \A j \in 1 .. i : frames'[j] \in {"chunk", "noise"}
          BY <1>7, <1>c, <1>s, <1>t, <3>1, <3>2, <3>4, <4>1, <4>2 DEF GotEnd, Yield
        <4> QED
          BY <1>7, <1>s, <1>t, <2>4, <3>1, <4>2, <4>3 DEF GotEnd, Yield, NormalEndIsWhole
      <3> QED
        BY <3>1, <3>3, <3>4
    <2> QED
      BY <1>7, <2>1, <2>2, <2>3, <2>4 DEF GotEnd, UnlessStopped
  <1>8. CASE GotFailure
    BY <1>8, <1>v, <1>t DEF GotFailure
  <1>9. CASE Closed
    BY <1>9, <1>s DEF Closed, streamVars, history, NormalEndIsWhole
  <1>10. CASE StreamCancel
    BY <1>10, <1>s, <1>c, <1>t DEF StreamCancel, Drop, NormalEndIsWhole
  <1>11. CASE CallerAborts \/ IdleFires
    <2>1. CASE UNCHANGED <<signal, body, cancelled>>
      BY <1>11, <1>s, <1>c, <1>t, <2>1 DEF CallerAborts, IdleFires, NormalEndIsWhole
    <2>2. CASE /\ signal'
               /\ body' # body => body \in {"open", "closed"} /\ body' \in {"aborted", "cancelled"}
      BY <1>11, <1>s, <1>c, <1>t, <2>2 DEF CallerAborts, IdleFires, NormalEndIsWhole
    <2> QED
      BY <1>11, <2>1, <2>2, AbortSteps DEF CallerAborts, IdleFires
  <1>12. CASE FrameArrives
    BY <1>12, <1>s, <1>c, <1>t DEF FrameArrives, iterVars, leaseVars, NormalEndIsWhole
  <1>13. CASE BodyStops
    BY <1>13, <1>s, <1>c, <1>t DEF BodyStops, iterVars, leaseVars, history, NormalEndIsWhole
  <1>14. CASE UNCHANGED vars
    BY <1>14, <1>s, <1>c, <1>t DEF vars, streamVars, iterVars, leaseVars, history, NormalEndIsWhole
  <1>15. CASE Over
    BY <1>14, <1>15 DEF Over
  <1> QED
    BY <1>1, <1>2, <1>3, <1>4, <1>5, <1>6, <1>7, <1>8, <1>9, <1>10, <1>11, <1>12,
      <1>13, <1>14, <1>15 DEF Next, Client

(* A loop nobody stopped was given everything up to [DONE] or the end.        *)
THEOREM NormalEndsAreWhole == Spec => []NormalEndIsWhole
  <1>1. DeliveredInv => NormalEndIsWhole
    BY DEF DeliveredInv
  <1> QED
    BY TypeInit, TypeStep, CauseInit, CauseStep, EndInit, EndStep, DeliveredInit,
      DeliveredStep, <1>1, PTL DEF Spec
=============================================================================
