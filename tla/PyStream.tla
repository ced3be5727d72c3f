------------------------------ MODULE PyStream ------------------------------
(***************************************************************************)
(* The generator of the Python client's stream() (client.py) over          *)
(* iter_frames and decode_frame (jobs.py), after PyChat has opened the     *)
(* stream.  The loop that consumes it asks for the next chunk, takes its   *)
(* time with it, or leaves.  Frames that were sent wait at the socket.     *)
(***************************************************************************)
EXTENDS PyChat

CONSTANT MaxFrames     \* that the gateway sends
ASSUME PyStreamAssumption == MaxFrames \in Nat

(* What the gateway sends: a chunk, something to ignore (a comment, no JSON), *)
(* an error object, the terminator.  A body that is over ends in a tail: no   *)
(* bytes, half a frame, or a frame without its blank line; one that breaks is *)
(* reset, silent for too long, less than announced, or no UTF-8.              *)
Frames == {"chunk", "noise", "error", "done"}
Tails == Frames \cup {"none", "half"}

VARIABLES
  stage,    \* "new", "running", "held" (at the yield), "ended", "raised", "left"
  frames,   \* sent, and not yet read by the generator
  over,     \* "open", "broken", or the tail the body ended in
  given,    \* how many chunks were yielded
  came      \* history: the frames sent, the tail included
streamVars == <<stage, frames, over, given, came>>
psVars == <<vars, streamVars>>

PSInit == Init /\ stage = "new" /\ frames = <<>> /\ over = "open" /\ given = 0 /\ came = <<>>

Opened == turn = "completed" /\ outcome.kind = "stream"

-----------------------------------------------------------------------------
(* EXTERNAL: the gateway and the network. *)
FrameComes(f) ==
  /\ Opened /\ over = "open" /\ Len(came) < MaxFrames
  /\ frames' = Append(frames, f) /\ came' = Append(came, f)
  /\ UNCHANGED <<stage, over, given>>

BodyIsOver(tail) ==
  /\ Opened /\ over = "open" /\ over' = tail
  /\ came' = IF tail \in Frames THEN Append(came, tail) ELSE came
  /\ UNCHANGED <<stage, frames, given>>

(* What was sent and not yet read may be lost with the connection.            *)
BodyIsBroken ==
  /\ Opened /\ over = "open" /\ over' = "broken"
  /\ UNCHANGED <<stage, frames, given, came>>

-----------------------------------------------------------------------------
(* A bug: the end of the body is taken for its last blank line. *)
MutFlushed(tail) == "none"

(* What iter_frames yields of the lines it holds when there are no more.      *)
Flushed(tail) == tail

(* The generator takes up a frame, or what is left at the end.                *)
Take(f) ==
  /\ stage' = IF f = "chunk" THEN "held"
              ELSE IF f \in {"done", "none"} THEN "ended"
              ELSE IF f = "error" THEN "raised" ELSE "running"
  /\ given' = IF f = "chunk" THEN given + 1 ELSE given

Start == /\ Opened /\ stage = "new" /\ stage' = "running"
         /\ UNCHANGED <<frames, over, given, came>>

ReadFrame ==
  /\ stage = "running" /\ frames # <<>>
  /\ Take(Head(frames)) /\ frames' = Tail(frames)
  /\ UNCHANGED <<over, came>>

ReadEnd ==
  /\ stage = "running" /\ frames = <<>> /\ over \in Tails
  /\ Take(Flushed(over)) /\ over' = "none"
  /\ UNCHANGED <<frames, came>>

ReadFails ==
  /\ stage = "running" /\ over = "broken" /\ stage' = "raised"
  /\ UNCHANGED <<frames, over, given, came>>

Ask == stage = "held" /\ stage' = "running" /\ UNCHANGED <<frames, over, given, came>>

(* The loop is left: GeneratorExit at the yield. *)
Leave == stage = "held" /\ stage' = "left" /\ UNCHANGED <<frames, over, given, came>>

StreamStep == /\ \/ \E f \in Frames : FrameComes(f)
                 \/ \E tail \in Tails : BodyIsOver(tail)
                 \/ BodyIsBroken \/ Start \/ ReadFrame \/ ReadEnd \/ ReadFails \/ Ask \/ Leave
              /\ UNCHANGED vars

PSNext == (Next /\ UNCHANGED streamVars) \/ StreamStep

PSSpec == PSInit /\ [][PSNext]_psVars
PSFairSpec == PSSpec /\ Fairness

-----------------------------------------------------------------------------
PSTypeOK ==
  /\ TypeOK
  /\ stage \in {"new", "running", "held", "ended", "raised", "left"}
  /\ frames \in Seq(Frames) /\ over \in Tails \cup {"open", "broken"}
  /\ given \in Nat /\ came \in Seq(Frames)

(* A loop over stream() that ends by itself was given every chunk that was    *)
(* sent before the terminator or the end of the body, a last one without its  *)
(* blank line too ("retaining the existing EOF tail behavior", jobs.py:47),   *)
(* and no error frame was passed over (client.py:251-259).                    *)
Ends == {i \in DOMAIN came : came[i] = "done"}
Before == {i \in DOMAIN came : \A e \in Ends : i < e}
StreamIsWhole ==
  stage = "ended" => /\ given = Cardinality({i \in Before : came[i] = "chunk"})
                     /\ \A i \in Before : came[i] # "error"
=============================================================================
