------------------------------- MODULE Stream -------------------------------
(***************************************************************************)
(* A streaming body: makeStream of src/src/stream.ts under the lease of    *)
(* leaseStream (src/src/transport.ts), from the moment client.stream()     *)
(* hands it over.  Five parties act on it, in any order: the gateway that  *)
(* sends frames, the network that breaks, the consumer that asks for the   *)
(* next chunk or leaves its loop, whoever calls cancel() or aborts the     *)
(* signal, and the idle clock.                                             *)
(*                                                                         *)
(* The body is a script of frames, the last of which may lack the blank    *)
(* line that ends a frame.  A read takes any number of whole frames; bytes *)
(* of a frame that is not complete stay in the queue.                      *)
(***************************************************************************)
EXTENDS Naturals, Sequences

(* A chunk, an error frame, [DONE], or what yields nothing: comments, blank   *)
(* frames, payloads that are no JSON object.                                  *)
Kinds == {"chunk", "error", "done", "noise"}
Script == [frames : Seq(Kinds), terminated : BOOLEAN]

CONSTANT Scripts    \* what the gateway may send
ASSUME ScriptsAssumption == Scripts \subseteq Script

VARIABLES
  script,     \* the body, as the gateway sends it
  sent,       \* frames that have arrived, queued or read
  body,       \* the ReadableStream; "closed": the gateway has sent it all
  pc,         \* where the iterator is suspended
  result,     \* what reader.read() settled with
  read,       \* frames taken from the queue into the buffer
  next,       \* frames of the buffer that were consumed
  cancelled,  \* reader.cancel() was called by this iterator
  outcome,    \* how the iterator ended
  signal,     \* lease.signal.aborted
  why,        \* which cause aborted it
  armed,      \* the idle clock is running
  released,   \* the lease was released
  quit,       \* the caller's own AbortSignal fired
  told,       \* history: stream.cancel() was called
  yielded,    \* history: the frames handed to the consumer
  first,      \* history: the first of the causes "caller" and "idle"
  heard       \* history: bytes arrived since the idle clock was started
streamVars == <<script, sent, body>>
iterVars == <<pc, result, read, next, cancelled, outcome>>
leaseVars == <<signal, why, armed, released>>
history == <<told, yielded, first, heard>>
vars == <<streamVars, iterVars, leaseVars, quit, history>>

frames == script.frames
(* The frames that a blank line ends. *)
Whole == IF script.terminated \/ frames = <<>> THEN Len(frames) ELSE Len(frames) - 1

-----------------------------------------------------------------------------
(* leaseStream, at the head: the clock starts, and a caller who is already    *)
(* gone aborts it at once.                                                    *)
Init ==
  /\ script \in Scripts /\ sent = 0 /\ body \in {"open", "none"}
  /\ pc = "unstarted" /\ result = "none" /\ read = 0 /\ next = 0
  /\ cancelled = FALSE /\ outcome = "none"
  /\ quit \in BOOLEAN /\ signal = quit /\ why = (IF quit THEN "caller" ELSE "none")
  /\ armed = TRUE /\ released = FALSE
  /\ told = FALSE /\ yielded = {} /\ first = why /\ heard = FALSE

(* The iterator listens to the signal from its first step until its finally.  *)
Listening == pc \in {"read", "got", "yield", "tail"}

(* A bug: a later cause takes the place of the first. *)
MutCause(cause) == cause

Cause(cause) == IF why = "none" THEN cause ELSE why

(* abort(cause) of the lease.  The signal fires once: fetch tears the body    *)
(* down (an injected one need not), and the iterator cancels its reader.      *)
Abort(cause) ==
  /\ why' = Cause(cause)
  /\ signal' = TRUE
  /\ first' = IF first = "none" THEN cause ELSE first
  /\ IF signal THEN UNCHANGED <<body, cancelled>>
     ELSE /\ cancelled' = (cancelled \/ Listening)
          /\ body' \in IF body \notin {"open", "closed"} THEN {body}
                       ELSE {"aborted", IF Listening THEN "cancelled" ELSE body}

(* Cancelling drops what is queued, also when the gateway has sent it all.    *)
Drop == body' = IF body \in {"open", "closed"} THEN "cancelled" ELSE body

Release == released' = TRUE /\ armed' = FALSE

(* A bug: the clock is stopped by a byte and not started again. *)
MutTouch == armed' = FALSE /\ heard' = FALSE

(* touch(): the clock starts anew unless the lease was released. *)
Touch == armed' = ~released /\ heard' = FALSE

-----------------------------------------------------------------------------
(* The finally of the iterator: after a whole body the lease is released at   *)
(* once, any other way out first cancels the reader and waits for that.       *)
Finish ==
  /\ pc' = "over" /\ outcome' = "ok" /\ Release
  /\ UNCHANGED <<body, cancelled, next, yielded, heard>>

Leave(o) ==
  /\ pc' = "closing" /\ outcome' = o
  /\ cancelled' = TRUE /\ Drop
  /\ UNCHANGED <<next, yielded, released>>

Yield(i, at) ==
  /\ pc' = at /\ next' = i /\ yielded' = yielded \cup {i}
  /\ UNCHANGED <<body, cancelled, outcome, released>>

(* A bug: frames that are in the buffer already are handed out all the same.  *)
MutUnlessStopped(n, step) ==
  IF signal /\ read = n THEN Leave(why)
  ELSE IF cancelled /\ read = n THEN Leave("ok") ELSE step

(* Asked before each frame and each read: is somebody done with this stream?  *)
UnlessStopped(n, step) ==
  IF signal THEN Leave(why) ELSE IF cancelled THEN Leave("ok") ELSE step

(* A bug: [DONE] counts as the end of the body, and the reader is not told.   *)
MutAccept(i, at) ==
  CASE frames[i] = "chunk" -> Yield(i, at)
    [] frames[i] = "error" -> Leave("frame")
    [] OTHER -> /\ pc' = "over" /\ outcome' = "ok" /\ released' = TRUE
                /\ UNCHANGED <<body, cancelled, next, yielded>>

(* A frame that matters: a chunk is handed out, an error frame is thrown, and *)
(* [DONE] ends the loop without waiting for the connection.                   *)
Accept(i, at) ==
  CASE frames[i] = "chunk" -> Yield(i, at)
    [] frames[i] = "error" -> Leave("frame")
    [] OTHER -> Leave("ok")

(* The loop over the frames n + 1 .. r of the buffer; when they are used up   *)
(* it asks for the next bytes.                                                *)
Loop(n, r) ==
  UnlessStopped(n,
    \/ /\ \A i \in n + 1 .. r : frames[i] = "noise"
       /\ pc' = "read" /\ next' = r
       /\ UNCHANGED <<body, cancelled, outcome, released, yielded>>
    \/ \E i \in n + 1 .. r :
         /\ frames[i] # "noise" /\ \A j \in n + 1 .. i - 1 : frames[j] = "noise"
         /\ Accept(i, "yield"))

-----------------------------------------------------------------------------
(* The consumer: the first next(), the following ones, and leaving the loop.  *)
Begin ==
  /\ pc = "unstarted"
  /\ IF body = "none" THEN Finish
     ELSE Loop(0, 0) /\ UNCHANGED <<armed, heard>>
  /\ UNCHANGED <<script, sent, result, read, signal, why, quit, told, first>>

Resume ==
  /\ pc = "yield"
  /\ Loop(next, read)
  /\ UNCHANGED <<script, sent, result, read, signal, why, armed, quit, told, first, heard>>

ResumeTail ==
  /\ pc = "tail" /\ Finish
  /\ UNCHANGED <<script, sent, result, read, signal, why, quit, told, first>>

Break ==
  /\ pc \in {"yield", "tail"} /\ Leave("left")
  /\ UNCHANGED <<script, sent, result, read, signal, why, armed, quit, told, first, heard>>

(* reader.read() settles; its continuation runs a little later.               *)
ReadSettles ==
  /\ pc = "read"
  /\ \/ body \in {"open", "closed"} /\ sent > read /\ result' = "data"
     \/ body \in {"cancelled", "closed"} /\ (body = "closed" => sent = read)
        /\ result' = "end"
     \/ body \in {"failed", "aborted"} /\ result' = "failed"
  /\ pc' = "got"
  /\ UNCHANGED <<streamVars, read, next, cancelled, outcome, leaseVars, quit, history>>

GotData ==
  /\ pc = "got" /\ result = "data"
  /\ IF signal THEN UNCHANGED <<armed, heard>> ELSE Touch
  /\ \E r \in read + 1 .. sent : read' = r /\ Loop(next, r)
  /\ UNCHANGED <<script, sent, result, signal, why, quit, told, first>>

(* A bug: what is left in the buffer when the body ends is forgotten. *)
MutLast == {}

(* The frame left in the buffer when the body ended, if it is one. *)
Last == IF body = "closed" /\ Whole < Len(frames) /\ frames[Len(frames)] \in {"chunk", "error"}
        THEN {Len(frames)} ELSE {}

GotEnd ==
  /\ pc = "got" /\ result = "end"
  /\ \/ (signal \/ cancelled \/ Last # {})
        /\ UnlessStopped(next, \E i \in Last : Accept(i, "tail"))
        /\ UNCHANGED <<armed, heard>>
     \/ ~signal /\ ~cancelled /\ Last = {} /\ Finish
  /\ UNCHANGED <<script, sent, result, read, signal, why, quit, told, first>>

GotFailure ==
  /\ pc = "got" /\ result = "failed"
  /\ Leave(IF signal THEN why ELSE "raw")
  /\ UNCHANGED <<script, sent, result, read, signal, why, armed, quit, told, first, heard>>

(* The awaited cancel of the finally is done. *)
Closed ==
  /\ pc = "closing" /\ pc' = "over" /\ Release
  /\ UNCHANGED <<streamVars, result, read, next, cancelled, outcome, signal, why, quit, history>>

-----------------------------------------------------------------------------
(* stream.cancel(): the lease first, then the reader, or the body if nobody   *)
(* has begun to read it.                                                      *)
StreamCancel ==
  /\ ~told /\ told' = TRUE
  /\ Release
  /\ cancelled' = (cancelled \/ pc # "unstarted") /\ Drop
  /\ UNCHANGED <<script, sent, pc, result, read, next, outcome, signal, why, quit,
                 yielded, first, heard>>

(* The caller's signal; a released lease no longer listens to it. *)
CallerAborts ==
  /\ ~quit /\ quit' = TRUE
  /\ IF released THEN UNCHANGED <<signal, why, body, cancelled, first>>
                 ELSE Abort("caller")
  /\ UNCHANGED <<script, sent, pc, result, read, next, outcome, armed, released,
                 told, yielded, heard>>

(* The clock runs out.  It takes minutes, so the client is not in the middle  *)
(* of anything: it waits for bytes, for its consumer, or for a cancel.        *)
Waiting == \/ pc \in {"unstarted", "yield", "tail", "closing"}
           \/ pc = "read" /\ body = "open" /\ sent = read

IdleFires ==
  /\ armed /\ Waiting
  /\ armed' = FALSE /\ Abort("idle")
  /\ UNCHANGED <<script, sent, pc, result, read, next, outcome, released, quit,
                 told, yielded, heard>>

(* The gateway and the network. *)
FrameArrives ==
  /\ body = "open" /\ sent < Whole
  /\ sent' = sent + 1 /\ heard' = TRUE
  /\ UNCHANGED <<script, body, iterVars, leaseVars, quit, told, yielded, first>>

BodyStops ==
  /\ body = "open"
  /\ body' \in {"failed"} \cup (IF sent = Whole THEN {"closed"} ELSE {})
  /\ UNCHANGED <<script, sent, iterVars, leaseVars, quit, history>>

Over == pc = "over" /\ UNCHANGED vars

Client == ReadSettles \/ GotData \/ GotEnd \/ GotFailure \/ Closed
Next == \/ Begin \/ Resume \/ ResumeTail \/ Break \/ Client
        \/ StreamCancel \/ CallerAborts \/ IdleFires
        \/ FrameArrives \/ BodyStops \/ Over

(* What is awaited by the client settles and the clock runs; the consumer may *)
(* never ask again, and the gateway may fall silent.                          *)
Spec == Init /\ [][Next]_vars
FairSpec == Spec /\ WF_vars(Client) /\ WF_vars(IdleFires)

-----------------------------------------------------------------------------
Outcomes == {"none", "ok", "left", "frame", "raw", "caller", "idle"}
Causes == {"none", "caller", "idle"}

(* Every variable has its type, and the iterator never runs ahead of what it  *)
(* has read, nor the reader of what has arrived.                              *)
TypeOK ==
  /\ script \in Script /\ sent \in 0 .. Whole
  /\ read \in 0 .. sent /\ next \in 0 .. Len(frames)
  /\ body \in {"none", "open", "closed", "failed", "aborted", "cancelled"}
  /\ pc \in {"unstarted", "read", "got", "yield", "tail", "closing", "over"}
  /\ result \in {"none", "data", "end", "failed"}
  /\ cancelled \in BOOLEAN /\ outcome \in Outcomes
  /\ signal \in BOOLEAN /\ why \in Causes /\ armed \in BOOLEAN /\ released \in BOOLEAN
  /\ quit \in BOOLEAN /\ told \in BOOLEAN /\ first \in Causes /\ heard \in BOOLEAN
  /\ yielded \in SUBSET (1 .. Len(frames))

(* "Streams stop yielding buffered chunks after cancellation": once the       *)
(* caller aborted, the stream was cancelled or the clock ran out, no chunk is *)
(* handed out, wherever that finds the iterator.                              *)
StopsAtOnce == [][quit \/ told \/ signal => yielded' = yielded]_vars

(* A loop that ends by itself, without anybody stopping it, was given all the *)
(* chunks up to [DONE] or the end of the body, the last one included when     *)
(* nothing ends it.                                                           *)
Deliverable == {i \in 1 .. Len(frames) :
                  frames[i] = "chunk" /\ \A j \in 1 .. i - 1 : frames[j] # "done"}
NormalEndIsWhole ==
  outcome = "ok" /\ ~told /\ body # "none" => yielded = Deliverable

(* "Leaving the loop early, throwing, or aborting cancels the body": whichever*)
(* way the iterator ended, the body is not left open or unread, and no clock  *)
(* and no listener of the lease are left behind.                              *)
NothingIsLeftOpen ==
  pc = "over" => /\ body # "open" /\ (body = "closed" => sent = read)
                 /\ released /\ ~armed

(* The error that ends a stream names what ended it: the first of the         *)
(* caller's abort and the silence, and the bare cause of a failed read only   *)
(* when the network failed and nobody aborted.                                *)
ErrorNamesTheCause ==
  /\ outcome \in {"caller", "idle"} => outcome = first
  /\ outcome = "raw" => body = "failed"

(* A stream that nobody iterates any more, or ever did, is not held for ever: *)
(* its body ends, or the connection is told to stop.                          *)
BodyIsLetGo == <>(body # "open" \/ signal)

(* transport.ts:33-34: the body "has its own idle clock that restarts on      *)
(* every byte, including the gateway's `: keep-alive` comments".              *)
IdleMeansSilence == [][first = "none" /\ first' = "idle" => ~heard]_vars
=============================================================================
