------------------------------ MODULE MCStream ------------------------------
(* Stream over scripts that end in every way a body can.                      *)
EXTENDS Stream

Ended(f)      == [frames |-> f, terminated |-> TRUE]
Unfinished(f) == [frames |-> f, terminated |-> FALSE]

MCScripts == {
  Ended(<<"noise", "chunk", "chunk", "done", "chunk">>),   \* frames after [DONE]
  Ended(<<"chunk", "noise", "error", "chunk">>),
  Ended(<<"chunk", "chunk">>),                             \* no [DONE]
  Unfinished(<<"chunk", "noise", "chunk">>),
  Unfinished(<<"chunk", "error">>),
  Unfinished(<<"chunk", "done">>),
  Ended(<<>>)}
=============================================================================
