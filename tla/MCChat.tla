------------------------------- MODULE MCChat -------------------------------
(* Chat on a small instance: one answer of every kind the loop tells apart.   *)
EXTENDS Chat

Refusal(status, type) == [status |-> status, type |-> type, code |-> "",
  param |-> "", retryShortly |-> FALSE, charged |-> FALSE]

Completion == [Refusal(200, HttpType) EXCEPT !.charged = TRUE]
Capability == [Refusal(400, "invalid_request_error") EXCEPT
                 !.code = "unsupported_parameter"]
InProgress == [Refusal(409, "request_in_progress") EXCEPT !.retryShortly = TRUE]

MCAnswers == {
  Completion,
  [Refusal(502, "upstream_error") EXCEPT !.charged = TRUE],
  Refusal(503, "service_unavailable"),    \* retried
  Refusal(500, "other"),                  \* not retried, but falls back
  Capability,                             \* falls back
  InProgress,                             \* retried
  Refusal(402, "insufficient_allowance")} \* final

MCIdentity == <<0>>
=============================================================================
