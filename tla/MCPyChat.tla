------------------------------ MODULE MCPyChat ------------------------------
(* PyStream, and with it PyChat, on a small instance: one answer of every     *)
(* kind the loop tells apart, and one request of every way to be built,       *)
(* refused or translated.                                                     *)
EXTENDS PyStream

Refusal(status, type) == [status |-> status, type |-> type, code |-> "",
  param |-> "", retryShortly |-> FALSE, charged |-> FALSE]
Paid(a) == [a EXCEPT !.charged = TRUE]

MCAnswers == {
  Paid(Refusal(200, HttpType)),
  Paid(Refusal(502, "upstream_error")),
  Refusal(503, "service_unavailable"),    \* retried
  Refusal(500, "other"),                  \* not retried, but falls back
  [Refusal(400, "invalid_request_error") EXCEPT !.code = "unsupported_parameter"],
  [Refusal(409, "request_in_progress") EXCEPT !.retryShortly = TRUE],
  Refusal(402, "insufficient_allowance")} \* final

MCModels == {"m1", "m2", "m3", "m4", "m5"}
MCFreshKey == <<0>>
One == Plain("m1")
Nano(n) == <<[integer |-> TRUE, nano |-> n]>>
Of(op, r) == [op |-> op, ask |-> [shim |-> "none", request |-> r]]

(* All fields at once, and an identity of the caller's; a field in extra_body *)
(* that the SDK does not model; what stream, defer and embed make of it.      *)
Full == [One EXCEPT
  !.given = BodyFields \cup {"deadline_seconds", "venue", "prompt_cache", "client"},
  !.max_cost_nano_usd = Nano(5), !.request_id = <<7>>, !.server_fallback_models = <<"m2">>]
Chained == [One EXCEPT !.fallback_models = <<"m2">>, !.allow_client_fallback = TRUE]
(* The header of the second member of this one is refused, not the first's.   *)
Late == [Chained EXCEPT !.server_fallback_models = <<"m1", "m3", "m3", "m4", "m5">>,
                        !.max_cost_nano_usd = Nano(0)]

Served == {
  Of("chat", Full), Of("chat", [Full EXCEPT !.extra_body = {"seed", "model"}]),
  Of("chat", Late), Of("stream", Full),
  Of("defer", [Full EXCEPT !.server_fallback_models = <<>>]), Of("defer", One),
  Of("embed", [One EXCEPT !.given = {"dimensions", "user", "client"},
                          !.max_cost_nano_usd = Nano(5)])}
NotServed == {
  Of("chat", [One EXCEPT !.given = {"defer"}]),
  Of("chat", [Chained EXCEPT !.allow_client_fallback = FALSE]),
  Of("chat", [One EXCEPT !.max_cost_nano_usd = Nano(-1)]),
  Of("chat", [One EXCEPT !.max_cost_nano_usd = <<[integer |-> FALSE, nano |-> 1]>>]),
  Of("chat", [One EXCEPT !.server_fallback_models = <<"">>]),
  Of("chat", [One EXCEPT !.server_fallback_models = <<"m2", ",">>]),
  Of("stream", Chained), Of("defer", Chained), Of("defer", Full),
  Of("embed", [One EXCEPT !.given = {"tokens"}])}

-----------------------------------------------------------------------------
Foreigner(shim, fields) ==
  [shim |-> shim, model |-> "m1", fields |-> fields, models |-> <<>>, word |-> "",
   allow |-> FALSE, passes |-> FALSE, legible |-> TRUE,
   policy |-> [legible |-> TRUE, quota |-> 3, cents |-> TRUE], surface |-> "language"]
Router(fields) == Foreigner("openrouter", fields \cup {"model", "messages"})
Helicone(fields) == Foreigner("helicone", fields)
Vercel(fields) == Foreigner("vercel", fields)
Subs(a) == [a EXCEPT !.models = <<"m2">>]
Routed == [Subs(Router({"route", "user"})) EXCEPT !.word = "fallback", !.allow = TRUE]
Passing == [Router({"seed", "top_k"} \cup BodyFields) EXCEPT !.passes = TRUE]
Policed == Helicone({"helicone-ratelimit-policy"})

Translatable == {
  [Subs(Passing) EXCEPT !.allow = TRUE], Routed, Router(Titles),
  [Subs(Helicone({"helicone-request-id", "helicone-user-id", "helicone-cache-enabled",
                  "helicone-ratelimit-policy"} \cup HeliconeProperties)) EXCEPT !.word = "false"],
  [Subs(Vercel({})) EXCEPT !.allow = TRUE]}
RefusedByAShim ==
  {Router({f}) : f \in OpenRouterRefused \cup Unmodelled \cup {"x-openrouter-categories"}}
  \cup {Helicone({f}) : f \in HeliconeRefused \cup HeliconeUnknown}
  \cup {Vercel({f}) : f \in VercelRefused \cup VercelUnknown}
  \cup {[Vercel({}) EXCEPT !.surface = s] : s \in VercelUnsupported \cup VercelAliases}
  \cup {Foreigner("openrouter", {"messages"}), Foreigner("openrouter", {"model"}),
        [Routed EXCEPT !.word = "other"], [Routed EXCEPT !.models = <<>>],
        [Helicone({"helicone-cache-enabled"}) EXCEPT !.word = "true"],
        [Helicone({}) EXCEPT !.legible = FALSE],
        [Policed EXCEPT !.policy.legible = FALSE], [Policed EXCEPT !.policy.cents = FALSE],
        Subs(Vercel({})), Subs(Passing)}

MCTurns == Served \cup NotServed
           \cup [op : {"chat"}, ask : Translatable \cup RefusedByAShim]
           \cup {[op |-> "stream", ask |-> Routed], [op |-> "defer", ask |-> Passing]}

(* What a shim has no rule for. *)
Unlisted == {
  Router({"max_completion_tokens"}),
  [Helicone({"helicone-cache-enabled"}) EXCEPT !.word = "other"]}
MCUnlisted == [op : {"chat"}, ask : Unlisted]
=============================================================================
