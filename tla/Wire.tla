-------------------------------- MODULE Wire --------------------------------
(***************************************************************************)
(* What the Python client puts on the wire for one turn: chat.py,          *)
(* embeddings.py, and the requests client.py refuses to send at all.       *)
(*                                                                         *)
(* A request is the set of its optional fields that are not None; a value  *)
(* is kept where the code looks at it: models, chains, ceiling, keys.      *)
(***************************************************************************)
EXTENDS Integers, Sequences, FiniteSets

CONSTANTS
  Models,     \* model names a header can carry, stripped
  FreshKey    \* the uuid of turn_identity, as a sequence of segments
ASSUME WireAssumption == FreshKey \in Seq(Nat) \ {<<>>}

(* A model as a caller may write it: blank, or with what no header can carry. *)
Entries == Models \cup {"", ","}

BodyFields == {"max_tokens", "temperature", "top_p", "stop", "tools", "tool_choice",
               "response_format", "reasoning"}

(* "prompt_cache" is given when it is "off"; "tokens" stands for an embedding *)
(* input of token ids.  An EmbeddingsRequest is a ChatRequest with fields of  *)
(* its own, in which chains mean nothing.                                     *)
ChatFields == BodyFields \cup {"deadline_seconds", "defer", "venue", "prompt_cache", "client"}
EmbeddingsFields == {"client", "dimensions", "user", "tokens"}

(* A ceiling that is given is a sequence of one amount, None the empty one;   *)
(* so are chains and keys that are None or empty.                             *)
Amount == [integer : BOOLEAN, nano : Int]
ChatRequest ==
  [model : Entries, given : SUBSET (ChatFields \cup EmbeddingsFields), extra_body : SUBSET STRING,
   max_cost_nano_usd : Seq(Amount), idempotency_key : Seq(Nat), request_id : Seq(Nat),
   fallback_models : Seq(Entries), allow_client_fallback : BOOLEAN,
   server_fallback_models : Seq(Entries)]

Plain(model) ==
  [model |-> model, given |-> {}, extra_body |-> {}, max_cost_nano_usd |-> <<>>,
   idempotency_key |-> <<>>, request_id |-> <<>>, fallback_models |-> <<>>,
   allow_client_fallback |-> FALSE, server_fallback_models |-> <<>>]

(* turn_identity *)
TurnIdentity(r) == IF r.idempotency_key # <<>> THEN r.idempotency_key
                   ELSE IF r.request_id # <<>> THEN r.request_id ELSE FreshKey

(* resolve_chain, of a request that is not refused. *)
Chain(r) == <<r.model>> \o r.fallback_models

(* A bug: the opt-in is not asked for. *)
MutChainRefused(r) == FALSE

ChainRefused(r) == r.fallback_models # <<>> /\ ~r.allow_client_fallback

CeilingRefused(r) ==
  r.max_cost_nano_usd # <<>> /\ (~r.max_cost_nano_usd[1].integer \/ r.max_cost_nano_usd[1].nano < 0)

(* server_fallback_header: the places whose model is neither the primary nor  *)
(* named before; the header is what stands there, in order.                   *)
Survivors(r) ==
  LET c == r.server_fallback_models IN
    {i \in DOMAIN c : c[i] # r.model /\ \A j \in 1 .. i - 1 : c[j] # c[i]}
MAX_SERVER_FALLBACK_MODELS == 3
ServerRefused(r) ==
  \/ \E i \in DOMAIN r.server_fallback_models : r.server_fallback_models[i] \in {"", ","}
  \/ Cardinality(Survivors(r)) > MAX_SERVER_FALLBACK_MODELS
ServerChain(r) == [i \in Survivors(r) |-> r.server_fallback_models[i]]

-----------------------------------------------------------------------------
(* The refusals of chat(), stream(), defer() and embed() before anything is   *)
(* built, and those of the header writers while a request is built.           *)
OperationRefused(op, r) ==
  \/ op = "chat" /\ ("defer" \in r.given \/ ChainRefused(r))
  \/ op = "stream" /\ r.fallback_models # <<>>
  \/ op = "defer" /\ (r.server_fallback_models # <<>> \/ r.fallback_models # <<>>)
  \/ op = "embed" /\ "tokens" \in r.given

HeadersRefused(op, r) == CeilingRefused(r) \/ (op # "embed" /\ ServerRefused(r))

(* defer() *)
Deferred(r) == [r EXCEPT !.given = @ \cup {"defer", "deadline_seconds"}]

HeaderOf == [deadline_seconds |-> "x-conifer-deadline", defer |-> "x-conifer-defer",
             venue |-> "x-conifer-venue", prompt_cache |-> "x-conifer-cache",
             client |-> "x-conifer-client"]

ChatBody(r, streams) ==
  {"model", "messages"} \cup (r.given \cap (BodyFields \cup {"defer"}))
  \cup (IF "deadline_seconds" \in r.given THEN {"completion_window_seconds"} ELSE {})
  \cup (IF streams THEN {"stream", "stream_options"} ELSE {}) \cup r.extra_body

EmbeddingsBody(r) ==
  {"model", "input", "encoding_format"} \cup (r.given \cap {"dimensions", "user"})
  \cup r.extra_body

(* Of the headers that are written as they were given, embeddings have one.   *)
Headers(op, r) ==
  LET plain == r.given \cap IF op = "embed" THEN {"client"} ELSE DOMAIN HeaderOf IN
  {"idempotency-key"} \cup {HeaderOf[f] : f \in plain}
  \cup (IF r.request_id # <<>> THEN {"x-request-id"} ELSE {})

(* The request on the wire, without its key.  extra_body has the last word,   *)
(* on the model too.                                                          *)
WireOf(op, r) ==
  [body    |-> IF op = "embed" THEN EmbeddingsBody(r) ELSE ChatBody(r, op = "stream"),
   model   |-> IF "model" \in r.extra_body THEN "" ELSE r.model,
   headers |-> Headers(op, r), ceiling |-> r.max_cost_nano_usd,
   chain   |-> IF op = "embed" THEN <<>> ELSE ServerChain(r)]

(* The field f that r gives stands on the wire.                               *)
Written(r, w, f) == f \in w.body \/ (f \in DOMAIN HeaderOf /\ HeaderOf[f] \in w.headers)
=============================================================================
