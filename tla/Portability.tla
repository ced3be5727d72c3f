----------------------------- MODULE Portability -----------------------------
(***************************************************************************)
(* The migration shims of the Python SDK (portability.py).  A foreign      *)
(* request is the names of what it carries, body fields and headers alike, *)
(* with the values the shims look at:                                      *)
(*                                                                         *)
(*   shim     whose request it is          models   the substitutes listed *)
(*   fields   what it carries              word     the value of `route`,  *)
(*   model    the model                             or of a cache switch   *)
(*   allow    allow_client_fallback        legible  the list is JSON       *)
(*   passes   passthrough_unknown          policy   a rate limit           *)
(*   surface  the door it was for                                          *)
(*                                                                         *)
(* No substitutes and an empty list of them are the same thing.            *)
(***************************************************************************)
EXTENDS Wire

Policy == [legible : BOOLEAN, quota : Nat, cents : BOOLEAN]
Foreign ==
  [shim : {"openrouter", "helicone", "vercel"}, model : Entries, fields : SUBSET STRING,
   models : Seq(Entries), word : {"", "fallback", "true", "false", "other"},
   allow : BOOLEAN, passes : BOOLEAN, legible : BOOLEAN, policy : Policy, surface : STRING]

(* from_openrouter and attribution_from_openrouter. *)
OpenRouterRefused == {"provider", "plugins", "transforms", "prompt"}
Unmodelled == {"top_k", "min_p", "top_a", "repetition_penalty", "logit_bias", "seed",
               "frequency_penalty", "presence_penalty", "top_logprobs", "prediction", "debug"}
Titles == {"x-openrouter-title", "x-title", "http-referer"}

RouteRefused(a) == "route" \in a.fields /\ (a.word # "fallback" \/ a.models = <<>>)

OpenRouterRefuses(a) ==
  \/ a.fields \cap (OpenRouterRefused \cup {"x-openrouter-categories"}) # {}
  \/ ~({"model", "messages"} \subseteq a.fields)
  \/ a.fields \cap Unmodelled # {} /\ ~a.passes
  \/ RouteRefused(a)

(* A bug: the knobs that were let pass are not forwarded. *)
MutFromOpenRouter(a) ==
  [Plain(a.model) EXCEPT !.given = a.fields \cap BodyFields, !.fallback_models = a.models,
                         !.allow_client_fallback = a.allow]

FromOpenRouter(a) ==
  LET routed == "route" \in a.fields IN
  [Plain(a.model) EXCEPT
     !.given = (a.fields \cap BodyFields)
               \cup (IF a.fields \cap (Titles \cup {"user"}) # {} THEN {"client"} ELSE {}),
     !.extra_body = a.fields \cap Unmodelled,
     !.fallback_models = IF routed THEN <<>> ELSE a.models,
     !.allow_client_fallback = ~routed /\ a.allow,
     !.server_fallback_models = IF routed THEN a.models ELSE <<>>]

-----------------------------------------------------------------------------
(* from_helicone_headers, parse_fallbacks and ceiling_from_policy; the        *)
(* application adds what it gets to a request of its own.  A property is      *)
(* handed back to it, and what has no prefix of Helicone's is not looked at.  *)
HeliconeRefused ==
  {"helicone-target-url", "helicone-openai-api-base", "helicone-prompt-id",
   "helicone-moderations-enabled", "helicone-llm-security-enabled",
   "helicone-token-limit-exception-handler", "helicone-session-id", "helicone-session-path",
   "helicone-session-name", "helicone-posthog-key", "helicone-posthog-host",
   "helicone-omit-request", "helicone-omit-response", "helicone-auth",
   "helicone-retry-enabled"}
HeliconeInert == {"helicone-cache-enabled", "helicone-request-id", "helicone-user-id",
                  "helicone-ratelimit-policy"}
HeliconeProperties == {"helicone-property-x"}
HeliconeUnknown == {"helicone-other"}

HeliconeRefuses(a) ==
  \/ a.fields \cap (HeliconeRefused \cup HeliconeUnknown) # {}
  \/ "helicone-cache-enabled" \in a.fields /\ a.word = "true"
  \/ ~a.legible
  \/ "helicone-ratelimit-policy" \in a.fields /\ ~(a.policy.legible /\ a.policy.cents)

CeilingFromPolicy(p) == <<[integer |-> TRUE, nano |-> p.quota * 10000000]>>

FromHelicone(a) ==
  [Plain(a.model) EXCEPT
     !.given = (IF "helicone-user-id" \in a.fields THEN {"client"} ELSE {})
               \cup (IF "helicone-cache-enabled" \in a.fields /\ a.word = "false"
                     THEN {"prompt_cache"} ELSE {}),
     !.request_id = IF "helicone-request-id" \in a.fields THEN FreshKey ELSE <<>>,
     !.max_cost_nano_usd = IF "helicone-ratelimit-policy" \in a.fields
                           THEN CeilingFromPolicy(a.policy) ELSE <<>>,
     !.server_fallback_models = a.models]

-----------------------------------------------------------------------------
(* from_vercel_provider_options and assert_supported_vercel_surface.  The     *)
(* blocks of other providers are handed back to the application.              *)
VercelRefused == {"order", "only", "ignore", "sort", "allowFallbacks", "requireParameters",
                  "require_parameters", "quantizations", "maxPrice", "dataCollection", "zdr"}
VercelUnknown == {"other"}
VercelUnsupported == {"image-generation", "oidc", "rerank", "moderations", "audio", "files",
                      "batches"}
VercelAliases == {"image", "images", "moderation", "reranking", "speech", "transcription",
                  "audio-speech", "audio-transcription", "batch", "file"}

VercelRefuses(a) == \/ a.fields \cap (VercelRefused \cup VercelUnknown) # {}
                    \/ a.surface \in VercelUnsupported \cup VercelAliases

FromVercel(a) ==
  [Plain(a.model) EXCEPT !.fallback_models = a.models, !.allow_client_fallback = a.allow]

-----------------------------------------------------------------------------
Refuses(a) == \/ a.shim = "openrouter" /\ OpenRouterRefuses(a)
              \/ a.shim = "helicone" /\ HeliconeRefuses(a)
              \/ a.shim = "vercel" /\ VercelRefuses(a)

Translated(a) == IF a.shim = "openrouter" THEN FromOpenRouter(a)
                 ELSE IF a.shim = "helicone" THEN FromHelicone(a) ELSE FromVercel(a)

-----------------------------------------------------------------------------
(* The fields a shim has a rule for.                                          *)
Known(a) ==
  IF a.shim = "openrouter"
  THEN BodyFields \cup Unmodelled \cup Titles \cup OpenRouterRefused
       \cup {"model", "messages", "user", "route", "x-openrouter-categories"}
  ELSE IF a.shim = "helicone"
  THEN HeliconeRefused \cup HeliconeProperties \cup HeliconeUnknown
       \cup (HeliconeInert \ IF a.word \in {"true", "false"} THEN {} ELSE {"helicone-cache-enabled"})
  ELSE VercelRefused \cup VercelUnknown

(* What a request on the wire carries of a field f, and of the substitutes:   *)
(* they stand in the header, save the model itself, which the gateway drops   *)
(* from its own list, or they are the chain the client walks.                 *)
Carried(a, w, f) ==
  \/ f \in BodyFields \cup Unmodelled \cup {"model", "messages"} /\ f \in w.body
  \/ f \in Titles \cup {"user", "helicone-user-id"} /\ "x-conifer-client" \in w.headers
  \/ f = "helicone-request-id" /\ "x-request-id" \in w.headers
  \/ f = "helicone-cache-enabled" /\ "x-conifer-cache" \in w.headers
  \/ f = "helicone-ratelimit-policy" /\ w.ceiling = CeilingFromPolicy(a.policy)
  \/ f \in HeliconeProperties \cup {"route"}

Listed(a, w) == \A i \in DOMAIN a.models :
  a.models[i] = w.model \/ \E j \in DOMAIN w.chain : w.chain[j] = a.models[i]
SubstitutesCarried(a, w, chain) ==
  IF a.shim = "helicone" \/ (a.shim = "openrouter" /\ "route" \in a.fields)
  THEN chain = <<a.model>> /\ Listed(a, w) ELSE chain = <<a.model>> \o a.models
=============================================================================
