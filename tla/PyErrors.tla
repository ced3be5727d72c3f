------------------------------ MODULE PyErrors ------------------------------
(***************************************************************************)
(* The error taxonomy of the Python SDK (errors.py, receipt.py), over the  *)
(* refusals of module Errors, which is the TypeScript one.                 *)
(***************************************************************************)
EXTENDS Errors

(* _BY_TYPE *)
ByType == [t \in {"unauthorized", "insufficient_allowance", "cost_ceiling_exceeded",
                  "key_spend_cap_exceeded", "unknown_provider", "invalid_request",
                  "model_not_found", "job_not_found", "request_in_progress",
                  "byok_key_rejected", "service_unavailable", "upstream_error",
                  "wire_upstream_mismatch"} |->
  CASE t = "unauthorized" -> "Auth"
    [] t = "insufficient_allowance" -> "Payment"
    [] t = "cost_ceiling_exceeded" -> "CostCeiling"
    [] t = "key_spend_cap_exceeded" -> "KeySpendCap"
    [] t = "invalid_request" -> "BadRequest"
    [] t \in {"unknown_provider", "model_not_found", "job_not_found"} -> "ModelNotFound"
    [] t = "request_in_progress" -> "Conflict"
    [] t = "byok_key_rejected" -> "ByokKey"
    [] t = "service_unavailable" -> "Unavailable"
    [] OTHER -> "Upstream"]

(* error_from: the type, then the code, then the status.                      *)
PyErrorClass(a) ==
  IF a.type = "invalid_request_error"
  THEN IF a.code = "invalid_api_key" \/ a.status \in {401, 403} THEN "Auth"
       ELSE IF a.code = "model_not_found" \/ a.status = 404 THEN "ModelNotFound"
       ELSE IF \/ a.code = "unsupported_parameter"
               \/ a.code = "invalid_value" /\ a.param = "tools" THEN "Capability"
       ELSE "BadRequest"
  ELSE IF a.type \in {"rate_limit_error", "rate_limited"} THEN "RateLimit"
  ELSE IF a.type \in DOMAIN ByType THEN ByType[a.type]
  ELSE IF a.status >= 500 \/ a.status = 429 THEN "Unavailable" ELSE "Error"

(* `retryable` of the error: that of its class, which a receipt overrules.    *)
PyRetryable(a) ==
  /\ ~a.charged
  /\ \/ PyErrorClass(a) \in {"RateLimit", "Unavailable"}
     \/ PyErrorClass(a) = "Conflict" /\ a.retryShortly
     \/ PyErrorClass(a) = "Upstream" /\ a.status >= 500

(* error_from without a receipt: the answer as it looks to who forgets it.    *)
Unreceipted(a) == [a EXCEPT !.charged = FALSE]
=============================================================================
