------------------------------- MODULE Errors -------------------------------
(***************************************************************************)
(* The error taxonomy of the TypeScript SDK (src/src/errors.ts): how a     *)
(* refusal on the wire becomes an error class, and which errors may be     *)
(* sent again.  A refusal is a record                                      *)
(*                                                                         *)
(*   status        the HTTP status the answer carries                      *)
(*   type          error.type of the body, or HttpType when it has none    *)
(*   code, param   error.code and error.param, or "" when absent           *)
(*   retryShortly  the message says "retry shortly"                        *)
(*   charged       the answer carries an execution-receipt header          *)
(*                                                                         *)
(* Message texts are kept only as far as the code reads them.              *)
(***************************************************************************)
EXTENDS Naturals

(* The `http_<status>` type errorFrom invents when the body has no envelope,  *)
(* and the values of the envelope's fields that the code tells apart; "other" *)
(* stands for all the rest.                                                   *)
HttpType == "http_status"
Types == {HttpType, "invalid_request_error", "rate_limit_error", "rate_limited",
          "unauthorized", "insufficient_allowance", "cost_ceiling_exceeded",
          "key_spend_cap_exceeded", "invalid_request", "model_not_found",
          "job_not_found", "unknown_provider", "request_in_progress",
          "byok_key_rejected", "service_unavailable", "upstream_error",
          "wire_upstream_mismatch", "other"}
Codes == {"", "invalid_api_key", "model_not_found", "unsupported_parameter",
          "invalid_value", "other"}
Params == {"", "tools", "other"}

Answer == [status : Nat, type : Types, code : Codes, param : Params,
           retryShortly : BOOLEAN, charged : BOOLEAN]

Ok(a) == a.status \in 200 .. 299

(* What errorFrom sees of an answer whose body could not be read or parsed:   *)
(* the status and the headers, and with them the receipt, but no envelope.    *)
Bodiless(a) == [status |-> a.status, type |-> HttpType, code |-> "", param |-> "",
                retryShortly |-> FALSE, charged |-> a.charged]

-----------------------------------------------------------------------------
Classes == {"Error", "Auth", "Payment", "CostCeiling", "KeySpendCap",
            "BadRequest", "Capability", "ModelNotFound", "Conflict", "ByokKey",
            "RateLimit", "Upstream", "Unavailable", "Timeout", "Connection",
            "Portability"}

(* type "invalid_request_error" covers 400, 401 and 404: code, then status.   *)
InvalidRequestClass(a) ==
  IF a.code = "invalid_api_key" \/ a.status \in {401, 403} THEN "Auth"
  ELSE IF a.code = "model_not_found" \/ a.status = 404 THEN "ModelNotFound"
  ELSE IF \/ a.code = "unsupported_parameter"
          \/ a.code = "invalid_value" /\ a.param = "tools" THEN "Capability"
  ELSE "BadRequest"

ErrorClass(a) ==
  CASE a.type = "invalid_request_error"  -> InvalidRequestClass(a)
    [] a.type \in {"rate_limit_error", "rate_limited"} -> "RateLimit"
    [] a.type = "unauthorized"           -> "Auth"
    [] a.type = "insufficient_allowance" -> "Payment"
    [] a.type = "cost_ceiling_exceeded"  -> "CostCeiling"
    [] a.type = "key_spend_cap_exceeded" -> "KeySpendCap"
    [] a.type = "invalid_request"        -> "BadRequest"
    [] a.type \in {"model_not_found", "job_not_found", "unknown_provider"}
                                         -> "ModelNotFound"
    [] a.type = "request_in_progress"    -> "Conflict"
    [] a.type = "byok_key_rejected"      -> "ByokKey"
    [] a.type = "service_unavailable"    -> "Unavailable"
    [] a.type \in {"upstream_error", "wire_upstream_mismatch"} -> "Upstream"
    [] OTHER -> IF a.status >= 500 \/ a.status = 429 THEN "Unavailable"
                                                     ELSE "Error"

(* `retryable` of the error errorFrom builds: each class decides, and every   *)
(* class that ever says yes says no once the answer was charged.              *)
Retryable(a) ==
  CASE ErrorClass(a) = "Conflict" -> a.retryShortly /\ ~a.charged
    [] ErrorClass(a) = "Upstream" -> a.status >= 500 /\ ~a.charged
    [] OTHER -> ErrorClass(a) \in {"RateLimit", "Unavailable"} /\ ~a.charged

(* The statuses the transport itself sends again.                             *)
RetryableStatus == {409, 429, 502, 503, 504}
=============================================================================
