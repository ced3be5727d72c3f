------------------------------ MODULE Gateway -------------------------------
(***************************************************************************)
(* EXTERNAL: the Conifer gateway and the network in front of it, as far as *)
(* the SDK's code and tests rely on them.  One attempt of a request is a   *)
(* record [key, n]: the idempotency key it carries and its number.         *)
(*                                                                         *)
(*  - An attempt on the network may arrive late, even after the client has *)
(*    given up on it, or never.                                            *)
(*  - The first attempt to arrive with a key runs; one that arrives while  *)
(*    the key is running, or after it was charged, does not run again.     *)
(*  - A run ends charged, or free of charge; only a charged outcome is     *)
(*    answered with an execution receipt.                                  *)
(***************************************************************************)
EXTENDS Errors

CONSTANT Answers      \* the answers the gateway may give
ASSUME AnswersAssumption == Answers \subseteq Answer

VARIABLES
  inflight,   \* attempts sent and not yet arrived
  running,    \* attempts the gateway is executing
  charged     \* attempts whose run was charged
gatewayVars == <<inflight, running, charged>>

Knows(k) == \E r \in running \cup charged : r.key = k

GatewayInit == inflight = {} /\ running = {} /\ charged = {}

Arrive(r) ==
  /\ r \in inflight
  /\ inflight' = inflight \ {r}
  /\ running' = IF Knows(r.key) THEN running ELSE running \cup {r}
  /\ UNCHANGED charged

(* The run of attempt r ends: served and charged, or failed free of charge.   *)
Finish(r) ==
  /\ r \in running
  /\ running' = running \ {r}
  /\ charged' \in {charged, charged \cup {r}}
  /\ UNCHANGED inflight

(* The gateway can answer the waiting attempt r with a: a receipt tells of a  *)
(* charge under r's key (r's own run, or the replay of an earlier one), and   *)
(* a run of r that was charged is never answered without it.                  *)
CanAnswer(r, a) ==
  /\ r \notin inflight \cup running
  /\ a.charged => \E s \in charged : s.key = r.key
  /\ ~a.charged => r \notin charged
=============================================================================
