----------------------------- MODULE BilledTurn -----------------------------
(***************************************************************************)
(* What one turn of the SDK promises the account that pays for it, with    *)
(* neither wire nor await in sight: the chain of members is walked forward *)
(* only, each member is attempted at most MaxRetries + 1 times, and        *)
(*                                                                         *)
(*   - once an answer that was charged has been read nothing more is sent; *)
(*   - once the caller has cancelled nothing more is sent, and no answer   *)
(*     is handed back.                                                     *)
(***************************************************************************)
EXTENDS Naturals

CONSTANTS MaxMembers, MaxRetries

VARIABLES
  member,      \* the member of the chain being tried
  attempts,    \* the attempts made for it, by number
  bill,        \* a charged answer has been read
  cancelled,   \* the caller gave up
  state        \* "open", "returned", "streaming" or "failed"
turnVars == <<member, attempts, bill, cancelled, state>>

Init ==
  /\ member = 0 /\ attempts = {} /\ bill = FALSE /\ cancelled = FALSE
  /\ state = "open"

Attempt ==
  /\ state = "open" /\ ~bill /\ ~cancelled
  /\ \E n \in 0 .. MaxRetries \ attempts : attempts' = attempts \cup {n}
  /\ UNCHANGED <<member, bill, cancelled, state>>

(* The chain moves on; after a charge only the abandoned one still does.      *)
Fallback ==
  /\ state = "open" /\ bill => cancelled
  /\ member + 1 < MaxMembers
  /\ member' = member + 1 /\ attempts' = {}
  /\ UNCHANGED <<bill, cancelled, state>>

ReadBill ==
  /\ state = "open" /\ attempts # {}
  /\ bill' = TRUE
  /\ UNCHANGED <<member, attempts, cancelled, state>>

Return ==
  /\ state = "open" /\ attempts # {} /\ ~cancelled
  /\ state' = "returned" /\ bill' \in {bill, TRUE}
  /\ UNCHANGED <<member, attempts, cancelled>>

(* A stream is handed over with its body unread, cancelled or not.            *)
OpenStream ==
  /\ state = "open" /\ attempts # {}
  /\ state' = "streaming"
  /\ UNCHANGED <<member, attempts, bill, cancelled>>

Fail ==
  /\ state = "open"
  /\ state' = "failed"
  /\ UNCHANGED <<member, attempts, bill, cancelled>>

Cancel ==
  /\ cancelled' = TRUE
  /\ UNCHANGED <<member, attempts, bill, state>>

Next == Attempt \/ Fallback \/ ReadBill \/ Return \/ OpenStream \/ Fail \/ Cancel

Spec == Init /\ [][Next]_turnVars
=============================================================================
