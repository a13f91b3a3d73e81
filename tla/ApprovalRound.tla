---------------------------- MODULE ApprovalRound ----------------------------
(***************************************************************************)
(* What a request for approval promises (docs/47, workflow-engine.ts): its *)
(* orders are approved one after the other, it is approved only when every *)
(* order was, it is returned or declined only if somebody said so, and it  *)
(* closes once.  A change of the document that resets or cancels it        *)
(* (lib/approval-reset.ts) ends the round.  Approvals implements it.       *)
(***************************************************************************)
EXTENDS Naturals

CONSTANT None

VARIABLES orders,   \* how many orders its definition has
          passed,   \* the orders somebody approved at
          against,  \* the negative decisions made
          status, outcome

vars == <<orders, passed, against, status, outcome>>

Init ==
  /\ orders \in Nat \ {0}
  /\ passed = {} /\ against = {}
  /\ status = "NONE" /\ outcome = None

Submit == status = "NONE" /\ status' = "PENDING" /\ UNCHANGED <<orders, passed, against, outcome>>

(* Somebody approves: an order already passed, or the next one. *)
Approve ==
  /\ status # "NONE"
  /\ \E o \in 1..orders :
       /\ \A x \in 1..(o - 1) : x \in passed
       /\ passed' = passed \union {o}
  /\ UNCHANGED <<orders, against, status, outcome>>

Object ==
  /\ status # "NONE"
  /\ against' \in {against \union {"RETURNED"}, against \union {"DECLINED"}}
  /\ UNCHANGED <<orders, passed, status, outcome>>

CloseApproved ==
  /\ status = "PENDING" /\ passed = 1..orders
  /\ status' = "APPROVED" /\ outcome' = "approved"
  /\ UNCHANGED <<orders, passed, against>>

CloseRejected ==
  /\ status = "PENDING"
  /\ status' = "REJECTED"
  /\ \/ "RETURNED" \in against /\ outcome' = "returned"
     \/ "DECLINED" \in against /\ outcome' = "declined"
  /\ UNCHANGED <<orders, passed, against>>

Next == Submit \/ Approve \/ Object \/ CloseApproved \/ CloseRejected

Spec == Init /\ [][Next]_vars
=============================================================================
