--------------------------- MODULE ContractStages ---------------------------
(***************************************************************************)
(* What lib/lifecycle.ts promises of one contract: its point changes in    *)
(* single steps, each of them a move the transition table allows from the  *)
(* point the contract is at when it happens, and the move is recorded with *)
(* the source that made it.  No callers, no reads, no retries: Lifecycle   *)
(* is the detailed specification that implements this one.                 *)
(***************************************************************************)
EXTENDS StageRules

VARIABLES row,  \* contracts.stage and contracts.stageState
          by    \* the source of the move that put the contract where it is

vars == <<row, by>>

TypeOK == row \in Points /\ by \in Sources

Init == row \in FirstPoints /\ by = "import"

Move ==
  /\ row' \in Points \ {row}
  /\ by' \in Sources
  /\ \E reason, isAdmin \in BOOLEAN : Permitted(row, row', by', reason, isAdmin)

Next == Move

Spec == Init /\ [][Next]_vars
-----------------------------------------------------------------------------
(* A signed contract is never reopened: it only closes, unless the assistant *)
(* undoes its own move (docs/47: active to negotiate or draft, never).       *)
SignedStays ==
  [][row.stage = "active" => row'.stage \in {"active", "closed"} \/ by' = "undo"]_vars

(* A declined approval means "do not proceed": nothing takes the contract    *)
(* from there to signature or into force (lifecycle.ts transitionRefusal).   *)
DeclinedIsBarred ==
  [][row = Declined => row'.stage \notin {"sign", "active"} \/ by' = "undo"]_vars

(* A cancelled contract comes back only by its own move, and of the others   *)
(* only an expired one comes back, when its dates change or when a request   *)
(* to bring it back was made while it was still cancelled.                   *)
ClosedStays ==
  [][row.stage = "closed" /\ row'.stage # "closed" =>
       \/ row = Cancelled /\ by' = "undo_cancel"
       \/ row = Expired /\ by' \in {"dates", "undo_cancel"}
       \/ by' = "undo"]_vars
=============================================================================
