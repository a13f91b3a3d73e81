------------------------------ MODULE Lifecycle ------------------------------
(***************************************************************************)
(* Every way a contract's stage moves (apps/api/src/lib/lifecycle.ts       *)
(* transition and its callers).  A caller is one request or job.  It may   *)
(* read the contract to decide what to ask for; transition reads it again, *)
(* checks the move, and writes with a compare-and-set on what it read; the *)
(* STAGE_CHANGED event is recorded afterwards.  Every read and every write *)
(* is a step of its own, so calls interleave at each await.                *)
(*                                                                         *)
(* What a caller needs from other tables (an open envelope, a decided      *)
(* approval, a date that passed) is its own affair: here it may hold at    *)
(* any time.  The turn is left out (StageRules).                           *)
(***************************************************************************)
EXTENDS StageRules, Naturals

CONSTANTS Callers,     \* the requests and jobs in flight
          StartPoints, \* the points the contract may start at
          MaxCalls,    \* bound: calls made of one contract
          None         \* no call, no point

ASSUME StartPointsAssumption == StartPoints \subseteq FirstPoints
ASSUME MaxCallsAssumption == MaxCalls \in Nat
ASSUME NoneAssumption == None \notin Points

VARIABLES
  row,         \* contracts.stage, contracts.stageState
  by,          \* the source of the move that put it there
  executedAt,  \* whether contracts.executedAt is set
  cancelledAt, \* the latest STAGE_CHANGED event: the point it cancelled, or None
  pc, call,    \* where each caller is, and the move it asks for
  asked, read, \* the point each caller decided on, and the one transition read
  calls        \* how many calls were made

vars == <<row, by, executedAt, cancelledAt, pc, call, asked, read, calls>>

PCs == {"idle", "asked", "restore", "write", "record", "clear", "offer"}

(* The arguments of transition that matter here, and what the handler does   *)
(* when it succeeded: the assistant offers an undo, an undo of an execution  *)
(* clears executedAt.                                                        *)
Call(to, source, reason, only, then) ==
  [to |-> to, source |-> source, reason |-> reason, only |-> only, then |-> then]

(* approval-reset.ts asks for "drafting" in the stage the contract was       *)
(* worked in, negotiate included, where there is no such state.              *)
Targets == Points \union {Point("negotiate", "drafting")}

CallSet == [to: Targets, source: Sources, reason: BOOLEAN, only: SUBSET Points,
            then: {"none", "offer", "clear"}]

Plain(to, source, only) == Call(to, source, TRUE, only, "none")

(* The calls that decide nothing from the contract before transition reads   *)
(* it, flow by flow.  Every one of them passes a reason or needs none.       *)
Worked == {"draft", "negotiate"}

(* We sent it to the counterparty; a version of theirs arrived. *)
CounterpartyCalls ==
  {Plain(Point("negotiate", "with_counterparty"), "send", PointsOf(Worked))}
    \union {Plain(Point("negotiate", "with_us"), "counterparty", PointsOf(s)) :
              s \in {Worked \union {"approve"}, Worked \union {"approve", "sign"}}}

(* A request is accepted into Draft. *)
AcceptCalls == {Plain(Point("draft", "drafting"), "import", Points)}

(* A request for approval is approved, returned or declined. *)
DecisionCalls ==
  {Plain(Approved, "approval", {Pending}), Plain(Declined, "approval", {Pending})}
    \union {Plain(Point(w, "returned"), "approval", {Pending}) : w \in Worked}

(* An edit withdraws an approval, or asks for it again. *)
EditCalls ==
  {Plain(Point(w, "drafting"), "edit", s) :
     w \in Worked, s \in {{Approved}, PointsOf({"approve"})}}
    \union {Plain(Pending, "edit", {Approved})}

(* An envelope is signed by all, or stopped; a contract is taken back. *)
SignatureCalls ==
  {Plain(Active, "signature", Points)}
    \union {Plain(Point("sign", x), "signature", PointsOf({"sign"})) : x \in {"declined", "voided"}}
RevertCalls ==
  {Plain(p, "revert", PointsOf({"sign"})) :
     p \in {Approved, Point("draft", "drafting"), Point("negotiate", "with_us")}}

(* A decision about its renewal, a cancellation, an undone submission. *)
RenewalCalls ==
  {Plain(Point("active", x), "system", PointsOf({"active"})) : x \in {"expiring", "renewing"}}
CancelCalls == {Plain(Cancelled, "cancel", Points)}
UnsubmitCalls ==
  {Plain(p, "undo", PointsOf({"approve"})) : p \in PointsOf(Worked) \union {Declined}}

AutoCalls ==
  CounterpartyCalls \union AcceptCalls \union DecisionCalls \union EditCalls \union SignatureCalls
    \union RevertCalls \union RenewalCalls \union CancelCalls \union UnsubmitCalls

Init ==
  /\ row \in StartPoints
  /\ by = "import"
  /\ executedAt = FALSE
  /\ cancelledAt = None
  /\ pc = [c \in Callers |-> "idle"]
  /\ call = [c \in Callers |-> None]
  /\ asked = [c \in Callers |-> None]
  /\ read = [c \in Callers |-> None]
  /\ calls = 0
-----------------------------------------------------------------------------
Goto(c, where) == pc' = [pc EXCEPT ![c] = where]

Contract == <<row, by, executedAt, cancelledAt>>

(* A call begins: the bound is the model's. *)
Begin(c) == pc[c] = "idle" /\ calls < MaxCalls /\ calls' = calls + 1

Rest(c) ==
  /\ Goto(c, "idle")
  /\ call' = [call EXCEPT ![c] = None]
  /\ asked' = [asked EXCEPT ![c] = None]
  /\ read' = [read EXCEPT ![c] = None]

(* What the handler does after transition answered ok. *)
Finish(c, k) ==
  \/ k.then = "none" /\ Rest(c)
  \/ k.then \in {"clear", "offer"} /\ Goto(c, k.then) /\ UNCHANGED <<call, asked, read>>

(* onlyFrom: the call is skipped elsewhere; the slip that forgets it. *)
SkipsNowhere(k) == FALSE
Skips(k) == row \notin k.only

(* transition reads the contract: it skips, refuses, finds nothing to move,  *)
(* or goes on to write.                                                      *)
Reads(c, k) ==
  LET allowed == /\ ~Skips(k)
                 /\ Permitted(row, k.to, k.source, k.reason, k.source = "undo_cancel")
  IN /\ UNCHANGED Contract
     /\ \/ ~allowed /\ Rest(c)
        \/ /\ allowed /\ row # k.to
           /\ Goto(c, "write")
           /\ call' = [call EXCEPT ![c] = k]
           /\ read' = [read EXCEPT ![c] = row]
           /\ UNCHANGED asked
        \/ /\ allowed /\ row = k.to
           /\ IF k.then = "offer"
                THEN /\ Goto(c, "offer") /\ call' = [call EXCEPT ![c] = k]
                     /\ read' = [read EXCEPT ![c] = row] /\ UNCHANGED asked
                ELSE Finish(c, k)

(* A call decides from the contract as it reads it, and asks transition. *)
Asks(c, k) ==
  /\ Goto(c, "asked")
  /\ call' = [call EXCEPT ![c] = k]
  /\ asked' = [asked EXCEPT ![c] = row]
  /\ UNCHANGED <<read, Contract>>
-----------------------------------------------------------------------------
(* A call of AutoCalls: its first look at the contract is transition's. *)
Flow(c) == Begin(c) /\ \E k \in AutoCalls : Reads(c, k)

(* POST /contracts/:id/stage and PATCH /contracts/:id: a person moves it.    *)
Hand(c) ==
  /\ Begin(c)
  /\ \E to \in Points \ {Cancelled}, reason \in BOOLEAN :
       /\ ManualPermitted(row, to, "manual", reason)
       /\ Asks(c, Call(to, ManualSource(row, to, "manual"), reason, Points, "none"))

(* The assistant's set_status, which offers to be undone. *)
Agent(c) ==
  /\ Begin(c)
  /\ \E to \in StatusPoints :
       /\ ManualPermitted(row, to, "agent", FALSE)
       /\ Asks(c, Call(to, ManualSource(row, to, "agent"), FALSE, Points, "offer"))

(* The offer is taken: only while the contract is where the move put it. *)
Undo(c) ==
  /\ pc[c] = "offer"
  /\ calls < MaxCalls /\ calls' = calls + 1
  /\ row = call[c].to
  /\ LET to == asked[c]
     IN Asks(c, Call(to, "undo", TRUE, Points,
                     IF row.stage = "active" /\ to.stage # "active" THEN "clear" ELSE "none"))

(* The offer is left. *)
Leave(c) == pc[c] = "offer" /\ Rest(c) /\ UNCHANGED <<Contract, calls>>

(* The date job read the contract among those whose date came: dateMove. *)
Dates(c) ==
  /\ Begin(c)
  /\ \E to \in Points :
       /\ \/ /\ row.stage = "active"
             /\ to \in {Expired, Point("closed", "terminated"), Point("active", "auto_renewed")}
          \/ row \in {Active, Point("active", "auto_renewed")} /\ to = Point("active", "expiring")
          \/ row = Expired /\ to = Active
       /\ Asks(c, Call(to, "dates", TRUE, Points, "none"))

(* submitForApproval: from a working stage, or again after a decline; the    *)
(* organisation's rules may approve it outright.                             *)
Submit(c) ==
  /\ Begin(c)
  /\ row.stage \in {"draft", "negotiate"} \/ row = Declined
  /\ \E to \in {Pending, Approved} : Asks(c, Call(to, "approval", FALSE, Points, "none"))

(* send-for-signature past its gate: approved, or out already, or a working  *)
(* stage where the organisation signs without approval.                      *)
Send(c) ==
  /\ Begin(c)
  /\ row.stage \in {"draft", "negotiate", "sign"} \/ row = Approved
  /\ Asks(c, Call(Point("sign", "out_for_signature"), "signature", FALSE, Points, "none"))

(* Bringing a cancelled contract back: its point is read first, then the     *)
(* latest stage event says where it was cancelled.                           *)
Uncancel(c) ==
  /\ Begin(c)
  /\ row = Cancelled
  /\ Goto(c, "restore")
  /\ UNCHANGED <<call, asked, read, Contract>>

(* The slip: back exactly where it was cancelled. *)
RestoredAsWas == IF cancelledAt = None THEN Point("draft", "drafting") ELSE cancelledAt

(* A flow that was stopped is not resumed. *)
RestoredPoint ==
  IF cancelledAt \in {None, Pending} THEN Point("draft", "drafting")
  ELSE IF cancelledAt \in PointsOf({"sign"}) THEN Approved
  ELSE cancelledAt

Restore(c) ==
  /\ pc[c] = "restore"
  /\ Goto(c, "asked")
  /\ call' = [call EXCEPT ![c] = Call(RestoredPoint, "undo_cancel", TRUE, Points, "none")]
  /\ UNCHANGED <<asked, read, Contract, calls>>
-----------------------------------------------------------------------------
(* transition: the read and the check. *)
Read(c) == pc[c] = "asked" /\ Reads(c, call[c]) /\ UNCHANGED calls

(* The contract is still where it was read; the slip that does not compare. *)
WriteAnyway(c) == TRUE
Unmoved(c) == row = read[c]

(* The compare-and-set, or a refusal when the contract moved meanwhile. *)
Write(c) ==
  /\ pc[c] = "write"
  /\ UNCHANGED <<cancelledAt, calls>>
  /\ IF Unmoved(c)
       THEN /\ row' = call[c].to
            /\ by' = call[c].source
            /\ executedAt' = (executedAt \/ (row'.stage = "active" /\ row.stage # "active"))
            /\ Goto(c, "record")
            /\ UNCHANGED <<call, asked, read>>
       ELSE Rest(c) /\ UNCHANGED <<row, by, executedAt>>

(* recordStageChange: the event, after the write. *)
Record(c) ==
  /\ pc[c] = "record"
  /\ cancelledAt' = IF call[c].to = Cancelled THEN read[c] ELSE None
  /\ Finish(c, call[c])
  /\ UNCHANGED <<row, by, executedAt, calls>>

(* An undone execution is no longer executed: a plain update. *)
Clear(c) ==
  /\ pc[c] = "clear"
  /\ executedAt' = FALSE
  /\ Rest(c)
  /\ UNCHANGED <<row, by, cancelledAt, calls>>

Next ==
  \E c \in Callers :
    \/ Flow(c) \/ Hand(c) \/ Agent(c) \/ Undo(c) \/ Leave(c) \/ Dates(c) \/ Submit(c)
    \/ Send(c) \/ Uncancel(c) \/ Restore(c) \/ Read(c) \/ Write(c) \/ Record(c) \/ Clear(c)

Spec == Init /\ [][Next]_vars
-----------------------------------------------------------------------------
TypeOK ==
  /\ row \in Points /\ by \in Sources /\ executedAt \in BOOLEAN
  /\ cancelledAt \in Points \union {None}
  /\ pc \in [Callers -> PCs]
  /\ call \in [Callers -> CallSet \union {None}]
  /\ asked \in [Callers -> Points \union {None}]
  /\ read \in [Callers -> Points \union {None}]
  /\ calls \in 0..MaxCalls

(* Whatever the interleaving, the contract moves only as ContractStages      *)
(* says: by moves allowed from the point it is at when the write lands.      *)
Promise == INSTANCE ContractStages
StagesImplemented == Promise!Spec

(* The rules of ContractStages that a reader of docs/47 relies on, of the    *)
(* interleaved callers.                                                      *)
SignedStays == Promise!SignedStays
DeclinedIsBarred == Promise!DeclinedIsBarred
ClosedStays == Promise!ClosedStays

(* A late decision of an approval must not pull back a contract moved        *)
(* meanwhile (lifecycle.ts onlyFrom): an approver's return or decline lands  *)
(* only on a contract still waiting for approval.                            *)
LateDecision ==
  [][row' # row /\ by' = "approval" /\ (row'.state = "returned" \/ row' = Declined) =>
       row = Pending]_vars

(* A cancelled contract that is brought back does not resume a flow that was *)
(* stopped: it is not waiting for approvers, not out for signature, not      *)
(* signed, whatever order the stage events were recorded in.                 *)
RestoredAtRest ==
  [][row = Cancelled /\ row' # row /\ by' = "undo_cancel" =>
       row' # Pending /\ row'.stage \notin {"sign", "active"}]_vars

(* "A contract waiting for approval moves when the approval workflow decides *)
(* it, not by hand" (contract-status.ts manualRefusal).                      *)
WaitingIsNotMovedByHand ==
  [][row = Pending /\ row' # row => by' \notin {"manual", "agent"}]_vars
=============================================================================
