---------------------------- MODULE ContractFlow ----------------------------
(***************************************************************************)
(* A contract, the versions of its document, its requests for approval and *)
(* its signature requests together: what each flow does to the others.     *)
(* Submitting and deciding (lib/approval-flow.ts, workflow-engine.ts), a   *)
(* new version of ours or theirs and the approvals it resets               *)
(* (lib/approval-reset.ts, routes/portal.ts), sending, signing, voiding,   *)
(* expiring and taking back (routes/signatures.ts), the reminder           *)
(* (workers/notification.worker.ts), cancelling                            *)
(* (routes/contract-lifecycle.ts).                                         *)
(*                                                                         *)
(* One step is one database write, or one read that is decided from.  A    *)
(* move of the contract is one step (Lifecycle shows that transition is),  *)
(* a request for approval is decided in one step (Approvals has its inner  *)
(* steps), and an envelope is signed by all its signers in one step.  A    *)
(* change resets the approvals of a request or carries them over.  Clause  *)
(* exceptions are left out, and the organisation does not sign without     *)
(* approval (settings.allowSignWithoutApproval, off by default).           *)
(***************************************************************************)
EXTENDS StageRules, Naturals, Sequences

CONSTANTS
  Handlers,      \* the requests in flight
  MaxVersions,   \* bound: versions of the document
  MaxRequests,   \* bound: requests for approval
  MaxEnvelopes,  \* bound: signature requests
  MaxCrashes,    \* bound: handlers that die half way
  AutoApproves   \* whether the organisation's rules may approve by themselves

ASSUME BoundsAssumption ==
  {MaxVersions, MaxRequests, MaxEnvelopes, MaxCrashes} \subseteq Nat /\ MaxVersions # 0
ASSUME AutoApprovesAssumption == AutoApproves \in BOOLEAN

VARIABLES
  point,      \* the contract's stage and state
  workedIn,   \* workingStageBefore: the stage it last went to approval or signature from
  version,    \* contracts.currentVersionId: the newest version
  requests,   \* its ApprovalInstances in order: [status, version]
  envelopes,  \* its SignatureRequests in order: [status, version]
  reminding,  \* the envelopes a reminder found open and past their date
  approved,   \* history: the versions an approval was given for, or carried to
  signed,     \* history: the envelopes that were completed
  pc, job,    \* where each handler is and what it read
  crashes

vars == <<point, workedIn, version, requests, envelopes, reminding, approved, signed, pc, job, crashes>>

Working == {"draft", "negotiate"}
Row(status, v) == [status |-> status, version |-> v]

(* What a handler keeps: a row and its status as read, a version, a point,   *)
(* and what kind of case it is.                                              *)
NoJob == [row |-> 0, seen |-> "none", version |-> 0, at |-> Point("draft", "drafting"), kind |-> "none"]

PCs == {"idle", "submit", "submitted", "unsubmit", "decided", "edited", "judge", "unapprove",
        "withdraw", "theirs", "arrive", "withdraw_auto", "carry", "reset", "reopened",
        "gate", "send", "sent", "complete", "completed", "stop", "stopped", "revert",
        "cancel", "cancelled"}

Init ==
  /\ workedIn \in Working
  /\ point = Point(workedIn, IF workedIn = "draft" THEN "drafting" ELSE "with_us")
  /\ version = 1 /\ requests = <<>> /\ envelopes = <<>>
  /\ reminding = {} /\ approved = {} /\ signed = {}
  /\ pc = [h \in Handlers |-> "idle"]
  /\ job = [h \in Handlers |-> NoJob]
  /\ crashes = 0
-----------------------------------------------------------------------------
Goto(h, where) == pc' = [pc EXCEPT ![h] = where]
Keep(h, j)     == job' = [job EXCEPT ![h] = j]
Rest(h)        == Goto(h, "idle") /\ Keep(h, NoJob)

Contract == <<point, workedIn>>
Out      == <<envelopes, reminding, signed>>
Rows     == <<requests, approved, Out>>

With(rows, statuses) == {i \in DOMAIN rows : rows[i].status \in statuses}
Newest(S) == CHOOSE i \in S : \A x \in S : x <= i

OpenRequests  == With(requests, {"PENDING"})
Standing      == With(requests, {"APPROVED", "AUTO_APPROVED"})
OpenEnvelopes == With(envelopes, {"PENDING"})

CanMoveUnchecked(to, source, only) == point \in only   \* the slip: no transitionRefusal
CanMove(to, source, only) == point \in only /\ Permitted(point, to, source, TRUE, FALSE)

(* transition, as one step: skipped or refused, nothing moves. *)
Move(to, source, only) ==
  IF CanMove(to, source, only)
    THEN /\ point' = to
         /\ workedIn' = IF point.stage \in Working /\ to.stage \in {"approve", "sign"}
                          THEN point.stage ELSE workedIn
    ELSE UNCHANGED Contract

(* A handler's last step moves the contract. *)
MoveAndRest(h, to, source, only) ==
  Move(to, source, only) /\ Rest(h) /\ UNCHANGED <<version, Rows, crashes>>

Set(rows, i, status) == [rows EXCEPT ![i].status = status]
-----------------------------------------------------------------------------
(* submitForApproval reads the contract and that no request is open; the     *)
(* organisation's rules may approve it by themselves.                        *)
Submit(h) ==
  /\ pc[h] = "idle" /\ Len(requests) < MaxRequests
  /\ point.stage \in Working \/ point = Declined
  /\ OpenRequests = {}
  /\ \E kind \in {"asked"} \union (IF AutoApproves THEN {"auto"} ELSE {}) :
       Keep(h, [NoJob EXCEPT !.version = version, !.kind = kind])
  /\ Goto(h, "submit")
  /\ UNCHANGED <<Contract, version, Rows, crashes>>

SubmitCreates(h) ==
  LET auto == job[h].kind = "auto"
  IN /\ pc[h] = "submit" /\ Len(requests) < MaxRequests
     /\ requests' = Append(requests, Row(IF auto THEN "AUTO_APPROVED" ELSE "PENDING", job[h].version))
     /\ approved' = approved \union (IF auto THEN {job[h].version} ELSE {})
     /\ Goto(h, "submitted")
     /\ Keep(h, [job[h] EXCEPT !.row = Len(requests')])
     /\ UNCHANGED <<Contract, version, Out, crashes>>

(* The contract follows; when it may not, an open request goes with it. *)
SubmitMoves(h) ==
  LET auto == job[h].kind = "auto"
      to   == IF auto THEN Approved ELSE Pending
  IN /\ pc[h] = "submitted"
     /\ IF auto \/ CanMove(to, "approval", Points)
          THEN MoveAndRest(h, to, "approval", Points)
          ELSE Goto(h, "unsubmit") /\ UNCHANGED <<Contract, version, Rows, job, crashes>>

Unsubmit(h) ==
  /\ pc[h] = "unsubmit"
  /\ requests' = Set(requests, job[h].row, "CANCELLED")
  /\ Rest(h)
  /\ UNCHANGED <<Contract, version, Out, approved, crashes>>

(* The round is over: advanceWorkflow or closeRound closes an open request.  *)
Decide(h) ==
  /\ pc[h] = "idle"
  /\ \E i \in OpenRequests, to \in {Approved, Declined, Point(workedIn, "returned")} :
       /\ requests' = Set(requests, i, IF to = Approved THEN "APPROVED" ELSE "REJECTED")
       /\ approved' = approved \union (IF to = Approved THEN {requests[i].version} ELSE {})
       /\ Keep(h, [NoJob EXCEPT !.at = to])
  /\ Goto(h, "decided")
  /\ UNCHANGED <<Contract, version, Out, crashes>>

DecisionMoves(h) == pc[h] = "decided" /\ MoveAndRest(h, job[h].at, "approval", {Pending})
-----------------------------------------------------------------------------
(* A new version of the document: ours (createHtmlVersion, which asks        *)
(* nothing of the stage) or the counterparty's.                              *)
NewVersion(h) ==
  /\ pc[h] = "idle" /\ version < MaxVersions
  /\ version' = version + 1
  /\ \E kind \in {"ours", "theirs"} : Keep(h, [NoJob EXCEPT !.version = version', !.kind = kind])
  /\ Goto(h, "edited")
  /\ UNCHANGED <<Contract, Rows, crashes>>

(* onApprovalChange reads the contract: only in Approve does it go on. *)
ReadStage(h) ==
  /\ pc[h] = "edited"
  /\ \/ point.stage = "approve" /\ Goto(h, "judge") /\ Keep(h, [job[h] EXCEPT !.at = point])
     \/ point.stage # "approve" /\ job[h].kind = "theirs" /\ Goto(h, "theirs") /\ UNCHANGED job
     \/ point.stage # "approve" /\ job[h].kind = "ours" /\ Rest(h)
  /\ UNCHANGED <<Contract, version, Rows, crashes>>

(* It reads the newest request that is open or stands. *)
Judge(h) ==
  LET live    == OpenRequests \union Standing
      i       == Newest(live)
      ours    == job[h].kind = "ours"
      next(S) == /\ \E where \in S : Goto(h, where)
                 /\ Keep(h, [job[h] EXCEPT !.row = i, !.seen = requests[i].status])
  IN /\ pc[h] = "judge"
     /\ \/ live = {} /\ ~ours /\ Goto(h, "theirs") /\ UNCHANGED job
        \/ live = {} /\ ours /\ job[h].at = Approved /\ Goto(h, "unapprove") /\ UNCHANGED job
        \/ live = {} /\ ours /\ job[h].at # Approved /\ Rest(h)
        \/ live # {} /\ ~ours /\ next({"withdraw"})
        \/ live # {} /\ ours /\ requests[i].status = "AUTO_APPROVED" /\ next({"withdraw_auto"})
        \/ live # {} /\ ours /\ requests[i].status # "AUTO_APPROVED" /\ next({"carry", "reset"})
     /\ UNCHANGED <<Contract, version, Rows, crashes>>

(* No request on record, or one that was approved automatically and is       *)
(* withdrawn: back to the stage it was worked in, to be submitted again.     *)
BackToWork == Point(workedIn, "drafting")

Unapprove(h) ==
  /\ pc[h] = "unapprove"
  /\ MoveAndRest(h, BackToWork, "edit",
                 IF job[h].row = 0 THEN {Approved} ELSE PointsOf({"approve"}))

WithdrawAuto(h) ==
  /\ pc[h] = "withdraw_auto"
  /\ requests' = IF requests[job[h].row].status = "AUTO_APPROVED"
                   THEN Set(requests, job[h].row, "CANCELLED") ELSE requests
  /\ Goto(h, "unapprove")
  /\ UNCHANGED <<Contract, version, Out, approved, job, crashes>>

(* The approvals given carry to the new version: a plain update. *)
Carry(h) ==
  LET i == job[h].row
  IN /\ pc[h] = "carry"
     /\ requests' = [requests EXCEPT ![i].version = job[h].version]
     /\ approved' = approved \union (IF requests[i].status \in {"APPROVED", "AUTO_APPROVED"}
                                       THEN {job[h].version} ELSE {})
     /\ Rest(h)
     /\ UNCHANGED <<Contract, version, Out, crashes>>

(* Asked again: a plain update, and the contract waits again if its request  *)
(* was closed when it was read.                                              *)
Reset(h) ==
  /\ pc[h] = "reset"
  /\ requests' = [requests EXCEPT ![job[h].row] = Row("PENDING", job[h].version)]
  /\ IF job[h].seen = "PENDING" THEN Rest(h) ELSE Goto(h, "reopened") /\ UNCHANGED job
  /\ UNCHANGED <<Contract, version, Out, approved, crashes>>

Reopened(h) == pc[h] = "reopened" /\ MoveAndRest(h, Pending, "edit", {Approved})

(* The counterparty's version withdraws the request, as it was read. *)
Withdraw(h) ==
  LET i == job[h].row
  IN /\ pc[h] = "withdraw"
     /\ requests' = IF requests[i].status = job[h].seen THEN Set(requests, i, "CANCELLED") ELSE requests
     /\ Goto(h, "theirs")
     /\ UNCHANGED <<Contract, version, Out, approved, job, crashes>>

(* onCounterpartyVersion reads whether an envelope is open, then moves.  A   *)
(* second call of it, when nothing was withdrawn, finds nothing more to do.  *)
Theirs(h) ==
  /\ pc[h] = "theirs"
  /\ Keep(h, [job[h] EXCEPT !.seen = IF OpenEnvelopes = {} THEN "none" ELSE "open"])
  /\ Goto(h, "arrive")
  /\ UNCHANGED <<Contract, version, Rows, crashes>>

(* From where their version takes the contract back; the slip that leaves    *)
(* Approve out.                                                              *)
TakenFromWork(h) == PointsOf(Working)
TakenFrom(h) ==
  PointsOf(Working \union {"approve"} \union (IF job[h].seen = "open" THEN {} ELSE {"sign"}))

Arrive(h) ==
  pc[h] = "arrive" /\ MoveAndRest(h, Point("negotiate", "with_us"), "counterparty", TakenFrom(h))
-----------------------------------------------------------------------------
(* send-for-signature reads the contract; signingGate then reads the newest  *)
(* standing request, and lets it pass when there is none.                    *)
Send(h) ==
  /\ pc[h] = "idle" /\ Len(envelopes) < MaxEnvelopes
  /\ point.stage = "sign" \/ point = Approved
  /\ Goto(h, "gate")
  /\ Keep(h, [NoJob EXCEPT !.version = version, !.at = point])
  /\ UNCHANGED <<Contract, version, Rows, crashes>>

Gate(h) ==
  /\ pc[h] = "gate"
  /\ IF \/ job[h].at.stage = "sign"
        \/ Standing = {}
        \/ requests[Newest(Standing)].version = job[h].version
       THEN Goto(h, "send") /\ UNCHANGED job
       ELSE Rest(h)
  /\ UNCHANGED <<Contract, version, Rows, crashes>>

SendCreates(h) ==
  /\ pc[h] = "send" /\ Len(envelopes) < MaxEnvelopes
  /\ envelopes' = Append(envelopes, Row("PENDING", job[h].version))
  /\ Goto(h, "sent")
  /\ UNCHANGED <<Contract, version, requests, reminding, approved, signed, job, crashes>>

SendMoves(h) ==
  pc[h] = "sent" /\ MoveAndRest(h, Point("sign", "out_for_signature"), "signature", Points)

(* A signer or the sender answers an envelope they see open: the last        *)
(* signature, a decline, a void.                                             *)
Answer(h) ==
  /\ pc[h] = "idle"
  /\ \E i \in OpenEnvelopes :
       \/ Goto(h, "complete") /\ Keep(h, [NoJob EXCEPT !.row = i])
       \/ \E how \in {"declined", "voided"} :
            Goto(h, "stop") /\ Keep(h, [NoJob EXCEPT !.row = i, !.at = Point("sign", how)])
  /\ UNCHANGED <<Contract, version, Rows, crashes>>

Signed(i, status) == signed' = signed \union (IF status = "COMPLETED" THEN {i} ELSE {})

(* The slips: an answer that writes over the one before it, and one that     *)
(* loses and goes on all the same.                                           *)
SettleBlindly(h, status, where) ==
  /\ envelopes' = Set(envelopes, job[h].row, status) /\ Signed(job[h].row, status) /\ Goto(h, where)
  /\ UNCHANGED <<Contract, version, requests, reminding, approved, job, crashes>>
SettleOrNot(h, status, where) ==
  /\ IF job[h].row \in OpenEnvelopes
       THEN envelopes' = Set(envelopes, job[h].row, status) /\ Signed(job[h].row, status)
       ELSE UNCHANGED <<envelopes, signed>>
  /\ Goto(h, where)
  /\ UNCHANGED <<Contract, version, requests, reminding, approved, job, crashes>>

(* Only from PENDING: of two answers at once one wins, and goes on. *)
Settle(h, status, where) ==
  LET i == job[h].row
  IN /\ IF envelopes[i].status = "PENDING"
          THEN envelopes' = Set(envelopes, i, status) /\ Signed(i, status) /\ Goto(h, where) /\ UNCHANGED job
          ELSE Rest(h) /\ UNCHANGED <<envelopes, signed>>
     /\ UNCHANGED <<Contract, version, requests, reminding, approved, crashes>>

Complete(h) == pc[h] = "complete" /\ Settle(h, "COMPLETED", "completed")
Stop(h)     == pc[h] = "stop" /\ Settle(h, "VOIDED", "stopped")

(* The slips: a contract whose other envelope was stopped is not executed,   *)
(* and a first stop is not shown.                                            *)
CompleteMovesOut(h) ==
  pc[h] = "completed" /\ MoveAndRest(h, Active, "signature", {Point("sign", "out_for_signature")})
StopMovesAgain(h) ==
  pc[h] = "stopped" /\ MoveAndRest(h, job[h].at, "signature", {Point("sign", "voided")})

CompleteMoves(h) == pc[h] = "completed" /\ MoveAndRest(h, Active, "signature", Points)
StopMoves(h) == pc[h] = "stopped" /\ MoveAndRest(h, job[h].at, "signature", PointsOf({"sign"}))

(* An envelope past its date is marked by whoever looks, only from PENDING;  *)
(* the contract stays.                                                       *)
Expire ==
  /\ \E i \in OpenEnvelopes : envelopes' = Set(envelopes, i, "EXPIRED")
  /\ UNCHANGED <<Contract, version, requests, reminding, approved, signed, pc, job, crashes>>

(* The reminder reads it open, and marks it by a plain update: over whatever *)
(* was answered in between.                                                  *)
Remind ==
  /\ \E i \in OpenEnvelopes : reminding' = reminding \union {i}
  /\ UNCHANGED <<Contract, version, requests, envelopes, approved, signed, pc, job, crashes>>

RemindExpires ==
  /\ \E i \in reminding :
       envelopes' = Set(envelopes, i, "EXPIRED") /\ reminding' = reminding \ {i}
  /\ UNCHANGED <<Contract, version, requests, approved, signed, pc, job, crashes>>

(* An approval stands for the version there is; the slip that forgets it is  *)
(* of a version.  No envelope is open; the slip that does not look.          *)
AnyStands == Standing # {}
ApprovalStands == Standing # {} /\ requests[Newest(Standing)].version = version
NeverOut == TRUE
NothingOut == OpenEnvelopes = {}

(* Taken back from signature, once nothing is open there: to Approve only    *)
(* while its approval stands for this version.                               *)
Revert(h) ==
  /\ pc[h] = "idle"
  /\ point.stage = "sign" /\ NothingOut
  /\ \E to \in {Approved, Point("draft", "drafting"), Point("negotiate", "with_us")} :
       /\ to = Approved => ApprovalStands
       /\ Keep(h, [NoJob EXCEPT !.at = to])
  /\ Goto(h, "revert")
  /\ UNCHANGED <<Contract, version, Rows, crashes>>

RevertMoves(h) == pc[h] = "revert" /\ MoveAndRest(h, job[h].at, "revert", PointsOf({"sign"}))

(* Cancelled, when no envelope is open; its open requests go with it. *)
Cancel(h) ==
  /\ pc[h] = "idle"
  /\ point.stage \in Cancellable /\ NothingOut
  /\ Goto(h, "cancel")
  /\ UNCHANGED <<Contract, version, Rows, job, crashes>>

CancelMoves(h) ==
  /\ pc[h] = "cancel"
  /\ Move(Cancelled, "cancel", Points)
  /\ IF CanMove(Cancelled, "cancel", Points) THEN Goto(h, "cancelled") /\ UNCHANGED job ELSE Rest(h)
  /\ UNCHANGED <<version, Rows, crashes>>

CancelRequests(h) ==
  /\ pc[h] = "cancelled"
  /\ requests' = [i \in DOMAIN requests |->
                    IF i \in OpenRequests THEN [requests[i] EXCEPT !.status = "CANCELLED"] ELSE requests[i]]
  /\ Rest(h)
  /\ UNCHANGED <<Contract, version, Out, approved, crashes>>

(* The process dies: what the handler did so far stays. *)
Crash(h) ==
  /\ pc[h] # "idle" /\ crashes < MaxCrashes
  /\ crashes' = crashes + 1
  /\ Rest(h)
  /\ UNCHANGED <<Contract, version, Rows>>

Next ==
  \/ \E h \in Handlers :
       \/ Submit(h) \/ SubmitCreates(h) \/ SubmitMoves(h) \/ Unsubmit(h)
       \/ Decide(h) \/ DecisionMoves(h)
       \/ NewVersion(h) \/ ReadStage(h) \/ Judge(h) \/ Unapprove(h) \/ WithdrawAuto(h)
       \/ Carry(h) \/ Reset(h) \/ Reopened(h) \/ Withdraw(h) \/ Theirs(h) \/ Arrive(h)
       \/ Send(h) \/ Gate(h) \/ SendCreates(h) \/ SendMoves(h)
       \/ Answer(h) \/ Complete(h) \/ CompleteMoves(h) \/ Stop(h) \/ StopMoves(h)
       \/ Revert(h) \/ RevertMoves(h)
       \/ Cancel(h) \/ CancelMoves(h) \/ CancelRequests(h)
       \/ Crash(h)
  \/ Expire \/ Remind \/ RemindExpires

Spec == Init /\ [][Next]_vars
-----------------------------------------------------------------------------
Statuses == {"PENDING", "APPROVED", "AUTO_APPROVED", "REJECTED", "CANCELLED"}

TypeOK ==
  /\ point \in Points /\ workedIn \in Working
  /\ version \in 1..MaxVersions /\ approved \subseteq 1..version
  /\ Len(requests) <= MaxRequests
  /\ \A i \in DOMAIN requests : requests[i].status \in Statuses /\ requests[i].version \in 1..version
  /\ Len(envelopes) <= MaxEnvelopes
  /\ \A i \in DOMAIN envelopes :
       /\ envelopes[i].status \in {"PENDING", "COMPLETED", "VOIDED", "EXPIRED"}
       /\ envelopes[i].version \in 1..version
  /\ reminding \subseteq DOMAIN envelopes /\ signed \subseteq DOMAIN envelopes
  /\ pc \in [Handlers -> PCs]
  /\ crashes \in 0..MaxCrashes

(* Of a signature and a void, a decline or an expiry of one envelope at once *)
(* exactly one wins, and no other answer is written over what won            *)
(* (signatures.ts, the flips only from PENDING).  Only a reminder is, that   *)
(* had read the envelope open: it marks it EXPIRED (notification.worker.ts). *)
SettledOnce ==
  [][\A i \in DOMAIN envelopes :
       envelopes[i].status # "PENDING" =>
         \/ envelopes'[i] = envelopes[i]
         \/ i \in reminding /\ envelopes'[i] = [envelopes[i] EXCEPT !.status = "EXPIRED"]]_vars

(* The flows put a contract in force only when an envelope of it was         *)
(* completed: an answer that lost to a void, a decline or an expiry does not *)
(* execute it.  A reminder may have marked the envelope EXPIRED since.  (By  *)
(* hand, signed outside the product: Lifecycle has that.)                    *)
ActiveIsSigned == point.stage = "active" => signed # {}

(* What holds between calls: nothing is half way.                            *)
AtRest == \A h \in Handlers : pc[h] = "idle"

(* A contract that waits for approval has a request somebody can decide:     *)
(* otherwise only cancelling gets it out of there.                           *)
PendingIsAsked == AtRest /\ point = Pending => OpenRequests # {}

(* An approved contract has a request that stands, and for the version it    *)
(* has now: edits reset it, carry it, or take the contract back.             *)
ApprovedStands ==
  AtRest /\ point = Approved =>
    Standing # {} /\ requests[Newest(Standing)].version = version

(* A cancelled contract has nobody deciding or signing it any more.          *)
CancelledIsQuiet == AtRest /\ point = Cancelled => OpenRequests = {} /\ OpenEnvelopes = {}

(* A contract shown as out for signature has an envelope that is open, or    *)
(* that was marked EXPIRED: nobody answered it in time.                      *)
OutHasAnEnvelope ==
  AtRest /\ point = Point("sign", "out_for_signature") =>
    With(envelopes, {"PENDING", "EXPIRED"}) # {}

(* A contract that everybody signed is in force, whatever else happened to   *)
(* it: another envelope voided, a version that arrived, a revert, a reminder *)
(* that marked the envelope EXPIRED after.                                   *)
SignedIsActive == AtRest /\ signed # {} => point.stage = "active"

(* "The steps that reset are marked RESET and asked again; the contract goes *)
(* back to waiting for approval" (approval-reset.ts): a request is open only *)
(* while its contract waits for it.                                          *)
AskedIsPending == AtRest /\ OpenRequests # {} => point = Pending

(* "approve to sign: approved, on this version" (docs/47): a contract that   *)
(* goes from Approve to Sign goes on a version an approval was given for or  *)
(* carried to.                                                               *)
SentAsApproved ==
  [][point.stage = "approve" /\ point'.stage = "sign" =>
       envelopes[Len(envelopes)].version \in approved]_vars
=============================================================================
