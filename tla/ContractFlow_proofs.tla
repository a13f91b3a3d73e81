------------------------- MODULE ContractFlow_proofs -------------------------
(***************************************************************************)
(* What ContractFlow shows of few handlers and short histories, for any    *)
(* handlers, and any number of versions, requests, envelopes and crashes.  *)
(* What holds between calls is shown of calls that run one at a time.      *)
(***************************************************************************)
EXTENDS ContractFlow, FiniteSetTheorems, SequenceTheorems, WellFoundedInduction, TLAPS

-----------------------------------------------------------------------------
(* What holds besides the types, however the handlers interleave.            *)

RowsOf(T)   == [status: T, version: Nat]
RequestRow  == RowsOf(Statuses)
EnvelopeRow == RowsOf({"PENDING", "COMPLETED", "VOIDED", "EXPIRED"})
Places == [stage: Stages, state: UNION {StageStates[s] : s \in Stages}]
Jobs == [row: Nat, seen: Statuses \union {"none", "open"}, version: Nat,
         at: Places, kind: {"none", "asked", "auto", "ours", "theirs"}]

ContractOK ==
  /\ point \in Points /\ workedIn \in Working
  /\ version \in 1..MaxVersions /\ approved \subseteq 1..version
  /\ crashes \in 0..MaxCrashes

RequestsOK ==
  /\ requests \in Seq(RequestRow) /\ Len(requests) <= MaxRequests
  /\ \A i \in DOMAIN requests : requests[i].version \in 1..version

EnvelopesOK ==
  /\ envelopes \in Seq(EnvelopeRow) /\ Len(envelopes) <= MaxEnvelopes
  /\ \A i \in DOMAIN envelopes : envelopes[i].version \in 1..version
  /\ reminding \subseteq DOMAIN envelopes /\ signed \subseteq DOMAIN envelopes

(* What a handler is about: a row there is, a version there is, where it may *)
(* take the contract; what it completed was completed.                       *)
Busy(h) ==
  /\ job[h].version \in 0..version
  /\ pc[h] \in {"submit", "edited", "judge", "withdraw", "theirs", "arrive", "carry", "reset",
                "gate", "send", "sent"} => job[h].version # 0
  /\ pc[h] \in {"submitted", "unsubmit", "withdraw", "withdraw_auto", "carry", "reset"}
       => job[h].row \in DOMAIN requests
  /\ pc[h] \in {"complete", "stop", "completed"} => job[h].row \in DOMAIN envelopes
  /\ pc[h] = "completed" => job[h].row \in signed
  /\ pc[h] \in {"decided", "stop", "stopped", "revert"} => job[h].at.stage # "active"

HandlersOK ==
  /\ pc \in [Handlers -> PCs] /\ job \in [Handlers -> Jobs]
  /\ \A h \in Handlers : Busy(h)

Inv == ContractOK /\ RequestsOK /\ EnvelopesOK /\ HandlersOK /\ ActiveIsSigned
-----------------------------------------------------------------------------
(* What holds of calls that run one at a time, none of which dies half way.  *)

OneCall == (\E h \in Handlers : Handlers = {h}) /\ MaxCrashes = 0

Live == OpenRequests \union Standing

(* Where the flows take a contract.                                          *)
FlowPoints == PointsOf({"draft", "negotiate", "approve", "sign", "active"}) \union {Cancelled}

(* An open request is the newest of those that count, and the only open one; *)
(* without rules that approve by themselves none was approved by itself.     *)
OpenIsNewest == \A i \in OpenRequests : \A j \in Live : j <= i
NoneAuto     == ~AutoApproves => \A i \in DOMAIN requests : requests[i].status # "AUTO_APPROVED"

OpenIsCurrent  == \A i \in OpenRequests : requests[i].version = version
OpenIsAsked    == OpenRequests # {} => point \in {Pending, Declined}
OutIsInSign    == OpenEnvelopes # {} => point.stage \in {"sign", "active"}
PendingHasOpen == point = Pending => OpenRequests # {}
ApprovedHasOne == ~AutoApproves /\ point = Approved => Standing # {}
ApprovedIsThis == ~AutoApproves /\ point = Approved => ApprovalStands
OutIsShown     == point = Point("sign", "out_for_signature")
                    => With(envelopes, {"PENDING", "EXPIRED"}) # {}
SignedMoved    == signed # {} => point.stage = "active"

Submittable == point.stage \in Working \/ point = Declined
Sendable    == point.stage = "sign" \/ point = Approved

(* Which of it a call suspends, and where.                                   *)
Between(h) ==
  /\ OpenIsNewest /\ NoneAuto /\ point \in FlowPoints
  /\ pc[h] \notin {"edited", "judge", "withdraw", "carry", "reset"} => OpenIsCurrent
  /\ pc[h] \notin {"submitted", "reopened", "cancelled"} => OpenIsAsked
  /\ pc[h] # "sent" => OutIsInSign
  /\ pc[h] \notin {"decided", "theirs", "arrive"} => PendingHasOpen
  /\ pc[h] \notin {"theirs", "arrive", "reopened"} => ApprovedHasOne
  /\ pc[h] \notin {"edited", "judge", "withdraw", "carry", "reset", "theirs", "arrive", "reopened"}
       => ApprovedIsThis
  /\ pc[h] \notin {"completed", "stopped"} => OutIsShown
  /\ pc[h] # "completed" => SignedMoved

(* What a call knows where it stands.                                        *)
Knows(h) ==
  /\ pc[h] # "unsubmit"
  /\ pc[h] \in {"submit", "submitted"} =>
       /\ Submittable /\ job[h].kind \in {"asked", "auto"}
       /\ job[h].kind = "auto" => AutoApproves
  /\ pc[h] = "submit" => OpenRequests = {} /\ job[h].version = version
  /\ pc[h] = "submitted" => (OpenRequests = {} <=> job[h].kind = "auto")
  /\ pc[h] \in {"withdraw_auto", "unapprove"} =>
       AutoApproves /\ OpenRequests = {} /\ point.stage = "approve"
  /\ pc[h] = "decided" =>
       /\ OpenRequests = {} /\ point \in {Pending, Declined}
       /\ job[h].at \in {Approved, Declined, Point(workedIn, "returned")}
       /\ job[h].at = Approved => ApprovalStands
  /\ pc[h] \in {"edited", "judge", "withdraw", "carry", "reset"} =>
       job[h].version = version /\ job[h].kind \in {"ours", "theirs"}
  /\ pc[h] \in {"judge", "withdraw", "carry", "reset"} => point.stage = "approve"
  /\ pc[h] = "judge" => job[h].at = point
  /\ pc[h] \in {"withdraw", "carry", "reset"} =>
       /\ job[h].row \in Live /\ \A x \in Live : x <= job[h].row
       /\ job[h].seen = requests[job[h].row].status
  /\ pc[h] = "reopened" => point \in {Approved, Declined} /\ OpenRequests # {}
  /\ pc[h] \in {"theirs", "arrive"} => OpenRequests = {}
  /\ pc[h] = "arrive" /\ job[h].seen # "open" => OpenEnvelopes = {}
  /\ pc[h] \in {"gate", "send", "sent"} => Sendable
  /\ pc[h] = "sent" => With(envelopes, {"PENDING", "EXPIRED"}) # {}
  /\ pc[h] \in {"completed", "stopped"} => point.stage \in {"sign", "active"}
  /\ pc[h] \in {"stop", "stopped"} => job[h].at \in {Point("sign", "declined"), Point("sign", "voided")}
  /\ pc[h] = "revert" =>
       /\ point.stage = "sign" /\ OpenEnvelopes = {}
       /\ job[h].at \in {Approved, Point("draft", "drafting"), Point("negotiate", "with_us")}
       /\ job[h].at = Approved => ApprovalStands
  /\ pc[h] = "cancel" => point.stage \in Cancellable /\ OpenEnvelopes = {}
  /\ pc[h] = "cancelled" => point = Cancelled /\ OpenEnvelopes = {}

CallInv == \A h \in Handlers : Between(h) /\ Knows(h)
-----------------------------------------------------------------------------
(* Points, and moving between them.                                          *)

LEMMA PointIs ==
  ASSUME NEW p \in Points
  PROVE  /\ p.stage \in Stages /\ p.state \in StageStates[p.stage]
         /\ p = Point(p.stage, p.state) /\ p \in Places
<1>0. PICK s \in Stages : p \in {Point(s, x) : x \in StageStates[s]}
  BY DEF Points
<1>1. PICK x \in StageStates[s] : p = Point(s, x)
  BY <1>0
<1>. QED
  BY <1>1 DEF Point, Places

LEMMA MoveIs ==
  ASSUME NEW to, NEW source, NEW only, Move(to, source, only), ContractOK
  PROVE  /\ workedIn' \in Working
         /\ \/ point' = to /\ to \in Points /\ CanMove(to, source, only)
            \/ point' = point /\ workedIn' = workedIn /\ ~CanMove(to, source, only)
<1>1. CASE CanMove(to, source, only)
  <2>1. to \in Points
    BY <1>1 DEF CanMove, Permitted, Belongs
  <2>. QED
    BY <1>1, <2>1 DEF Move, ContractOK
<1>2. CASE ~CanMove(to, source, only)
  BY <1>2 DEF Move, Contract, ContractOK
<1>. QED
  BY <1>1, <1>2

-----------------------------------------------------------------------------
(* Rows.                                                                     *)

LEMMA SetIs ==
  ASSUME NEW T, NEW s \in Seq(RowsOf(T)), NEW i \in DOMAIN s, NEW x \in T
  PROVE  /\ Set(s, i, x) \in Seq(RowsOf(T)) /\ DOMAIN Set(s, i, x) = DOMAIN s
         /\ Len(Set(s, i, x)) = Len(s) /\ Len(s) \in Nat
         /\ Set(s, i, x)[i].status = x /\ Set(s, i, x)[i].version = s[i].version
         /\ \A j \in DOMAIN s \ {i} : Set(s, i, x)[j] = s[j]
<1>. DEFINE r == [s[i] EXCEPT !.status = x]
<1>1. i \in 1..Len(s) /\ DOMAIN s = 1..Len(s) /\ Len(s) \in Nat /\ s[i] \in RowsOf(T)
  BY LenProperties, ElementOfSeq
<1>2. r \in RowsOf(T) /\ r.status = x /\ r.version = s[i].version
  BY <1>1 DEF RowsOf
<1>3. Set(s, i, x) = [s EXCEPT ![i] = r]
  BY <1>1 DEF Set
<1>. HIDE DEF r
<1>4. [s EXCEPT ![i] = r] \in Seq(RowsOf(T)) /\ Len([s EXCEPT ![i] = r]) = Len(s)
  BY <1>1, <1>2, ExceptSeq
<1>. QED
  BY <1>1, <1>2, <1>3, <1>4

LEMMA RequestRowIs ==
  ASSUME RequestsOK, NEW i \in DOMAIN requests
  PROVE  requests[i] \in RequestRow /\ requests[i].status \in Statuses /\ i \in Nat
<1>1. requests[i] \in RequestRow /\ i \in Nat
  BY LenProperties, ElementOfSeq DEF RequestsOK
<1>. QED
  BY <1>1 DEF RequestRow, RowsOf

LEMMA AppendIs ==
  ASSUME NEW S, NEW s \in Seq(S), NEW r \in S
  PROVE  LET t == Append(s, r)
         IN  /\ t \in Seq(S) /\ Len(t) = Len(s) + 1 /\ Len(s) \in Nat
             /\ Len(t) \in DOMAIN t /\ Len(t) \notin DOMAIN s
             /\ DOMAIN t = DOMAIN s \union {Len(t)} /\ t[Len(t)] = r
             /\ \A j \in DOMAIN s : t[j] = s[j] /\ j < Len(t)
  BY LenProperties

(* What an envelope became stays, unless a reminder had read it open.        *)
Stands(i) ==
  envelopes[i].status # "PENDING" =>
    \/ envelopes'[i] = envelopes[i]
    \/ i \in reminding /\ envelopes'[i] = [envelopes[i] EXCEPT !.status = "EXPIRED"]

(* What a step leaves there: rows stay, and what was completed.              *)
Grown ==
  /\ version' \in Nat /\ version <= version'
  /\ DOMAIN requests \subseteq DOMAIN requests'
  /\ DOMAIN envelopes \subseteq DOMAIN envelopes'
  /\ signed \subseteq signed'
  /\ \A i \in DOMAIN envelopes : Stands(i)

LEMMA OthersBusy ==
  ASSUME Inv, Grown, NEW h \in Handlers, pc'[h] = pc[h], job'[h] = job[h]
  PROVE  Busy(h)'
<1>1. Busy(h) /\ version \in Nat /\ job[h].version \in Nat
  BY DEF Inv, HandlersOK, ContractOK, Jobs
<1>2. job'[h].version \in 0..version'
  BY <1>1 DEF Busy, Grown
<1>. QED
  BY <1>1, <1>2 DEF Busy, Grown

(* One handler goes on to where it knows what it must.                       *)
LEMMA Goes ==
  ASSUME Inv, Grown, NEW h \in Handlers, NEW where \in PCs, NEW j \in Jobs,
         pc' = [pc EXCEPT ![h] = where], job' = [job EXCEPT ![h] = j], Busy(h)'
  PROVE  HandlersOK'
<1>1. \A g \in Handlers \ {h} : pc'[g] = pc[g] /\ job'[g] = job[g]
  BY DEF Inv, HandlersOK
<1>. QED
  BY <1>1, OthersBusy DEF Inv, HandlersOK

LEMMA NoJobIs == NoJob \in Jobs /\ NoJob.version = 0
<1>1. Point("draft", "drafting") \in Places
  BY DEF Places, Point, Stages, StageStates
<1>. QED
  BY <1>1 DEF NoJob, Jobs

LEMMA Rests ==
  ASSUME Inv, Grown, NEW h \in Handlers, Rest(h)
  PROVE  HandlersOK' /\ pc'[h] = "idle" /\ job'[h] = NoJob
<1>1. "idle" \in PCs /\ pc' = [pc EXCEPT ![h] = "idle"] /\ job' = [job EXCEPT ![h] = NoJob]
  BY DEF Rest, Goto, Keep, PCs
<1>2. pc'[h] = "idle" /\ job'[h] = NoJob
  BY <1>1 DEF Inv, HandlersOK
<1>3. 0 \in 0..version'
  BY DEF Grown
<1>4. Busy(h)'
  BY <1>2, <1>3, NoJobIs DEF Busy
<1>. QED
  BY <1>1, <1>2, <1>4, NoJobIs, Goes

LEMMA InitInv == ASSUME Init PROVE Inv
<1>. USE DEF Init
<1>1. ContractOK
  <2>1. point \in Points
    BY DEF Points, Working, Stages, StageStates
  <2>. QED
    BY <2>1, BoundsAssumption DEF ContractOK
<1>2. RequestsOK /\ EnvelopesOK
  BY EmptySeq, BoundsAssumption DEF RequestsOK, EnvelopesOK
<1>3. HandlersOK
  BY NoJobIs DEF HandlersOK, Busy, PCs
<1>4. ActiveIsSigned
  BY DEF ActiveIsSigned, Point, Working
<1>. QED
  BY <1>1, <1>2, <1>3, <1>4 DEF Inv
-----------------------------------------------------------------------------
(* The flows leave a contract in force, and a cancelled one, where it is.    *)
FlowSources == {"approval", "edit", "counterparty", "signature", "revert", "cancel"}

EndsKept ==
  /\ point.stage = "active" => point'.stage = "active"
  /\ point = Cancelled => point' = Cancelled

Good == Inv' /\ Grown /\ EndsKept

LEMMA EndsAreKept ==
  ASSUME NEW to, NEW source \in FlowSources, NEW only, Move(to, source, only), ContractOK
  PROVE  EndsKept
<1>1. CASE point' = to /\ CanMove(to, source, only)
  <2>1. Permitted(point, to, source, TRUE, FALSE)
    BY <1>1 DEF CanMove
  <2>2. ASSUME point.stage = "active" PROVE to.stage = "active"
    <3>1. DOMAIN Via["active"] = {"closed"} /\ Via["active"]["closed"] = {"dates", "manual", "agent", "system"}
      BY DEF Via
    <3>2. ~TableAllows(point, to, source, TRUE)
      BY <2>2, <3>1 DEF TableAllows, FlowSources
    <3>. QED
      BY <2>1, <2>2, <3>2 DEF Permitted, FlowSources, Cancellable, Cancelled, Point
  <2>3. ASSUME point = Cancelled PROVE to = Cancelled
    BY <2>1, <2>3 DEF Permitted, FlowSources, Cancellable, Cancelled, Expired, Point
  <2>. QED
    BY <1>1, <2>2, <2>3 DEF EndsKept
<1>2. CASE point' = point
  BY <1>2 DEF EndsKept
<1>. QED
  BY <1>1, <1>2, MoveIs

(* A handler moves the contract, where else than into force, and rests.      *)
LEMMA MovesAndRests ==
  ASSUME Inv, NEW h \in Handlers, NEW to, NEW source \in FlowSources, NEW only,
         to.stage = "active" => signed # {},
         MoveAndRest(h, to, source, only)
  PROVE  Good
<1>1. /\ Move(to, source, only) /\ Rest(h) /\ version' = version /\ requests' = requests
      /\ approved' = approved /\ UNCHANGED Out /\ crashes' = crashes
  BY DEF MoveAndRest, Rows, Out
<1>2. Grown
  BY <1>1 DEF Grown, Stands, Inv, ContractOK, Out
<1>3. ContractOK'
  BY <1>1, MoveIs DEF Inv, ContractOK
<1>4. ActiveIsSigned'
  BY <1>1, MoveIs DEF Inv, ActiveIsSigned, Out
<1>5. RequestsOK' /\ EnvelopesOK'
  BY <1>1 DEF Inv, RequestsOK, EnvelopesOK, Out
<1>6. HandlersOK'
  BY <1>1, <1>2, Rests
<1>7. EndsKept
  BY <1>1, EndsAreKept DEF Inv
<1>. QED
  BY <1>2, <1>3, <1>4, <1>5, <1>6, <1>7 DEF Good, Inv

(* A handler only reads.                                                     *)
LEMMA Reads ==
  ASSUME Inv, NEW h \in Handlers, UNCHANGED <<Contract, version, Rows, crashes>>,
         NEW where \in PCs, NEW j \in Jobs,
         pc' = [pc EXCEPT ![h] = where], job' = [job EXCEPT ![h] = j], Busy(h)'
  PROVE  Good
<1>1. Grown
  BY DEF Grown, Stands, Inv, ContractOK, Rows, Out
<1>2. ContractOK' /\ RequestsOK' /\ EnvelopesOK' /\ ActiveIsSigned' /\ EndsKept
  BY DEF Inv, ContractOK, RequestsOK, EnvelopesOK, ActiveIsSigned, Contract, Rows, Out, EndsKept
<1>. QED
  BY <1>1, <1>2, Goes DEF Good, Inv

LEMMA ReadsAndRests ==
  ASSUME Inv, NEW h \in Handlers, UNCHANGED <<Contract, version, Rows, crashes>>, Rest(h)
  PROVE  Good
<1>1. Grown
  BY DEF Grown, Stands, Inv, ContractOK, Rows, Out
<1>2. ContractOK' /\ RequestsOK' /\ EnvelopesOK' /\ ActiveIsSigned' /\ EndsKept
  BY DEF Inv, ContractOK, RequestsOK, EnvelopesOK, ActiveIsSigned, Contract, Rows, Out, EndsKept
<1>. QED
  BY <1>1, <1>2, Rests DEF Good, Inv

(* A handler writes the requests: their rows stay.                           *)
LEMMA WritesRequests ==
  ASSUME Inv, UNCHANGED <<Contract, version, Out, crashes>>,
         RequestsOK', DOMAIN requests \subseteq DOMAIN requests', approved' \subseteq 1..version,
         Grown => HandlersOK'
  PROVE  Good
<1>1. Grown
  BY DEF Grown, Stands, Inv, ContractOK, Out
<1>2. ContractOK' /\ EnvelopesOK' /\ ActiveIsSigned' /\ EndsKept
  BY DEF Inv, ContractOK, EnvelopesOK, ActiveIsSigned, Contract, Out, EndsKept
<1>. QED
  BY <1>1, <1>2 DEF Good, Inv

(* The envelopes are written: what one became stands.                        *)
LEMMA WritesEnvelopes ==
  ASSUME Inv, UNCHANGED <<Contract, version, requests, approved, crashes>>,
         EnvelopesOK', DOMAIN envelopes \subseteq DOMAIN envelopes', signed \subseteq signed',
         \A i \in DOMAIN envelopes : Stands(i),
         Grown => HandlersOK'
  PROVE  Good
<1>1. Grown
  BY DEF Grown, Inv, ContractOK
<1>2. ContractOK' /\ RequestsOK' /\ EndsKept
  BY DEF Inv, ContractOK, RequestsOK, Contract, EndsKept
<1>3. ActiveIsSigned'
  BY DEF Inv, ActiveIsSigned, Contract
<1>. QED
  BY <1>1, <1>2, <1>3 DEF Good, Inv
-----------------------------------------------------------------------------
(* The requests, one action at a time.                                       *)

LEMMA TypesAre ==
  ASSUME Inv, NEW h \in Handlers
  PROVE  /\ version \in Nat \ {0} /\ job[h] \in Jobs /\ pc[h] \in PCs /\ Busy(h)
         /\ job' = job => job' = [job EXCEPT ![h] = job[h]]
         /\ \A j \in Jobs : [job EXCEPT ![h] = j][h] = j
         /\ \A w \in PCs : [pc EXCEPT ![h] = w][h] = w
         /\ point \in Points /\ point \in Places
  BY PointIs DEF Inv, ContractOK, HandlersOK

LEMMA SubmitStep == ASSUME Inv, NEW h \in Handlers, Submit(h) PROVE Good
<1>1. PICK kind \in {"asked", "auto"} :
        job' = [job EXCEPT ![h] = [NoJob EXCEPT !.version = version, !.kind = kind]]
  BY DEF Submit, Keep
<1>. DEFINE j == [NoJob EXCEPT !.version = version, !.kind = kind]
<1>2. j \in Jobs /\ j.version = version
  BY TypesAre, NoJobIs DEF Jobs, NoJob
<1>3. pc' = [pc EXCEPT ![h] = "submit"] /\ UNCHANGED <<Contract, version, Rows, crashes>>
  BY DEF Submit, Goto
<1>. HIDE DEF j
<1>4. pc'[h] = "submit" /\ job'[h] = j
  BY <1>1, <1>2, <1>3, TypesAre DEF PCs, j
<1>5. Busy(h)'
  BY <1>2, <1>3, <1>4, TypesAre DEF Busy
<1>. QED
  BY <1>1, <1>2, <1>3, <1>5, Reads DEF PCs, j

LEMMA SubmitCreatesStep == ASSUME Inv, NEW h \in Handlers, SubmitCreates(h) PROVE Good
<1>. DEFINE r == Row(IF job[h].kind = "auto" THEN "AUTO_APPROVED" ELSE "PENDING", job[h].version)
            j == [job[h] EXCEPT !.row = Len(requests')]
<1>1. /\ pc[h] = "submit" /\ Len(requests) < MaxRequests /\ requests' = Append(requests, r)
      /\ approved' \in {approved, approved \union {job[h].version}}
      /\ pc' = [pc EXCEPT ![h] = "submitted"] /\ job' = [job EXCEPT ![h] = j]
      /\ UNCHANGED <<Contract, version, Out, crashes>>
  BY DEF SubmitCreates, Goto, Keep
<1>2. job[h].version \in 1..version /\ r \in RequestRow /\ r.version = job[h].version
  <2>1. job[h].version \in 1..version /\ version \in Nat
    <3>1. pc[h] = "submit" /\ Busy(h) /\ version \in Nat
      BY <1>1, TypesAre
    <3>. QED
      BY <3>1 DEF Busy
  <2>. QED
    BY <2>1 DEF Row, RequestRow, RowsOf, Statuses
<1>. HIDE DEF r
<1>3. /\ requests' \in Seq(RequestRow) /\ Len(requests') = Len(requests) + 1 /\ Len(requests) \in Nat
      /\ Len(requests') \in DOMAIN requests' /\ requests'[Len(requests')] = r
      /\ DOMAIN requests' = DOMAIN requests \union {Len(requests')}
      /\ \A i \in DOMAIN requests : requests'[i] = requests[i]
  BY <1>1, <1>2, AppendIs DEF Inv, RequestsOK
<1>4. RequestsOK'
  BY <1>1, <1>2, <1>3, BoundsAssumption DEF Inv, RequestsOK
<1>5. j \in Jobs /\ j.row = Len(requests') /\ j.version = job[h].version
  BY <1>3, TypesAre DEF Jobs
<1>. HIDE DEF j
<1>a. "submitted" \in PCs
  BY DEF PCs
<1>6. pc'[h] = "submitted" /\ job'[h] = j
  BY <1>1, <1>5, <1>a, TypesAre
<1>7. Busy(h)'
  BY <1>1, <1>2, <1>3, <1>5, <1>6 DEF Busy
<1>8. Grown => HandlersOK'
  BY <1>1, <1>5, <1>7, Goes DEF PCs
<1>9. approved' \subseteq 1..version
  BY <1>1, <1>2 DEF Inv, ContractOK
<1>. QED
  BY <1>1, <1>3, <1>4, <1>8, <1>9, WritesRequests

LEMMA SubmitMovesStep == ASSUME Inv, NEW h \in Handlers, SubmitMoves(h) PROVE Good
<1>. DEFINE to == IF job[h].kind = "auto" THEN Approved ELSE Pending
<1>1. CASE MoveAndRest(h, to, "approval", Points)
  <2>1. to.stage # "active" /\ "approval" \in FlowSources
    BY DEF Approved, Pending, Point, FlowSources
  <2>. HIDE DEF to
  <2>. QED
    BY <1>1, <2>1, MovesAndRests
<1>2. CASE pc' = [pc EXCEPT ![h] = "unsubmit"] /\ UNCHANGED <<Contract, version, Rows, job, crashes>>
  <2>1. pc'[h] = "unsubmit" /\ "unsubmit" \in PCs
    BY <1>2, TypesAre DEF PCs
  <2>2. Busy(h)'
    BY <1>2, <2>1, TypesAre DEF SubmitMoves, Busy, Rows, Out
  <2>. QED
    BY <1>2, <2>1, <2>2, TypesAre, Reads
<1>. QED
  BY <1>1, <1>2 DEF SubmitMoves, Goto

(* One request changes status, or is left, and its handler rests.            *)
LEMMA SetsRequest ==
  ASSUME Inv, NEW i \in DOMAIN requests, NEW x \in Statuses, requests' = Set(requests, i, x),
         UNCHANGED version
  PROVE  RequestsOK' /\ DOMAIN requests' = DOMAIN requests
<1>1. /\ requests \in Seq(RowsOf(Statuses)) /\ Len(requests) <= MaxRequests
      /\ \A k \in DOMAIN requests : requests[k].version \in 1..version
  BY DEF Inv, RequestsOK, RequestRow
<1>2. /\ requests' \in Seq(RowsOf(Statuses)) /\ DOMAIN requests' = DOMAIN requests
      /\ Len(requests') = Len(requests) /\ requests'[i].version = requests[i].version
      /\ \A k \in DOMAIN requests \ {i} : requests'[k] = requests[k]
  BY <1>1, SetIs
<1>. QED
  BY <1>1, <1>2 DEF RequestsOK, RequestRow

LEMMA UnsubmitStep == ASSUME Inv, NEW h \in Handlers, Unsubmit(h) PROVE Good
<1>1. /\ job[h].row \in DOMAIN requests /\ requests' = Set(requests, job[h].row, "CANCELLED")
      /\ Rest(h) /\ UNCHANGED <<Contract, version, Out, approved, crashes>>
  BY TypesAre DEF Unsubmit, Busy
<1>2. RequestsOK' /\ DOMAIN requests' = DOMAIN requests
  BY <1>1, SetsRequest DEF Statuses
<1>3. Grown => HandlersOK'
  BY <1>1, Rests
<1>. QED
  BY <1>1, <1>2, <1>3, WritesRequests DEF Inv, ContractOK

LEMMA DecideStep == ASSUME Inv, NEW h \in Handlers, Decide(h) PROVE Good
<1>1. PICK i \in OpenRequests, to \in {Approved, Declined, Point(workedIn, "returned")} :
        /\ requests' = Set(requests, i, IF to = Approved THEN "APPROVED" ELSE "REJECTED")
        /\ approved' = approved \union (IF to = Approved THEN {requests[i].version} ELSE {})
        /\ job' = [job EXCEPT ![h] = [NoJob EXCEPT !.at = to]]
  BY DEF Decide, Keep
<1>2. pc' = [pc EXCEPT ![h] = "decided"] /\ UNCHANGED <<Contract, version, Out, crashes>>
  BY DEF Decide, Goto
<1>3. i \in DOMAIN requests
  BY DEF OpenRequests, With
<1>4. RequestsOK' /\ DOMAIN requests' = DOMAIN requests
  BY <1>1, <1>2, <1>3, SetsRequest DEF Statuses
<1>5. approved' \subseteq 1..version
  BY <1>1, <1>3 DEF Inv, ContractOK, RequestsOK
<1>. DEFINE j == [NoJob EXCEPT !.at = to]
<1>6. j \in Jobs /\ j.version = 0 /\ j.at = to
  <2>1. to \in Places
    BY DEF Inv, ContractOK, Working, Places, Point, Approved, Declined, Stages, StageStates
  <2>. QED
    BY <2>1, NoJobIs DEF Jobs, NoJob
<1>7. to.stage # "active"
  BY DEF Inv, ContractOK, Working, Point, Approved, Declined
<1>. HIDE DEF j
<1>8. pc'[h] = "decided" /\ job'[h] = j
  BY <1>1, <1>2, <1>6, TypesAre DEF PCs, j
<1>9. Busy(h)'
  BY <1>2, <1>6, <1>7, <1>8, TypesAre DEF Busy
<1>10. Grown => HandlersOK'
  BY <1>1, <1>2, <1>6, <1>9, Goes DEF PCs, j
<1>. QED
  BY <1>2, <1>4, <1>5, <1>10, WritesRequests

LEMMA DecisionMovesStep == ASSUME Inv, NEW h \in Handlers, DecisionMoves(h) PROVE Good
  BY TypesAre, MovesAndRests DEF DecisionMoves, Busy, FlowSources
-----------------------------------------------------------------------------
(* A change of the document, one action at a time.                           *)

(* Of some rows there is a newest: Newest chooses it.                        *)
LEMMA NewestIs ==
  ASSUME NEW n \in Nat, NEW S \in SUBSET (1..n), S # {}
  PROVE  Newest(S) \in S /\ \A x \in S : x <= Newest(S)
<1>. DEFINE T == {x..n : x \in S}
<1>1. T \subseteq FiniteSubsetsOf(Nat) /\ T # {}
  <2>1. ASSUME NEW x \in S PROVE x..n \in FiniteSubsetsOf(Nat)
    <3>1. IsFiniteSet(x..n)
      BY FS_Interval
    <3>2. x..n \in SUBSET Nat
      OBVIOUS
    <3>. QED
      BY <3>1, <3>2 DEF FiniteSubsetsOf
  <2>. QED
    BY <2>1
<1>2. PICK y \in T : \A z \in T : <<z, y>> \notin StrictSubsetOrdering(Nat)
  <2>. HIDE DEF T
  <2>. QED
    BY <1>1, FS_StrictSubsetOrderingWellFounded, WFMin
<1>3. PICK m \in S : y = m..n
  OBVIOUS
<1>4. ASSUME NEW x \in S PROVE x <= m
  <2>1. ~((x..n) \subseteq (m..n) /\ x..n # m..n)
    <3>1. <<x..n, m..n>> \in (SUBSET Nat) \X (SUBSET Nat)
      OBVIOUS
    <3>2. <<x..n, m..n>> \notin StrictSubsetOrdering(Nat)
      BY <1>2, <1>3
    <3>. QED
      BY <3>1, <3>2, Zenon DEF StrictSubsetOrdering
  <2>2. CASE x <= m
    BY <2>2
  <2>3. CASE m < x
    <3>1. (x..n) \subseteq (m..n)
      BY <2>3
    <3>2. m \in m..n /\ m \notin x..n
      BY <2>3
    <3>. QED
      BY <2>1, <3>1, <3>2
  <2>. QED
    BY <2>2, <2>3
<1>. QED
  BY <1>4 DEF Newest

LEMMA NewestRow ==
  ASSUME RequestsOK, NEW S, S \subseteq DOMAIN requests, S # {}
  PROVE  /\ Newest(S) \in S /\ Newest(S) \in DOMAIN requests
         /\ \A x \in S : x <= Newest(S)
<1>1. DOMAIN requests = 1..Len(requests) /\ Len(requests) \in Nat
  BY LenProperties DEF RequestsOK
<1>. QED
  BY <1>1, NewestIs

LEMMA NewVersionStep == ASSUME Inv, NEW h \in Handlers, NewVersion(h) PROVE Good
<1>1. PICK kind \in {"ours", "theirs"} :
        job' = [job EXCEPT ![h] = [NoJob EXCEPT !.version = version', !.kind = kind]]
  BY DEF NewVersion, Keep
<1>2. /\ version' = version + 1 /\ version < MaxVersions /\ pc' = [pc EXCEPT ![h] = "edited"]
      /\ UNCHANGED <<point, workedIn, requests, envelopes, reminding, approved, signed, crashes>>
  BY DEF NewVersion, Goto, Contract, Rows, Out
<1>3. Grown
  BY <1>2 DEF Grown, Stands, Inv, ContractOK
<1>4. ContractOK'
  BY <1>2, BoundsAssumption DEF Inv, ContractOK
<1>5. RequestsOK' /\ EnvelopesOK' /\ ActiveIsSigned' /\ EndsKept
  <2>1. \A v \in 1..version : v \in 1..version'
    BY <1>2 DEF Inv, ContractOK
  <2>. QED
    BY <1>2, <2>1 DEF Inv, RequestsOK, EnvelopesOK, ActiveIsSigned, EndsKept
<1>. DEFINE j == [NoJob EXCEPT !.version = version', !.kind = kind]
<1>6. j \in Jobs /\ j.version = version'
  BY <1>3, NoJobIs DEF Grown, Jobs, NoJob
<1>. HIDE DEF j
<1>7. pc'[h] = "edited" /\ job'[h] = j
  BY <1>1, <1>2, <1>6, TypesAre DEF PCs, j
<1>8. Busy(h)'
  BY <1>2, <1>6, <1>7, TypesAre DEF Busy
<1>9. HandlersOK'
  BY <1>1, <1>2, <1>3, <1>6, <1>8, Goes DEF PCs, j
<1>. QED
  BY <1>3, <1>4, <1>5, <1>9 DEF Good, Inv

LEMMA ReadStageStep == ASSUME Inv, NEW h \in Handlers, ReadStage(h) PROVE Good
<1>1. pc[h] = "edited" /\ UNCHANGED <<Contract, version, Rows, crashes>> /\ job[h].version \in 1..version
  <2>1. pc[h] = "edited" /\ Busy(h) /\ version \in Nat
    BY TypesAre DEF ReadStage
  <2>2. job[h].version \in 1..version
    BY <2>1 DEF Busy
  <2>. QED
    BY <2>1, <2>2 DEF ReadStage
<1>2. CASE Rest(h)
  BY <1>1, <1>2, ReadsAndRests
<1>3. CASE pc' = [pc EXCEPT ![h] = "theirs"] /\ job' = job
  <2>1. pc'[h] = "theirs" /\ "theirs" \in PCs
    BY <1>3, TypesAre DEF PCs
  <2>2. Busy(h)'
    BY <1>1, <1>3, <2>1 DEF Busy
  <2>. QED
    BY <1>1, <1>3, <2>1, <2>2, TypesAre, Reads
<1>4. CASE pc' = [pc EXCEPT ![h] = "judge"] /\ job' = [job EXCEPT ![h] = [job[h] EXCEPT !.at = point]]
  <2>. DEFINE j == [job[h] EXCEPT !.at = point]
  <2>1. j \in Jobs /\ j.version = job[h].version
    BY TypesAre DEF Jobs
  <2>. HIDE DEF j
  <2>a. "judge" \in PCs
    BY DEF PCs
  <2>b. job' = [job EXCEPT ![h] = j]
    BY <1>4 DEF j
  <2>2. pc'[h] = "judge" /\ job'[h] = j /\ "judge" \in PCs
    BY <1>4, <2>1, <2>a, <2>b, TypesAre
  <2>3. Busy(h)'
    BY <1>1, <2>1, <2>2 DEF Busy
  <2>. QED
    BY <1>1, <1>4, <2>1, <2>2, <2>3, Reads DEF j
<1>. QED
  BY <1>2, <1>3, <1>4 DEF ReadStage, Goto, Keep

LEMMA JudgeStep == ASSUME Inv, NEW h \in Handlers, Judge(h) PROVE Good
<1>. DEFINE live == OpenRequests \union Standing
            i    == Newest(live)
            j    == [job[h] EXCEPT !.row = i, !.seen = requests[i].status]
<1>1. /\ pc[h] = "judge" /\ UNCHANGED <<Contract, version, Rows, crashes>>
      /\ job[h].version \in 1..version /\ job[h] \in Jobs
  <2>1. pc[h] = "judge" /\ Busy(h) /\ version \in Nat
    BY TypesAre DEF Judge
  <2>2. job[h].version \in 1..version
    BY <2>1 DEF Busy
  <2>. QED
    BY <2>1, <2>2, TypesAre DEF Judge
<1>2. CASE Rest(h)
  BY <1>1, <1>2, ReadsAndRests
<1>3. ASSUME NEW where \in {"theirs", "unapprove"}, Goto(h, where), job' = job PROVE Good
  <2>1. pc'[h] = where /\ where \in PCs /\ pc' = [pc EXCEPT ![h] = where]
    BY <1>3, TypesAre DEF PCs, Goto
  <2>2. Busy(h)'
    BY <1>1, <1>3, <2>1 DEF Busy
  <2>. QED
    BY <1>1, <1>3, <2>1, <2>2, TypesAre, Reads
<1>4. ASSUME NEW where \in {"withdraw", "withdraw_auto", "carry", "reset"}, live # {},
             Goto(h, where), Keep(h, j)
      PROVE  Good
  <2>1. i \in DOMAIN requests /\ i \in Nat /\ requests[i].status \in Statuses
    <3>1. live \subseteq DOMAIN requests
      BY DEF OpenRequests, Standing, With
    <3>2. i \in DOMAIN requests
      BY <1>4, <3>1, NewestRow DEF Inv
    <3>. QED
      BY <3>2, RequestRowIs, LenProperties DEF Inv, RequestsOK
  <2>. HIDE DEF live, i
  <2>2. j \in Jobs /\ j.version = job[h].version /\ j.row = i
    BY <1>1, <2>1 DEF Jobs
  <2>. HIDE DEF j
  <2>3. pc'[h] = where /\ where \in PCs /\ pc' = [pc EXCEPT ![h] = where]
    BY <1>4, TypesAre DEF PCs, Goto
  <2>4. job'[h] = j /\ job' = [job EXCEPT ![h] = j]
    BY <1>4, <2>2, TypesAre DEF Keep
  <2>5. Busy(h)'
    BY <1>1, <1>4, <2>1, <2>2, <2>3, <2>4 DEF Busy, Rows, Out
  <2>. QED
    BY <1>1, <2>2, <2>3, <2>4, <2>5, Reads
<1>. HIDE DEF live, i, j
<1>. QED
  BY <1>2, <1>3, <1>4 DEF Judge, live, i, j

LEMMA UnapproveStep == ASSUME Inv, NEW h \in Handlers, Unapprove(h) PROVE Good
<1>1. BackToWork.stage # "active"
  BY DEF BackToWork, Point, Inv, ContractOK, Working
<1>. QED
  BY <1>1, MovesAndRests DEF Unapprove, FlowSources

LEMMA ReopenedStep == ASSUME Inv, NEW h \in Handlers, Reopened(h) PROVE Good
  BY MovesAndRests DEF Reopened, FlowSources, Pending, Point

LEMMA ArriveStep == ASSUME Inv, NEW h \in Handlers, Arrive(h) PROVE Good
  BY MovesAndRests DEF Arrive, FlowSources, Point

(* A request withdrawn, or left as it is: to what follows, the job kept.     *)
LEMMA Withdraws ==
  ASSUME Inv, NEW h \in Handlers, job[h].row \in DOMAIN requests,
         requests' \in {requests, Set(requests, job[h].row, "CANCELLED")},
         NEW where \in {"unapprove", "theirs"}, Goto(h, where),
         where = "theirs" => job[h].version # 0,
         UNCHANGED <<Contract, version, Out, approved, job, crashes>>
  PROVE  Good
<1>1. RequestsOK' /\ DOMAIN requests' = DOMAIN requests
  BY SetsRequest DEF Statuses, Inv, RequestsOK
<1>2. pc'[h] = where /\ where \in PCs /\ pc' = [pc EXCEPT ![h] = where]
  BY TypesAre DEF PCs, Goto
<1>3. Busy(h)'
  BY <1>1, <1>2, TypesAre DEF Busy
<1>4. Grown => HandlersOK'
  BY <1>2, <1>3, TypesAre, Goes
<1>. QED
  BY <1>1, <1>4, WritesRequests DEF Inv, ContractOK

LEMMA WithdrawAutoStep == ASSUME Inv, NEW h \in Handlers, WithdrawAuto(h) PROVE Good
<1>1. pc[h] = "withdraw_auto" /\ Busy(h)
  BY TypesAre DEF WithdrawAuto
<1>. QED
  BY <1>1, Withdraws DEF WithdrawAuto, Busy

LEMMA WithdrawStep == ASSUME Inv, NEW h \in Handlers, Withdraw(h) PROVE Good
<1>1. pc[h] = "withdraw" /\ Busy(h)
  BY TypesAre DEF Withdraw
<1>. QED
  BY <1>1, Withdraws DEF Withdraw, Busy

(* A row written over, at its place.                                         *)
LEMMA WritesOver ==
  ASSUME Inv, NEW i \in DOMAIN requests, NEW r \in RequestRow, r.version \in 1..version,
         requests' = [requests EXCEPT ![i] = r], UNCHANGED version
  PROVE  RequestsOK' /\ DOMAIN requests' = DOMAIN requests
<1>1. i \in 1..Len(requests) /\ DOMAIN requests = 1..Len(requests) /\ requests \in Seq(RequestRow)
  BY LenProperties DEF Inv, RequestsOK
<1>2. requests' \in Seq(RequestRow) /\ Len(requests') = Len(requests) /\ DOMAIN requests' = DOMAIN requests
  BY <1>1, ExceptSeq
<1>. QED
  BY <1>1, <1>2 DEF Inv, RequestsOK

LEMMA CarryStep == ASSUME Inv, NEW h \in Handlers, Carry(h) PROVE Good
<1>. DEFINE i == job[h].row
            r == [requests[i] EXCEPT !.version = job[h].version]
<1>1. i \in DOMAIN requests /\ job[h].version \in 1..version
  <2>1. pc[h] = "carry" /\ Busy(h) /\ version \in Nat
    BY TypesAre DEF Carry
  <2>. QED
    BY <2>1 DEF Busy
<1>2. requests[i] \in RequestRow
  BY <1>1, RequestRowIs DEF Inv
<1>3. r \in RequestRow /\ r.version = job[h].version
  BY <1>1, <1>2, TypesAre DEF RequestRow, RowsOf, Jobs
<1>4. /\ requests' = [requests EXCEPT ![i] = r] /\ Rest(h)
      /\ approved' \in {approved, approved \union {job[h].version}}
      /\ UNCHANGED <<Contract, version, Out, crashes>>
  BY <1>1 DEF Carry
<1>. HIDE DEF r
<1>5. RequestsOK' /\ DOMAIN requests' = DOMAIN requests
  BY <1>1, <1>3, <1>4, WritesOver
<1>6. approved' \subseteq 1..version
  BY <1>1, <1>4 DEF Inv, ContractOK
<1>. QED
  BY <1>4, <1>5, <1>6, WritesRequests, Rests

LEMMA ResetStep == ASSUME Inv, NEW h \in Handlers, Reset(h) PROVE Good
<1>. DEFINE r == Row("PENDING", job[h].version)
<1>1. job[h].row \in DOMAIN requests /\ job[h].version \in 1..version
  <2>1. pc[h] = "reset" /\ Busy(h) /\ version \in Nat
    BY TypesAre DEF Reset
  <2>. QED
    BY <2>1 DEF Busy
<1>2. r \in RequestRow /\ r.version = job[h].version
  BY <1>1, TypesAre DEF RequestRow, RowsOf, Jobs, Row, Statuses
<1>3. /\ requests' = [requests EXCEPT ![job[h].row] = r]
      /\ UNCHANGED <<Contract, version, Out, approved, crashes>>
  BY DEF Reset
<1>. HIDE DEF r
<1>4. RequestsOK' /\ DOMAIN requests' = DOMAIN requests
  BY <1>1, <1>2, <1>3, WritesOver
<1>5. CASE Rest(h)
  BY <1>3, <1>4, <1>5, WritesRequests, Rests DEF Inv, ContractOK
<1>6. CASE Goto(h, "reopened") /\ job' = job
  <2>1. pc'[h] = "reopened" /\ "reopened" \in PCs /\ pc' = [pc EXCEPT ![h] = "reopened"]
    BY <1>6, TypesAre DEF PCs, Goto
  <2>2. Busy(h)'
    BY <1>3, <1>6, <2>1, TypesAre DEF Busy
  <2>3. Grown => HandlersOK'
    BY <1>6, <2>1, <2>2, TypesAre, Goes
  <2>. QED
    BY <1>3, <1>4, <2>3, WritesRequests DEF Inv, ContractOK
<1>. QED
  BY <1>5, <1>6 DEF Reset

LEMMA TheirsStep == ASSUME Inv, NEW h \in Handlers, Theirs(h) PROVE Good
<1>. DEFINE j == [job[h] EXCEPT !.seen = IF OpenEnvelopes = {} THEN "none" ELSE "open"]
<1>1. /\ Goto(h, "arrive") /\ Keep(h, j) /\ UNCHANGED <<Contract, version, Rows, crashes>>
      /\ job[h].version \in 1..version
  <2>1. pc[h] = "theirs" /\ Busy(h) /\ version \in Nat
    BY TypesAre DEF Theirs
  <2>. QED
    BY <2>1 DEF Busy, Theirs
<1>2. j \in Jobs /\ j.version = job[h].version
  BY TypesAre DEF Jobs
<1>. HIDE DEF j
<1>a. "arrive" \in PCs
  BY DEF PCs
<1>3. /\ pc'[h] = "arrive" /\ "arrive" \in PCs /\ pc' = [pc EXCEPT ![h] = "arrive"]
      /\ job'[h] = j /\ job' = [job EXCEPT ![h] = j]
  BY <1>1, <1>2, <1>a, TypesAre DEF Goto, Keep
<1>4. Busy(h)'
  BY <1>1, <1>2, <1>3 DEF Busy
<1>. QED
  BY <1>1, <1>2, <1>3, <1>4, Reads
-----------------------------------------------------------------------------
(* Signature, taking back and cancelling, one action at a time.              *)

LEMMA SendStep == ASSUME Inv, NEW h \in Handlers, Send(h) PROVE Good
<1>. DEFINE j == [NoJob EXCEPT !.version = version, !.at = point]
<1>1. j \in Jobs /\ j.version = version
  BY TypesAre, NoJobIs DEF Jobs, NoJob
<1>2. Goto(h, "gate") /\ Keep(h, j) /\ UNCHANGED <<Contract, version, Rows, crashes>>
  BY DEF Send
<1>. HIDE DEF j
<1>3. /\ pc'[h] = "gate" /\ "gate" \in PCs /\ pc' = [pc EXCEPT ![h] = "gate"]
      /\ job'[h] = j /\ job' = [job EXCEPT ![h] = j]
  BY <1>1, <1>2, TypesAre DEF PCs, Goto, Keep
<1>4. version' = version /\ version \in Nat \ {0}
  BY <1>2, TypesAre
<1>5. Busy(h)'
  BY <1>1, <1>3, <1>4 DEF Busy
<1>. QED
  BY <1>1, <1>2, <1>3, <1>5, Reads

LEMMA GateStep == ASSUME Inv, NEW h \in Handlers, Gate(h) PROVE Good
<1>1. /\ pc[h] = "gate" /\ Busy(h) /\ UNCHANGED <<Contract, version, Rows, crashes>>
  BY TypesAre DEF Gate
<1>2. CASE Rest(h)
  BY <1>1, <1>2, ReadsAndRests
<1>3. CASE Goto(h, "send") /\ job' = job
  <2>1. pc'[h] = "send" /\ "send" \in PCs /\ pc' = [pc EXCEPT ![h] = "send"]
    BY <1>3, TypesAre DEF PCs, Goto
  <2>2. Busy(h)'
    BY <1>1, <1>3, <2>1 DEF Busy
  <2>. QED
    BY <1>1, <1>3, <2>1, <2>2, TypesAre, Reads
<1>. QED
  BY <1>2, <1>3 DEF Gate

LEMMA SendCreatesStep == ASSUME Inv, NEW h \in Handlers, SendCreates(h) PROVE Good
<1>. DEFINE r == Row("PENDING", job[h].version)
<1>1. job[h].version \in 1..version /\ job[h] \in Jobs
  <2>1. pc[h] = "send" /\ Busy(h) /\ version \in Nat
    BY TypesAre DEF SendCreates
  <2>. QED
    BY <2>1, TypesAre DEF Busy
<1>2. /\ Len(envelopes) < MaxEnvelopes /\ envelopes' = Append(envelopes, r) /\ Goto(h, "sent")
      /\ UNCHANGED <<Contract, version, requests, reminding, approved, signed, job, crashes>>
  BY DEF SendCreates
<1>3. r \in EnvelopeRow /\ r.version = job[h].version
  BY <1>1 DEF Row, EnvelopeRow, RowsOf
<1>. HIDE DEF r
<1>4. /\ envelopes' \in Seq(EnvelopeRow) /\ Len(envelopes') = Len(envelopes) + 1 /\ Len(envelopes) \in Nat
      /\ envelopes'[Len(envelopes')] = r
      /\ DOMAIN envelopes' = DOMAIN envelopes \union {Len(envelopes')}
      /\ \A i \in DOMAIN envelopes : envelopes'[i] = envelopes[i]
  BY <1>2, <1>3, AppendIs DEF Inv, EnvelopesOK
<1>5. EnvelopesOK'
  BY <1>1, <1>2, <1>3, <1>4, BoundsAssumption DEF Inv, EnvelopesOK
<1>6. pc'[h] = "sent" /\ "sent" \in PCs /\ pc' = [pc EXCEPT ![h] = "sent"]
  BY <1>2, TypesAre DEF PCs, Goto
<1>7. Busy(h)'
  BY <1>1, <1>2, <1>6 DEF Busy
<1>8. Grown => HandlersOK'
  BY <1>2, <1>6, <1>7, TypesAre, Goes
<1>. QED
  BY <1>2, <1>4, <1>5, <1>8, WritesEnvelopes DEF Stands

LEMMA SendMovesStep == ASSUME Inv, NEW h \in Handlers, SendMoves(h) PROVE Good
  BY MovesAndRests DEF SendMoves, FlowSources, Point

LEMMA AnswerStep == ASSUME Inv, NEW h \in Handlers, Answer(h) PROVE Good
<1>1. UNCHANGED <<Contract, version, Rows, crashes>>
  BY DEF Answer
<1>2. PICK i \in OpenEnvelopes :
        \/ Goto(h, "complete") /\ Keep(h, [NoJob EXCEPT !.row = i])
        \/ \E how \in {"declined", "voided"} :
             Goto(h, "stop") /\ Keep(h, [NoJob EXCEPT !.row = i, !.at = Point("sign", how)])
  BY DEF Answer
<1>3. i \in DOMAIN envelopes /\ i \in Nat
  BY LenProperties DEF OpenEnvelopes, With, Inv, EnvelopesOK
<1>4. ASSUME NEW j \in Jobs, j.row = i, j.version = 0, NEW where \in {"complete", "stop"},
             where = "stop" => j.at.stage # "active", Goto(h, where), Keep(h, j)
      PROVE  Good
  <2>1. pc' = [pc EXCEPT ![h] = where] /\ where \in PCs /\ job' = [job EXCEPT ![h] = j]
    BY <1>4 DEF PCs, Goto, Keep
  <2>2. pc'[h] = where /\ job'[h] = j
    BY <1>4, <2>1, TypesAre
  <2>3. version' = version /\ version \in Nat /\ envelopes' = envelopes
    BY <1>1, TypesAre DEF Rows, Out
  <2>4. Busy(h)'
    BY <1>3, <1>4, <2>2, <2>3 DEF Busy
  <2>. QED
    BY <1>1, <1>4, <2>1, <2>4, Reads
<1>5. CASE Goto(h, "complete") /\ Keep(h, [NoJob EXCEPT !.row = i])
  <2>. DEFINE j == [NoJob EXCEPT !.row = i]
  <2>1. j \in Jobs /\ j.row = i /\ j.version = 0
    BY <1>3, NoJobIs DEF Jobs, NoJob
  <2>. QED
    BY <1>4, <1>5, <2>1
<1>6. ASSUME NEW how \in {"declined", "voided"},
             Goto(h, "stop"), Keep(h, [NoJob EXCEPT !.row = i, !.at = Point("sign", how)])
      PROVE  Good
  <2>. DEFINE j == [NoJob EXCEPT !.row = i, !.at = Point("sign", how)]
  <2>1. Point("sign", how) \in Places /\ Point("sign", how).stage = "sign"
    BY DEF Places, Point, Stages, StageStates
  <2>2. j \in Jobs /\ j.row = i /\ j.version = 0 /\ j.at = Point("sign", how)
    BY <1>3, <2>1, NoJobIs DEF Jobs, NoJob
  <2>. HIDE DEF j
  <2>. QED
    BY <1>4, <1>6, <2>1, <2>2 DEF j
<1>. QED
  BY <1>2, <1>5, <1>6

(* One envelope changes status: an open one, or one a reminder read open.    *)
LEMMA SetsEnvelope ==
  ASSUME Inv, NEW i \in DOMAIN envelopes, NEW x \in {"COMPLETED", "VOIDED", "EXPIRED"},
         i \in OpenEnvelopes \/ (i \in reminding /\ x = "EXPIRED"),
         envelopes' = Set(envelopes, i, x), UNCHANGED version,
         reminding' \subseteq DOMAIN envelopes, signed' \subseteq DOMAIN envelopes
  PROVE  /\ EnvelopesOK' /\ DOMAIN envelopes' = DOMAIN envelopes
         /\ \A k \in DOMAIN envelopes : Stands(k)
<1>. DEFINE T == {"PENDING", "COMPLETED", "VOIDED", "EXPIRED"}
<1>1. /\ envelopes \in Seq(RowsOf(T)) /\ Len(envelopes) <= MaxEnvelopes /\ x \in T
      /\ i \in OpenEnvelopes => envelopes[i].status = "PENDING"
      /\ \A k \in DOMAIN envelopes : envelopes[k].version \in 1..version
  BY DEF Inv, EnvelopesOK, EnvelopeRow, OpenEnvelopes, With
<1>. HIDE DEF T
<1>2. /\ envelopes' \in Seq(RowsOf(T)) /\ DOMAIN envelopes' = DOMAIN envelopes
      /\ Len(envelopes') = Len(envelopes) /\ envelopes'[i].version = envelopes[i].version
      /\ \A k \in DOMAIN envelopes \ {i} : envelopes'[k] = envelopes[k]
  BY <1>1, SetIs
<1>3. envelopes'[i] = [envelopes[i] EXCEPT !.status = x]
  BY DEF Set
<1>4. EnvelopesOK'
  BY <1>1, <1>2 DEF EnvelopesOK, EnvelopeRow, T
<1>5. \A k \in DOMAIN envelopes : Stands(k)
  BY <1>1, <1>2, <1>3 DEF Stands
<1>. QED
  BY <1>2, <1>4, <1>5

LEMMA SettleStep ==
  ASSUME Inv, NEW h \in Handlers, NEW x \in {"COMPLETED", "VOIDED"},
         NEW where \in {"completed", "stopped"}, where = "completed" => x = "COMPLETED",
         where = "stopped" => pc[h] = "stop", pc[h] \in {"complete", "stop"}, Settle(h, x, where)
  PROVE  Good
<1>1. pc[h] \in {"complete", "stop"} /\ Busy(h)
  BY TypesAre
<1>2. job[h].row \in DOMAIN envelopes /\ job[h].version \in 0..version
  BY <1>1 DEF Busy
<1>3. CASE Rest(h) /\ UNCHANGED <<Contract, version, Rows, crashes>>
  BY <1>3, ReadsAndRests
<1>4. CASE /\ job[h].row \in OpenEnvelopes /\ envelopes' = Set(envelopes, job[h].row, x)
           /\ Signed(job[h].row, x) /\ Goto(h, where)
           /\ UNCHANGED <<Contract, version, requests, reminding, approved, job, crashes>>
  <2>0. /\ reminding' \subseteq DOMAIN envelopes /\ signed' \subseteq DOMAIN envelopes
        /\ signed \subseteq signed' /\ (where = "completed" => job[h].row \in signed')
    BY <1>2, <1>4 DEF Signed, Inv, EnvelopesOK
  <2>1. /\ EnvelopesOK' /\ DOMAIN envelopes' = DOMAIN envelopes
        /\ \A k \in DOMAIN envelopes : Stands(k)
    BY <1>2, <1>4, <2>0, SetsEnvelope
  <2>2. pc'[h] = where /\ where \in PCs /\ pc' = [pc EXCEPT ![h] = where]
    BY <1>4, TypesAre DEF PCs, Goto
  <2>3. where = "stopped" => job[h].at.stage # "active"
    BY <1>1 DEF Busy
  <2>4. Busy(h)'
    BY <1>2, <1>4, <2>0, <2>1, <2>2, <2>3 DEF Busy
  <2>5. Grown => HandlersOK'
    BY <1>4, <2>2, <2>4, TypesAre, Goes
  <2>. QED
    BY <1>4, <2>0, <2>1, <2>5, WritesEnvelopes
<1>. QED
  BY <1>2, <1>3, <1>4 DEF Settle, OpenEnvelopes, With, Rows, Out

LEMMA CompleteStep == ASSUME Inv, NEW h \in Handlers, Complete(h) PROVE Good
  BY SettleStep DEF Complete

LEMMA StopStep == ASSUME Inv, NEW h \in Handlers, Stop(h) PROVE Good
  BY SettleStep DEF Stop

LEMMA CompleteMovesStep == ASSUME Inv, NEW h \in Handlers, CompleteMoves(h) PROVE Good
<1>1. pc[h] = "completed" /\ Busy(h) /\ MoveAndRest(h, Active, "signature", Points)
  BY TypesAre DEF CompleteMoves
<1>2. signed # {}
  BY <1>1 DEF Busy, With
<1>. QED
  BY <1>1, <1>2, MovesAndRests DEF FlowSources

LEMMA StopMovesStep == ASSUME Inv, NEW h \in Handlers, StopMoves(h) PROVE Good
<1>1. pc[h] = "stopped" /\ Busy(h)
  BY TypesAre DEF StopMoves
<1>. QED
  BY <1>1, MovesAndRests DEF StopMoves, Busy, FlowSources

LEMMA ExpireStep == ASSUME Inv, Expire PROVE Good
<1>1. PICK i \in OpenEnvelopes : envelopes' = Set(envelopes, i, "EXPIRED")
  BY DEF Expire
<1>2. UNCHANGED <<Contract, version, requests, reminding, approved, signed, pc, job, crashes>>
  BY DEF Expire
<1>3. /\ EnvelopesOK' /\ DOMAIN envelopes' = DOMAIN envelopes
      /\ \A k \in DOMAIN envelopes : Stands(k)
  BY <1>1, <1>2, SetsEnvelope DEF OpenEnvelopes, With, Inv, EnvelopesOK
<1>4. Grown => HandlersOK'
  BY <1>2, OthersBusy DEF Inv, HandlersOK
<1>. QED
  BY <1>2, <1>3, <1>4, WritesEnvelopes

LEMMA RemindStep == ASSUME Inv, Remind PROVE Good
<1>1. /\ UNCHANGED <<Contract, version, requests, envelopes, approved, signed, pc, job, crashes>>
      /\ reminding' \subseteq DOMAIN envelopes
  BY DEF Remind, OpenEnvelopes, With, Inv, EnvelopesOK
<1>2. EnvelopesOK'
  BY <1>1 DEF Inv, EnvelopesOK
<1>3. Grown => HandlersOK'
  BY <1>1, OthersBusy DEF Inv, HandlersOK
<1>. QED
  BY <1>1, <1>2, <1>3, WritesEnvelopes DEF Stands

LEMMA RemindExpiresStep == ASSUME Inv, RemindExpires PROVE Good
<1>1. PICK i \in reminding :
        envelopes' = Set(envelopes, i, "EXPIRED") /\ reminding' = reminding \ {i}
  BY DEF RemindExpires
<1>2. UNCHANGED <<Contract, version, requests, approved, signed, pc, job, crashes>>
  BY DEF RemindExpires
<1>3. /\ EnvelopesOK' /\ DOMAIN envelopes' = DOMAIN envelopes
      /\ \A k \in DOMAIN envelopes : Stands(k)
  BY <1>1, <1>2, SetsEnvelope DEF Inv, EnvelopesOK
<1>4. Grown => HandlersOK'
  BY <1>2, OthersBusy DEF Inv, HandlersOK
<1>. QED
  BY <1>2, <1>3, <1>4, WritesEnvelopes

LEMMA RevertStep == ASSUME Inv, NEW h \in Handlers, Revert(h) PROVE Good
<1>1. PICK to \in {Approved, Point("draft", "drafting"), Point("negotiate", "with_us")} :
        Keep(h, [NoJob EXCEPT !.at = to])
  BY DEF Revert
<1>. DEFINE j == [NoJob EXCEPT !.at = to]
<1>2. to \in Places /\ to.stage # "active"
  BY DEF Places, Point, Approved, Stages, StageStates
<1>3. j \in Jobs /\ j.version = 0 /\ j.at = to
  BY <1>2, NoJobIs DEF Jobs, NoJob
<1>4. Keep(h, j) /\ Goto(h, "revert") /\ UNCHANGED <<Contract, version, Rows, crashes>>
  BY <1>1 DEF Revert
<1>. HIDE DEF j
<1>5. /\ pc'[h] = "revert" /\ "revert" \in PCs /\ pc' = [pc EXCEPT ![h] = "revert"]
      /\ job'[h] = j /\ job' = [job EXCEPT ![h] = j]
  BY <1>3, <1>4, TypesAre DEF PCs, Goto, Keep
<1>6. version' = version /\ version \in Nat
  BY <1>4, TypesAre
<1>7. Busy(h)'
  BY <1>2, <1>3, <1>5, <1>6 DEF Busy
<1>. QED
  BY <1>3, <1>4, <1>5, <1>7, Reads

LEMMA RevertMovesStep == ASSUME Inv, NEW h \in Handlers, RevertMoves(h) PROVE Good
<1>1. pc[h] = "revert" /\ Busy(h)
  BY TypesAre DEF RevertMoves
<1>. QED
  BY <1>1, MovesAndRests DEF RevertMoves, Busy, FlowSources

LEMMA CancelStep == ASSUME Inv, NEW h \in Handlers, Cancel(h) PROVE Good
<1>1. /\ Goto(h, "cancel") /\ UNCHANGED <<Contract, version, Rows, job, crashes>>
  BY DEF Cancel
<1>2. pc'[h] = "cancel" /\ "cancel" \in PCs /\ pc' = [pc EXCEPT ![h] = "cancel"]
  BY <1>1, TypesAre DEF PCs, Goto
<1>3. Busy(h)'
  BY <1>1, <1>2, TypesAre DEF Busy
<1>. QED
  BY <1>1, <1>2, <1>3, TypesAre, Reads

LEMMA CancelMovesStep == ASSUME Inv, NEW h \in Handlers, CancelMoves(h) PROVE Good
<1>1. /\ Move(Cancelled, "cancel", Points) /\ UNCHANGED <<version, Rows, crashes>>
      /\ Cancelled.stage # "active"
  BY DEF CancelMoves, Cancelled, Point
<1>2. CASE Rest(h)
  BY <1>1, <1>2, MovesAndRests DEF MoveAndRest, FlowSources
<1>3. CASE Goto(h, "cancelled") /\ job' = job
  <2>1. Grown
    BY <1>1 DEF Grown, Stands, Inv, ContractOK, Rows, Out
  <2>2. ContractOK' /\ ActiveIsSigned'
    BY <1>1, MoveIs DEF Inv, ContractOK, ActiveIsSigned, Rows, Out
  <2>3. RequestsOK' /\ EnvelopesOK'
    BY <1>1 DEF Inv, RequestsOK, EnvelopesOK, Rows, Out
  <2>4. EndsKept
    BY <1>1, EndsAreKept DEF Inv, FlowSources
  <2>5. pc'[h] = "cancelled" /\ "cancelled" \in PCs /\ pc' = [pc EXCEPT ![h] = "cancelled"]
    BY <1>3, TypesAre DEF PCs, Goto
  <2>6. Busy(h)'
    BY <1>1, <1>3, <2>5, TypesAre DEF Busy
  <2>7. HandlersOK'
    BY <1>3, <2>1, <2>5, <2>6, TypesAre, Goes
  <2>. QED
    BY <2>1, <2>2, <2>3, <2>4, <2>7 DEF Good, Inv
<1>. QED
  BY <1>2, <1>3 DEF CancelMoves

LEMMA CancelledIs ==
  ASSUME RequestsOK, NEW n \in DOMAIN requests
  PROVE  [requests[n] EXCEPT !.status = "CANCELLED"] \in RequestRow
  BY RequestRowIs DEF RequestRow, RowsOf, Statuses

LEMMA CancelRequestsStep == ASSUME Inv, NEW h \in Handlers, CancelRequests(h) PROVE Good
<1>. DEFINE r(i) == IF i \in OpenRequests THEN [requests[i] EXCEPT !.status = "CANCELLED"] ELSE requests[i]
<1>1. /\ requests' = [i \in DOMAIN requests |-> r(i)] /\ Rest(h)
      /\ UNCHANGED <<Contract, version, Out, approved, crashes>>
  BY DEF CancelRequests
<1>2. \A i \in DOMAIN requests : r(i) \in RequestRow /\ r(i).version = requests[i].version
  BY CancelledIs, RequestRowIs DEF Inv, RequestRow, RowsOf
<1>. HIDE DEF r
<1>3. Len(requests) \in Nat /\ DOMAIN requests = 1..Len(requests)
  BY LenProperties DEF Inv, RequestsOK
<1>4. requests' \in Seq(RequestRow) /\ Len(requests') = Len(requests) /\ DOMAIN requests' = DOMAIN requests
  BY <1>1, <1>2, <1>3, IsASeq, LenProperties
<1>5. RequestsOK'
  BY <1>1, <1>2, <1>4 DEF Inv, RequestsOK
<1>. QED
  BY <1>1, <1>4, <1>5, WritesRequests, Rests DEF Inv, ContractOK

LEMMA CrashStep == ASSUME Inv, NEW h \in Handlers, Crash(h) PROVE Good
<1>1. Rest(h) /\ UNCHANGED <<Contract, version, Rows>> /\ crashes' = crashes + 1 /\ crashes < MaxCrashes
  BY DEF Crash
<1>2. Grown
  BY <1>1 DEF Grown, Stands, Inv, ContractOK, Rows, Out
<1>3. ContractOK' /\ RequestsOK' /\ EnvelopesOK' /\ ActiveIsSigned' /\ EndsKept
  BY <1>1, BoundsAssumption
     DEF Inv, ContractOK, RequestsOK, EnvelopesOK, ActiveIsSigned, Contract, Rows, Out, EndsKept
<1>. QED
  BY <1>1, <1>2, <1>3, Rests DEF Good, Inv
-----------------------------------------------------------------------------
LEMMA NextGood == ASSUME Inv, Next PROVE Good
<1>1. ASSUME NEW h \in Handlers,
             \/ Submit(h) \/ SubmitCreates(h) \/ SubmitMoves(h) \/ Unsubmit(h)
             \/ Decide(h) \/ DecisionMoves(h)
      PROVE  Good
  BY <1>1, SubmitStep, SubmitCreatesStep, SubmitMovesStep, UnsubmitStep, DecideStep, DecisionMovesStep
<1>2. ASSUME NEW h \in Handlers,
             \/ NewVersion(h) \/ ReadStage(h) \/ Judge(h) \/ Unapprove(h) \/ WithdrawAuto(h)
             \/ Carry(h) \/ Reset(h) \/ Reopened(h) \/ Withdraw(h) \/ Theirs(h) \/ Arrive(h)
      PROVE  Good
  BY <1>2, NewVersionStep, ReadStageStep, JudgeStep, UnapproveStep, WithdrawAutoStep, CarryStep,
     ResetStep, ReopenedStep, WithdrawStep, TheirsStep, ArriveStep
<1>3. ASSUME NEW h \in Handlers,
             \/ Send(h) \/ Gate(h) \/ SendCreates(h) \/ SendMoves(h)
             \/ Answer(h) \/ Complete(h) \/ CompleteMoves(h) \/ Stop(h) \/ StopMoves(h)
      PROVE  Good
  BY <1>3, SendStep, GateStep, SendCreatesStep, SendMovesStep, AnswerStep, CompleteStep,
     CompleteMovesStep, StopStep, StopMovesStep
<1>4. ASSUME NEW h \in Handlers,
             \/ Revert(h) \/ RevertMoves(h)
             \/ Cancel(h) \/ CancelMoves(h) \/ CancelRequests(h)
             \/ Crash(h)
      PROVE  Good
  BY <1>4, RevertStep, RevertMovesStep, CancelStep, CancelMovesStep, CancelRequestsStep, CrashStep
<1>. QED
  BY <1>1, <1>2, <1>3, <1>4, ExpireStep, RemindStep, RemindExpiresStep DEF Next

LEMMA Stutters == ASSUME Inv, UNCHANGED vars PROVE Good
<1>1. Grown /\ EndsKept
  BY DEF vars, Grown, Stands, EndsKept, Inv, ContractOK
<1>2. HandlersOK'
  BY <1>1, OthersBusy DEF vars, Inv, HandlersOK
<1>. QED
  BY <1>1, <1>2 DEF Good, Inv, vars, ContractOK, RequestsOK, EnvelopesOK, ActiveIsSigned

(* Whatever the handlers do to one another, every one of them is about rows  *)
(* and versions there are, and a contract is in force only by an envelope    *)
(* that was completed: what the other theorems of any handlers follow from.  *)
THEOREM InvHolds == Spec => []Inv
<1>1. Init => Inv
  BY InitInv
<1>2. Inv /\ [Next]_vars => Inv'
  BY NextGood, Stutters DEF Good
<1>. QED
  BY <1>1, <1>2, PTL DEF Spec

(* The types, and that no request, envelope or approval is for a version     *)
(* that is not there (the rows approval-flow.ts and signatures.ts write).    *)
THEOREM TypeCorrect == Spec => []TypeOK
<1>1. ASSUME Inv PROVE TypeOK
  <2>1. \A i \in DOMAIN envelopes : envelopes[i].status \in {"PENDING", "COMPLETED", "VOIDED", "EXPIRED"}
    <3>1. \A i \in DOMAIN envelopes : envelopes[i] \in EnvelopeRow
      BY <1>1, LenProperties, ElementOfSeq DEF Inv, EnvelopesOK
    <3>. QED
      BY <3>1 DEF EnvelopeRow, RowsOf
  <2>. QED
    BY <1>1, <2>1, RequestRowIs DEF Inv, TypeOK, ContractOK, RequestsOK, EnvelopesOK, HandlersOK
<1>. QED
  BY <1>1, InvHolds, PTL

(* Whatever answers an envelope gets at once, signatures, voids, declines    *)
(* and expiries, the first stands: no later one writes over it, but a        *)
(* reminder that had read the envelope open may mark it EXPIRED.             *)
THEOREM SettledOnceHolds == Spec => SettledOnce
<1>. DEFINE A == \A i \in DOMAIN envelopes :
                   envelopes[i].status # "PENDING" =>
                     \/ envelopes'[i] = envelopes[i]
                     \/ i \in reminding /\ envelopes'[i] = [envelopes[i] EXCEPT !.status = "EXPIRED"]
<1>1. Inv /\ [Next]_vars => [A]_vars
  BY NextGood DEF Good, Grown, Stands
<1>. QED
  BY <1>1, InvHolds, PTL DEF Spec, SettledOnce

(* The flows put a contract in force only once an envelope of it was         *)
(* completed, whatever was voided, declined, expired, reverted or cancelled  *)
(* beside it, and wherever a handler died.                                   *)
THEOREM ActiveIsSignedHolds == Spec => []ActiveIsSigned
<1>1. Inv => ActiveIsSigned
  BY DEF Inv
<1>. QED
  BY <1>1, InvHolds, PTL

(* No flow takes a contract out of force, or brings a cancelled one back:    *)
(* not the decision, signature, edit or revert that was half way when it     *)
(* happened.                                                                 *)
THEOREM EndsStay == Spec => [][EndsKept]_vars
<1>1. Inv /\ [Next]_vars => [EndsKept]_vars
  BY NextGood DEF Good
<1>. QED
  BY <1>1, InvHolds, PTL DEF Spec
-----------------------------------------------------------------------------
(* Calls that run one at a time: the moves they ask for are permitted.       *)

LEMMA ViaIs ==
  ASSUME NEW a, NEW b, NEW source,
         <<a, b, source>> \in
           {<<"draft", "approve", "approval">>, <<"negotiate", "approve", "approval">>,
            <<"approve", "draft", "approval">>, <<"approve", "negotiate", "approval">>,
            <<"draft", "negotiate", "counterparty">>, <<"approve", "negotiate", "counterparty">>,
            <<"sign", "negotiate", "counterparty">>, <<"approve", "sign", "signature">>,
            <<"sign", "active", "signature">>, <<"sign", "approve", "revert">>,
            <<"sign", "draft", "revert">>, <<"sign", "negotiate", "revert">>}
  PROVE  a # b /\ a # "closed" /\ b \in DOMAIN Via[a] /\ source \in Via[a][b]
<1>1. CASE a = "draft"
  BY <1>1 DEF Via
<1>2. CASE a = "negotiate"
  BY <1>2 DEF Via
<1>3. CASE a = "approve"
  BY <1>3 DEF Via
<1>4. CASE a = "sign"
  BY <1>4 DEF Via
<1>. QED
  BY <1>1, <1>2, <1>3, <1>4

LEMMA MayMove ==
  ASSUME NEW to \in Points, to # Cancelled, NEW source, NEW only, point \in only, point # Cancelled,
         point.stage # to.stage => <<point.stage, to.stage, source>> \in
           {<<"draft", "approve", "approval">>, <<"negotiate", "approve", "approval">>,
            <<"approve", "draft", "approval">>, <<"approve", "negotiate", "approval">>,
            <<"draft", "negotiate", "counterparty">>, <<"approve", "negotiate", "counterparty">>,
            <<"sign", "negotiate", "counterparty">>, <<"approve", "sign", "signature">>,
            <<"sign", "active", "signature">>, <<"sign", "approve", "revert">>,
            <<"sign", "draft", "revert">>, <<"sign", "negotiate", "revert">>},
         point.stage = to.stage => point.stage # "closed",
         point = Declined => to.stage \notin {"sign", "active"}
  PROVE  CanMove(to, source, only)
<1>1. CASE point.stage = to.stage
  BY <1>1 DEF CanMove, Permitted, Belongs
<1>2. CASE point.stage # to.stage
  <2>1. TableAllows(point, to, source, TRUE) /\ point.stage # "closed"
    BY <1>2, ViaIs DEF TableAllows
  <2>. QED
    BY <1>2, <2>1 DEF CanMove, Permitted, Belongs, MayReopen, Barred
<1>. QED
  BY <1>1, <1>2

LEMMA NamedPoints ==
  ASSUME NEW w \in Working
  PROVE  /\ {Pending, Approved, Declined, Active, Cancelled, Point(w, "returned"),
             Point("draft", "drafting"), Point("negotiate", "with_us"),
             Point("sign", "out_for_signature"), Point("sign", "declined"), Point("sign", "voided")}
            \subseteq Points
         /\ Pending.stage = "approve" /\ Approved.stage = "approve" /\ Declined.stage = "approve"
         /\ Active.stage = "active" /\ Cancelled.stage = "closed" /\ Point(w, "returned").stage = w
         /\ Pending # Approved /\ Pending # Declined /\ Approved # Declined
         /\ \A s, x : Point(s, x).stage = s
         /\ Point("sign", "out_for_signature") # Point("sign", "declined")
         /\ Point("sign", "out_for_signature") # Point("sign", "voided")
<1>1. \A s \in Stages : \A x \in StageStates[s] : Point(s, x) \in Points
  BY DEF Points
<1>2. /\ "pending" \in StageStates["approve"] /\ "approved" \in StageStates["approve"]
      /\ "declined" \in StageStates["approve"] /\ "active" \in StageStates["active"]
      /\ "cancelled" \in StageStates["closed"] /\ "returned" \in StageStates["draft"]
      /\ "returned" \in StageStates["negotiate"]
  BY DEF StageStates
<1>3. /\ "drafting" \in StageStates["draft"] /\ "with_us" \in StageStates["negotiate"]
      /\ "out_for_signature" \in StageStates["sign"] /\ "declined" \in StageStates["sign"]
      /\ "voided" \in StageStates["sign"]
  BY DEF StageStates
<1>4. {"approve", "active", "closed", "draft", "negotiate", "sign"} \subseteq Stages
  BY DEF Stages
<1>5. {Pending, Approved, Declined, Active, Cancelled, Point(w, "returned")} \subseteq Points
  BY <1>1, <1>2, <1>4 DEF Pending, Approved, Declined, Active, Cancelled, Working
<1>6. {Point("draft", "drafting"), Point("negotiate", "with_us"), Point("sign", "out_for_signature"),
       Point("sign", "declined"), Point("sign", "voided")} \subseteq Points
  BY <1>1, <1>3, <1>4
<1>. QED
  BY <1>5, <1>6 DEF Point, Pending, Approved, Declined, Active, Cancelled

(* In Approve a contract waits, is approved or is declined.                  *)
LEMMA InApprove == ASSUME Inv, point.stage = "approve" PROVE point \in {Pending, Approved, Declined}
<1>1. point = Point("approve", point.state) /\ point.state \in StageStates["approve"]
  BY PointIs DEF Inv, ContractOK
<1>. QED
  BY <1>1 DEF StageStates, Pending, Approved, Declined
-----------------------------------------------------------------------------
(* What a step that leaves the rows, or the contract, leaves of it.          *)

RequestsKept  == UNCHANGED <<requests, version>>
EnvelopesKept == envelopes' = envelopes /\ signed' = signed

LEMMA RequestFrame ==
  ASSUME RequestsKept
  PROVE  /\ OpenRequests' = OpenRequests /\ Standing' = Standing /\ Live' = Live
         /\ OpenIsNewest' <=> OpenIsNewest
         /\ NoneAuto' <=> NoneAuto
         /\ OpenIsCurrent' <=> OpenIsCurrent
         /\ ApprovalStands' <=> ApprovalStands
  BY DEF RequestsKept, OpenRequests, Standing, Live, With, OpenIsNewest, NoneAuto, OpenIsCurrent,
         ApprovalStands, Newest

LEMMA EnvelopeFrame ==
  ASSUME EnvelopesKept
  PROVE  /\ OpenEnvelopes' = OpenEnvelopes /\ signed' = signed
         /\ \A S : With(envelopes', S) = With(envelopes, S)
  BY DEF EnvelopesKept, OpenEnvelopes, With

(* A call that came to rest: nothing may be suspended.                       *)
LEMMA RestIs ==
  ASSUME NEW h \in Handlers, pc'[h] = "idle",
         OpenIsNewest', NoneAuto', (point \in FlowPoints)', OpenIsCurrent', OpenIsAsked',
         OutIsInSign', PendingHasOpen', ApprovedIsThis', OutIsShown', SignedMoved'
  PROVE  Between(h)' /\ Knows(h)'
<1>1. ApprovedHasOne'
  BY DEF ApprovedHasOne, ApprovedIsThis, ApprovalStands
<1>2. Between(h)'
  BY <1>1 DEF Between
<1>3. Knows(h)'
  BY DEF Knows
<1>. QED
  BY <1>2, <1>3

LEMMA MoveRests ==
  ASSUME Inv, NEW h \in Handlers, Between(h),
         pc[h] \notin {"edited", "judge", "withdraw", "carry", "reset"},
         NEW to, NEW source, NEW only, MoveAndRest(h, to, source, only),
         point' \in FlowPoints,
         OpenRequests # {} => point' \in {Pending, Declined},
         OpenEnvelopes # {} => point'.stage \in {"sign", "active"},
         point' = Pending => OpenRequests # {},
         ~AutoApproves /\ point' = Approved => ApprovalStands,
         point' = Point("sign", "out_for_signature") => With(envelopes, {"PENDING", "EXPIRED"}) # {},
         signed # {} => point'.stage = "active"
  PROVE  Between(h)' /\ Knows(h)'
<1>1. RequestsKept /\ EnvelopesKept /\ Rest(h)
  BY DEF MoveAndRest, RequestsKept, EnvelopesKept, Rows, Out
<1>2. pc'[h] = "idle"
  BY <1>1 DEF Rest, Goto, Inv, HandlersOK
<1>3. OpenIsNewest' /\ NoneAuto' /\ OpenIsCurrent' /\ (point \in FlowPoints)'
  BY <1>1, RequestFrame DEF Between, FlowPoints
<1>4. OpenIsAsked' /\ PendingHasOpen' /\ ApprovedIsThis'
  BY <1>1, RequestFrame DEF OpenIsAsked, PendingHasOpen, ApprovedIsThis
<1>5. OutIsInSign' /\ OutIsShown' /\ SignedMoved'
  BY <1>1, EnvelopeFrame DEF OutIsInSign, OutIsShown, SignedMoved
<1>. QED
  BY <1>2, <1>3, <1>4, <1>5, RestIs
-----------------------------------------------------------------------------
(* The calls that end by moving the contract.                                *)

Onward(h) == Between(h)' /\ Knows(h)'

LEMMA MoveHappens ==
  ASSUME NEW h \in Handlers, NEW to, NEW source, NEW only, MoveAndRest(h, to, source, only)
  PROVE  /\ CanMove(to, source, only) => point' = to
         /\ point \notin only => point' = point
  BY DEF MoveAndRest, Move, CanMove, Contract

LEMMA FlowPointIs ==
  ASSUME NEW p \in Points
  PROVE  p \in FlowPoints <=> p.stage \in {"draft", "negotiate", "approve", "sign", "active"} \/ p = Cancelled
  BY DEF FlowPoints, PointsOf

LEMMA BetweenIs ==
  ASSUME Inv, NEW h \in Handlers, Between(h)
  PROVE  /\ point \in Points /\ point \in FlowPoints /\ workedIn \in Working /\ version \in Nat
         /\ pc[h] \in PCs
         /\ pc[h] \notin {"submitted", "reopened", "cancelled"} /\ point \notin {Pending, Declined}
              => OpenRequests = {}
         /\ pc[h] # "sent" /\ point.stage \notin {"sign", "active"} => OpenEnvelopes = {}
         /\ pc[h] # "completed" /\ point.stage # "active" => signed = {}
  BY DEF Between, OpenIsAsked, OutIsInSign, SignedMoved, Inv, ContractOK, HandlersOK

LEMMA SubmitMovesOn ==
  ASSUME Inv, NEW h \in Handlers, Between(h), Knows(h), SubmitMoves(h)
  PROVE  Onward(h)
<1>. DEFINE to == IF job[h].kind = "auto" THEN Approved ELSE Pending
<1>1. /\ pc[h] = "submitted" /\ Submittable
      /\ job[h].kind = "auto" => AutoApproves
      /\ OpenRequests = {} <=> job[h].kind = "auto"
  BY DEF SubmitMoves, Knows
<1>2. point.stage \in {"draft", "negotiate", "approve"} /\ point # Cancelled
  BY <1>1, NamedPoints DEF Submittable, Working, Inv, ContractOK
<1>3. to \in Points /\ to # Cancelled /\ to.stage = "approve" /\ to # Point("sign", "out_for_signature")
  BY NamedPoints DEF Inv, ContractOK
<1>4. /\ to = Pending => OpenRequests # {}
      /\ to = Approved => OpenRequests = {} /\ AutoApproves
      /\ to \in {Pending, Approved}
  BY <1>1, NamedPoints DEF Inv, ContractOK
<1>5. MoveAndRest(h, to, "approval", Points) \/ ~CanMove(to, "approval", Points)
  BY <1>1 DEF SubmitMoves
<1>. HIDE DEF to
<1>6. MoveAndRest(h, to, "approval", Points) /\ point' = to
  <2>1. point \in Points
    BY BetweenIs
  <2>2. CanMove(to, "approval", Points)
    BY <1>2, <1>3, <2>1, MayMove
  <2>. QED
    BY <1>5, <2>2, MoveHappens
<1>7. OpenEnvelopes = {} /\ signed = {}
  BY <1>1, <1>2, BetweenIs
<1>8. point' \in FlowPoints
  BY <1>3, <1>6, FlowPointIs
<1>. QED
  BY <1>1, <1>3, <1>4, <1>6, <1>7, <1>8, MoveRests DEF Onward

LEMMA UnapproveOn ==
  ASSUME Inv, NEW h \in Handlers, Between(h), Knows(h), Unapprove(h)
  PROVE  Onward(h)
<1>. DEFINE only == IF job[h].row = 0 THEN {Approved} ELSE PointsOf({"approve"})
<1>1. /\ pc[h] = "unapprove" /\ AutoApproves /\ OpenRequests = {} /\ point.stage = "approve"
      /\ MoveAndRest(h, BackToWork, "edit", only) /\ PendingHasOpen
  BY DEF Unapprove, Knows, Between
<1>2. workedIn \in Working /\ point \in Points /\ point \in FlowPoints
  BY BetweenIs
<1>3. BackToWork.stage \in {"draft", "negotiate"} /\ Pending.stage = "approve"
      /\ Point("sign", "out_for_signature").stage = "sign"
  BY <1>2, NamedPoints DEF BackToWork, Working
<1>. HIDE DEF only
<1>4. \/ point' = BackToWork /\ BackToWork \in Points
      \/ point' = point
  BY <1>1, MoveIs DEF MoveAndRest, Inv
<1>5. point # Pending
  BY <1>1 DEF PendingHasOpen
<1>6. OpenEnvelopes = {} /\ signed = {}
  BY <1>1, BetweenIs
<1>7. /\ point' \in FlowPoints /\ point' # Pending /\ point' # Point("sign", "out_for_signature")
  BY <1>1, <1>2, <1>3, <1>4, <1>5, FlowPointIs
<1>. QED
  BY <1>1, <1>6, <1>7, MoveRests DEF Onward

LEMMA DecisionMovesOn ==
  ASSUME Inv, NEW h \in Handlers, Between(h), Knows(h), DecisionMoves(h)
  PROVE  Onward(h)
<1>. DEFINE to == job[h].at
<1>1. /\ pc[h] = "decided" /\ OpenRequests = {} /\ point \in {Pending, Declined}
      /\ to \in {Approved, Declined, Point(workedIn, "returned")}
      /\ to = Approved => ApprovalStands
      /\ MoveAndRest(h, to, "approval", {Pending})
  BY DEF DecisionMoves, Knows
<1>. HIDE DEF to
<1>2. workedIn \in Working /\ point \in Points /\ point \in FlowPoints
  BY BetweenIs
<1>3. /\ to \in Points /\ to # Cancelled /\ to # Pending /\ to.stage \in {"approve", "draft", "negotiate"}
      /\ to # Point("sign", "out_for_signature") /\ point.stage = "approve" /\ point # Cancelled
      /\ Pending # Declined /\ Declined # Approved
  BY <1>1, <1>2, NamedPoints DEF Working
<1>4. \/ point' = to
      \/ point' = point /\ point = Declined
  <2>1. point = Pending => CanMove(to, "approval", {Pending})
    BY <1>3, MayMove
  <2>. QED
    BY <1>1, <1>3, <2>1, MoveHappens
<1>5. OpenEnvelopes = {} /\ signed = {}
  BY <1>1, <1>3, BetweenIs
<1>6. Point("sign", "out_for_signature").stage = "sign"
  BY NamedPoints, <1>2
<1>7. point' \in FlowPoints
  BY <1>2, <1>3, <1>4, FlowPointIs
<1>8. point' # Pending /\ point' # Point("sign", "out_for_signature")
  BY <1>3, <1>4, <1>6
<1>. QED
  BY <1>1, <1>3, <1>4, <1>5, <1>7, <1>8, MoveRests DEF Onward

LEMMA ReopenedOn ==
  ASSUME Inv, NEW h \in Handlers, Between(h), Knows(h), Reopened(h)
  PROVE  Onward(h)
<1>1. /\ pc[h] = "reopened" /\ point \in {Approved, Declined} /\ OpenRequests # {}
      /\ MoveAndRest(h, Pending, "edit", {Approved})
  BY DEF Reopened, Knows
<1>2. workedIn \in Working /\ point \in Points /\ point \in FlowPoints
  BY BetweenIs
<1>3. /\ Pending \in Points /\ Pending # Cancelled /\ Pending.stage = "approve" /\ Pending # Approved
      /\ Approved.stage = "approve" /\ Declined.stage = "approve" /\ Declined # Approved /\ Declined # Pending
      /\ Approved # Cancelled /\ Point("sign", "out_for_signature").stage = "sign"
  BY <1>2, NamedPoints
<1>4. \/ point' = Pending
      \/ point' = point /\ point = Declined
  <2>1. point = Approved => CanMove(Pending, "edit", {Approved})
    BY <1>3, MayMove
  <2>. QED
    BY <1>1, <1>3, <2>1, MoveHappens
<1>5. OpenEnvelopes = {} /\ signed = {}
  BY <1>1, <1>3, BetweenIs
<1>6. point' \in FlowPoints
  BY <1>2, <1>3, <1>4, FlowPointIs
<1>. QED
  BY <1>1, <1>3, <1>4, <1>5, <1>6, MoveRests DEF Onward

LEMMA ArriveOn ==
  ASSUME Inv, NEW h \in Handlers, Between(h), Knows(h), Arrive(h)
  PROVE  Onward(h)
<1>. DEFINE to   == Point("negotiate", "with_us")
            only == TakenFrom(h)
<1>1. /\ pc[h] = "arrive" /\ OpenRequests = {}
      /\ job[h].seen # "open" => OpenEnvelopes = {}
      /\ MoveAndRest(h, to, "counterparty", only)
  BY DEF Arrive, Knows
<1>2. workedIn \in Working /\ point \in Points /\ point \in FlowPoints
  BY BetweenIs
<1>3. /\ to \in Points /\ to # Cancelled /\ to.stage = "negotiate" /\ to # Pending /\ to # Approved
      /\ to # Point("sign", "out_for_signature") /\ Pending.stage = "approve" /\ Approved.stage = "approve"
      /\ Cancelled.stage = "closed" /\ Point("sign", "out_for_signature").stage = "sign"
  BY <1>2, NamedPoints
<1>4. point \in only <=> \/ point.stage \in {"draft", "negotiate", "approve"}
                         \/ point.stage = "sign" /\ job[h].seen # "open"
  BY <1>2 DEF TakenFrom, PointsOf, Working
<1>. HIDE DEF to, only
<1>5. CASE point \in only
  <2>1. point' = to
    <3>1. CanMove(to, "counterparty", only)
      BY <1>3, <1>4, <1>5, MayMove
    <3>. QED
      BY <1>1, <3>1, MoveHappens
  <2>2. OpenEnvelopes = {} /\ signed = {}
    BY <1>1, <1>4, <1>5, BetweenIs
  <2>. QED
    BY <1>1, <1>3, <2>1, <2>2, MoveRests, FlowPointIs DEF Onward
<1>6. CASE point \notin only
  <2>1. point' = point /\ point # Pending /\ point # Approved
    BY <1>1, <1>3, <1>4, <1>6, MoveHappens
  <2>2. OutIsInSign /\ OutIsShown /\ SignedMoved
    BY <1>1 DEF Between
  <2>. QED
    BY <1>1, <1>2, <2>1, <2>2, MoveRests DEF Onward, OutIsInSign, OutIsShown, SignedMoved
<1>. QED
  BY <1>5, <1>6

LEMMA SendMovesOn ==
  ASSUME Inv, NEW h \in Handlers, Between(h), Knows(h), SendMoves(h)
  PROVE  Onward(h)
<1>. DEFINE to == Point("sign", "out_for_signature")
<1>1. /\ pc[h] = "sent" /\ Sendable /\ With(envelopes, {"PENDING", "EXPIRED"}) # {}
      /\ MoveAndRest(h, to, "signature", Points)
  BY DEF SendMoves, Knows
<1>2. workedIn \in Working /\ point \in Points /\ point \in FlowPoints
  BY BetweenIs
<1>3. /\ to \in Points /\ to # Cancelled /\ to.stage = "sign" /\ Pending.stage = "approve"
      /\ Approved.stage = "approve" /\ Declined.stage = "approve" /\ Approved # Declined /\ Approved # Pending
      /\ Cancelled.stage = "closed"
  BY <1>2, NamedPoints
<1>4. point.stage = "sign" \/ point = Approved
  BY <1>1 DEF Sendable
<1>. HIDE DEF to
<1>5. point' = to
  <2>1. CanMove(to, "signature", Points)
    BY <1>2, <1>3, <1>4, MayMove
  <2>. QED
    BY <1>1, <2>1, MoveHappens
<1>6. OpenRequests = {} /\ signed = {}
  BY <1>1, <1>3, <1>4, BetweenIs
<1>7. point' \in FlowPoints /\ point' # Pending /\ point' # Approved
  BY <1>3, <1>5, FlowPointIs
<1>. QED
  BY <1>1, <1>3, <1>5, <1>6, <1>7, MoveRests DEF Onward

LEMMA CompleteMovesOn ==
  ASSUME Inv, NEW h \in Handlers, Between(h), Knows(h), CompleteMoves(h)
  PROVE  Onward(h)
<1>1. /\ pc[h] = "completed" /\ point.stage \in {"sign", "active"}
      /\ MoveAndRest(h, Active, "signature", Points)
  BY DEF CompleteMoves, Knows
<1>2. workedIn \in Working /\ point \in Points /\ point \in FlowPoints
  BY BetweenIs
<1>3. /\ Active \in Points /\ Active # Cancelled /\ Active.stage = "active" /\ Pending.stage = "approve"
      /\ Approved.stage = "approve" /\ Declined.stage = "approve" /\ Cancelled.stage = "closed"
      /\ Point("sign", "out_for_signature").stage = "sign"
  BY <1>2, NamedPoints
<1>4. point' = Active
  <2>1. CanMove(Active, "signature", Points)
    BY <1>1, <1>2, <1>3, MayMove
  <2>. QED
    BY <1>1, <2>1, MoveHappens
<1>5. OpenRequests = {}
  BY <1>1, <1>3, BetweenIs
<1>6. point' \in FlowPoints /\ point' # Pending /\ point' # Approved /\ point' # Point("sign", "out_for_signature")
  BY <1>3, <1>4, FlowPointIs
<1>. QED
  BY <1>1, <1>3, <1>4, <1>5, <1>6, MoveRests DEF Onward

LEMMA StopMovesOn ==
  ASSUME Inv, NEW h \in Handlers, Between(h), Knows(h), StopMoves(h)
  PROVE  Onward(h)
<1>. DEFINE to   == job[h].at
            only == PointsOf({"sign"})
<1>1. /\ pc[h] = "stopped" /\ point.stage \in {"sign", "active"}
      /\ to \in {Point("sign", "declined"), Point("sign", "voided")}
      /\ MoveAndRest(h, to, "signature", only)
  BY DEF StopMoves, Knows
<1>2. workedIn \in Working /\ point \in Points /\ point \in FlowPoints
  BY BetweenIs
<1>3. /\ to \in Points /\ to.stage = "sign" /\ to # Point("sign", "out_for_signature")
      /\ Pending.stage = "approve" /\ Approved.stage = "approve" /\ Declined.stage = "approve"
      /\ Cancelled.stage = "closed" /\ Point("sign", "out_for_signature").stage = "sign"
  BY <1>1, <1>2, NamedPoints
<1>4. point \in only <=> point.stage = "sign"
  BY <1>2 DEF PointsOf
<1>. HIDE DEF to, only
<1>5. \/ point.stage = "sign" /\ point' = to
      \/ point.stage = "active" /\ point' = point
  <2>1. point.stage = "sign" => CanMove(to, "signature", only)
    BY <1>2, <1>3, <1>4, MayMove
  <2>. QED
    BY <1>1, <1>4, <2>1, MoveHappens
<1>6. OpenRequests = {} /\ (point.stage = "sign" => signed = {})
  BY <1>1, <1>3, BetweenIs
<1>7. point' \in FlowPoints /\ point' # Pending /\ point' # Approved /\ point' # Point("sign", "out_for_signature")
  BY <1>2, <1>3, <1>5, FlowPointIs
<1>. QED
  BY <1>1, <1>3, <1>5, <1>6, <1>7, MoveRests DEF Onward

LEMMA RevertMovesOn ==
  ASSUME Inv, NEW h \in Handlers, Between(h), Knows(h), RevertMoves(h)
  PROVE  Onward(h)
<1>. DEFINE to   == job[h].at
            only == PointsOf({"sign"})
<1>1. /\ pc[h] = "revert" /\ point.stage = "sign" /\ OpenEnvelopes = {}
      /\ to \in {Approved, Point("draft", "drafting"), Point("negotiate", "with_us")}
      /\ to = Approved => ApprovalStands
      /\ MoveAndRest(h, to, "revert", only)
  BY DEF RevertMoves, Knows
<1>2. workedIn \in Working /\ point \in Points /\ point \in FlowPoints
  BY BetweenIs
<1>3. /\ to \in Points /\ to.stage \in {"approve", "draft", "negotiate"} /\ to # Pending
      /\ to # Point("sign", "out_for_signature") /\ Cancelled.stage = "closed" /\ Declined.stage = "approve"
      /\ Pending.stage = "approve"
  BY <1>1, <1>2, NamedPoints
<1>4. point \in only
  BY <1>1, <1>2 DEF PointsOf
<1>. HIDE DEF to, only
<1>5. point' = to
  <2>1. CanMove(to, "revert", only)
    BY <1>1, <1>2, <1>3, <1>4, MayMove
  <2>. QED
    BY <1>1, <2>1, MoveHappens
<1>6. OpenRequests = {} /\ signed = {}
  BY <1>1, <1>3, BetweenIs
<1>7. point' \in FlowPoints
  BY <1>3, <1>5, FlowPointIs
<1>. QED
  BY <1>1, <1>3, <1>5, <1>6, <1>7, MoveRests DEF Onward

LEMMA CancelMovesOn ==
  ASSUME Inv, NEW h \in Handlers, Between(h), Knows(h), CancelMoves(h)
  PROVE  Onward(h)
<1>1. pc[h] = "cancel" /\ point.stage \in Cancellable /\ OpenEnvelopes = {}
  BY DEF CancelMoves, Knows
<1>2. workedIn \in Working /\ point \in Points
  BY BetweenIs
<1>3. /\ Cancelled \in Points /\ Cancelled.stage = "closed" /\ Pending.stage = "approve"
      /\ Approved.stage = "approve" /\ Point("sign", "out_for_signature").stage = "sign"
  BY <1>2, NamedPoints
<1>4. CanMove(Cancelled, "cancel", Points)
  BY <1>1, <1>2, <1>3 DEF CanMove, Permitted, Belongs
<1>5. /\ point' = Cancelled /\ Goto(h, "cancelled") /\ RequestsKept /\ EnvelopesKept
  BY <1>4 DEF CancelMoves, Move, RequestsKept, EnvelopesKept, Rows, Out
<1>6. pc'[h] = "cancelled"
  BY <1>5, TypesAre DEF Goto, PCs
<1>7. signed = {}
  BY <1>1, BetweenIs DEF Cancellable
<1>8. OpenIsNewest' /\ NoneAuto' /\ OpenIsCurrent' /\ (point \in FlowPoints)'
  BY <1>1, <1>3, <1>5, RequestFrame, FlowPointIs DEF Between, FlowPoints
<1>9. PendingHasOpen' /\ ApprovedHasOne' /\ ApprovedIsThis' /\ OutIsShown'
  BY <1>3, <1>5 DEF PendingHasOpen, ApprovedHasOne, ApprovedIsThis, OutIsShown
<1>10. OutIsInSign' /\ SignedMoved' /\ OpenEnvelopes' = {}
  BY <1>1, <1>5, <1>7, EnvelopeFrame DEF OutIsInSign, SignedMoved
<1>11. Between(h)'
  BY <1>6, <1>8, <1>9, <1>10 DEF Between
<1>12. Knows(h)'
  BY <1>5, <1>6, <1>10 DEF Knows, Cancelled, Point
<1>. QED
  BY <1>11, <1>12 DEF Onward
-----------------------------------------------------------------------------
(* The calls that read.                                                      *)

LEMMA ReadFrame ==
  ASSUME UNCHANGED <<Contract, version, Rows>>
  PROVE  /\ point' = point /\ workedIn' = workedIn /\ version' = version
         /\ OpenRequests' = OpenRequests /\ Standing' = Standing /\ Live' = Live
         /\ OpenEnvelopes' = OpenEnvelopes /\ \A S : With(envelopes', S) = With(envelopes, S)
         /\ OpenIsNewest' <=> OpenIsNewest
         /\ NoneAuto' <=> NoneAuto
         /\ OpenIsCurrent' <=> OpenIsCurrent
         /\ ApprovalStands' <=> ApprovalStands
         /\ OpenIsAsked' <=> OpenIsAsked
         /\ OutIsInSign' <=> OutIsInSign
         /\ PendingHasOpen' <=> PendingHasOpen
         /\ ApprovedHasOne' <=> ApprovedHasOne
         /\ ApprovedIsThis' <=> ApprovedIsThis
         /\ OutIsShown' <=> OutIsShown
         /\ SignedMoved' <=> SignedMoved
         /\ Submittable' <=> Submittable
         /\ Sendable' <=> Sendable
<1>1. RequestsKept /\ EnvelopesKept /\ point' = point /\ workedIn' = workedIn /\ version' = version
  BY DEF RequestsKept, EnvelopesKept, Contract, Rows, Out
<1>2. /\ OpenRequests' = OpenRequests /\ Standing' = Standing /\ Live' = Live
      /\ OpenIsNewest' <=> OpenIsNewest
      /\ NoneAuto' <=> NoneAuto
      /\ OpenIsCurrent' <=> OpenIsCurrent
      /\ ApprovalStands' <=> ApprovalStands
  BY <1>1, RequestFrame
<1>3. /\ OpenEnvelopes' = OpenEnvelopes /\ signed' = signed
      /\ \A S : With(envelopes', S) = With(envelopes, S)
  BY <1>1, EnvelopeFrame
<1>4. /\ OpenIsAsked' <=> OpenIsAsked
      /\ PendingHasOpen' <=> PendingHasOpen
      /\ ApprovedHasOne' <=> ApprovedHasOne
      /\ ApprovedIsThis' <=> ApprovedIsThis
  BY <1>1, <1>2 DEF OpenIsAsked, PendingHasOpen, ApprovedHasOne, ApprovedIsThis
<1>5. /\ OutIsInSign' <=> OutIsInSign
      /\ OutIsShown' <=> OutIsShown
      /\ SignedMoved' <=> SignedMoved
  BY <1>1, <1>3 DEF OutIsInSign, OutIsShown, SignedMoved
<1>6. /\ Submittable' <=> Submittable
      /\ Sendable' <=> Sendable
  BY <1>1 DEF Submittable, Sendable
<1>. QED
  BY <1>1, <1>2, <1>3, <1>4, <1>5, <1>6

(* A call that suspends nothing, or reads on, leaves what holds.             *)
LEMMA ReadsOn ==
  ASSUME NEW h \in Handlers, Between(h), UNCHANGED <<Contract, version, Rows>>,
         \/ pc[h] \in {"idle", "gate", "theirs"} /\ (pc[h] = "theirs" => pc'[h] = "arrive")
         \/ /\ pc[h] \in {"edited", "judge"}
            /\ pc'[h] \notin {"edited", "judge", "withdraw", "carry", "reset"} => OpenIsCurrent
            /\ pc'[h] \notin {"edited", "judge", "withdraw", "carry", "reset", "theirs"} => ApprovedIsThis
  PROVE  Between(h)'
<1>1. /\ OpenIsNewest' /\ NoneAuto' /\ (point \in FlowPoints)' /\ OpenIsAsked'
      /\ OutIsInSign' /\ OutIsShown' /\ SignedMoved'
  BY ReadFrame DEF Between
<1>2. CASE pc[h] \in {"idle", "gate"}
  BY <1>1, <1>2, ReadFrame DEF Between
<1>3. CASE pc[h] = "theirs" /\ pc'[h] = "arrive"
  BY <1>1, <1>3, ReadFrame DEF Between
<1>4. CASE /\ pc[h] \in {"edited", "judge"}
           /\ pc'[h] \notin {"edited", "judge", "withdraw", "carry", "reset"} => OpenIsCurrent
           /\ pc'[h] \notin {"edited", "judge", "withdraw", "carry", "reset", "theirs"} => ApprovedIsThis
  <2>1. PendingHasOpen' /\ ApprovedHasOne'
    BY <1>4, ReadFrame DEF Between
  <2>. QED
    BY <1>1, <1>4, <2>1, ReadFrame DEF Between
<1>. QED
  BY <1>2, <1>3, <1>4

LEMMA SubmitOn ==
  ASSUME Inv, NEW h \in Handlers, Between(h), Knows(h), Submit(h)
  PROVE  Onward(h)
<1>1. /\ pc[h] = "idle" /\ Submittable /\ OpenRequests = {} /\ Goto(h, "submit")
      /\ UNCHANGED <<Contract, version, Rows>>
      /\ \E kind \in {"asked"} \union (IF AutoApproves THEN {"auto"} ELSE {}) :
           Keep(h, [NoJob EXCEPT !.version = version, !.kind = kind])
  BY DEF Submit, Submittable
<1>2. /\ pc'[h] = "submit" /\ job'[h].version = version /\ job'[h].kind \in {"asked", "auto"}
      /\ job'[h].kind = "auto" => AutoApproves
  BY <1>1, TypesAre, NoJobIs DEF Goto, Keep, PCs, Inv, HandlersOK, NoJob
<1>3. Between(h)'
  BY <1>1, <1>2, ReadsOn
<1>4. Knows(h)'
  BY <1>1, <1>2, ReadFrame DEF Knows
<1>. QED
  BY <1>3, <1>4 DEF Onward

LEMMA ReadStageOn ==
  ASSUME Inv, NEW h \in Handlers, Between(h), Knows(h), ReadStage(h)
  PROVE  Onward(h)
<1>1. /\ pc[h] = "edited" /\ UNCHANGED <<Contract, version, Rows>>
      /\ job[h].version = version /\ job[h].kind \in {"ours", "theirs"}
  BY DEF ReadStage, Knows
<1>2. /\ Pending.stage = "approve" /\ Declined.stage = "approve" /\ Approved.stage = "approve"
  BY BetweenIs, NamedPoints
<1>3. ASSUME point.stage = "approve", Goto(h, "judge"), Keep(h, [job[h] EXCEPT !.at = point])
      PROVE  Onward(h)
  <2>1. /\ pc'[h] = "judge" /\ job'[h].at = point /\ job'[h].version = job[h].version
        /\ job'[h].kind = job[h].kind
    BY <1>3, TypesAre DEF Goto, Keep, PCs, Inv, HandlersOK, Jobs
  <2>2. Between(h)'
    BY <1>1, <2>1, ReadsOn
  <2>3. Knows(h)'
    BY <1>1, <1>3, <2>1, ReadFrame DEF Knows
  <2>. QED
    BY <2>2, <2>3 DEF Onward
<1>4. ASSUME point.stage # "approve", pc'[h] \in {"theirs", "idle"}
      PROVE  Onward(h)
  <2>1. OpenRequests = {}
    BY <1>1, <1>2, <1>4, BetweenIs
  <2>2. OpenIsCurrent /\ ApprovedIsThis
    BY <1>2, <1>4, <2>1 DEF OpenIsCurrent, ApprovedIsThis
  <2>3. Between(h)'
    BY <1>1, <1>4, <2>2, ReadsOn
  <2>4. Knows(h)'
    BY <1>1, <1>4, <2>1, ReadFrame DEF Knows
  <2>. QED
    BY <2>3, <2>4 DEF Onward
<1>5. \/ point.stage = "approve" /\ Goto(h, "judge") /\ Keep(h, [job[h] EXCEPT !.at = point])
      \/ point.stage # "approve" /\ pc'[h] \in {"theirs", "idle"}
  BY TypesAre DEF ReadStage, Goto, Rest, PCs
<1>. QED
  BY <1>3, <1>4, <1>5

(* An open request is the one handled, of the newest of those that count.    *)
LEMMA OnlyOpen ==
  ASSUME RequestsOK, OpenIsNewest, NEW i \in OpenRequests
  PROVE  OpenRequests = {i}
<1>1. OpenRequests \subseteq Nat /\ OpenRequests \subseteq Live
  BY LenProperties DEF RequestsOK, OpenRequests, With, Live
<1>2. ASSUME NEW k \in OpenRequests PROVE k = i
  <2>1. k \in Nat /\ i \in Nat /\ k \in Live /\ i \in Live
    BY <1>1
  <2>2. k <= i /\ i <= k
    BY <2>1 DEF OpenIsNewest
  <2>. QED
    BY <2>1, <2>2
<1>. QED
  BY <1>2

LEMMA NewestOne ==
  ASSUME NEW S \in SUBSET Nat, NEW i \in S, \A x \in S : x <= i
  PROVE  Newest(S) = i
<1>1. ASSUME NEW y \in S, \A x \in S : x <= y PROVE y = i
  <2>1. y <= i /\ i <= y /\ y \in Nat /\ i \in Nat
    BY <1>1
  <2>. QED
    BY <2>1
<1>. QED
  BY <1>1 DEF Newest

LEMMA OnlyNewest ==
  ASSUME RequestsOK, OpenIsNewest, NEW i \in Live, \A x \in Live : x <= i
  PROVE  OpenRequests \subseteq {i} /\ (OpenRequests = {} => Newest(Standing) = i)
<1>1. Live \subseteq Nat
  BY LenProperties DEF RequestsOK, OpenRequests, Standing, With, Live
<1>2. OpenRequests \subseteq {i}
  BY <1>1 DEF OpenIsNewest, Live
<1>3. ASSUME OpenRequests = {} PROVE Newest(Standing) = i
  BY <1>1, <1>3, NewestOne DEF Live
<1>. QED
  BY <1>2, <1>3

LEMMA LiveRow ==
  ASSUME RequestsOK
  PROVE  /\ Live \subseteq DOMAIN requests
         /\ \A i \in Live : i \in Nat /\ requests[i].status \in {"PENDING", "APPROVED", "AUTO_APPROVED"}
         /\ \A i \in OpenRequests : i \in Live /\ requests[i].status = "PENDING"
         /\ \A i \in Standing : i \in Live /\ requests[i].status \in {"APPROVED", "AUTO_APPROVED"}
  BY RequestRowIs DEF Live, OpenRequests, Standing, With

LEMMA JudgeOn ==
  ASSUME Inv, NEW h \in Handlers, Between(h), Knows(h), Judge(h)
  PROVE  Onward(h)
<1>1. /\ pc[h] = "judge" /\ UNCHANGED <<Contract, version, Rows>> /\ point.stage = "approve"
      /\ job[h].version = version /\ job[h].kind \in {"ours", "theirs"} /\ job[h].at = point
  BY DEF Judge, Knows
<1>2. ASSUME Live = {}, pc'[h] \in {"theirs", "unapprove", "idle"},
             pc'[h] = "unapprove" => point = Approved
      PROVE  Onward(h)
  <2>1. OpenRequests = {} /\ Standing = {} /\ ApprovedHasOne
    BY <1>1, <1>2 DEF Live, Between
  <2>2. /\ OpenIsCurrent /\ ApprovedIsThis
        /\ pc'[h] = "unapprove" => AutoApproves
    BY <1>2, <2>1 DEF OpenIsCurrent, ApprovedIsThis, ApprovedHasOne
  <2>3. Between(h)'
    BY <1>1, <1>2, <2>2, ReadsOn
  <2>4. Knows(h)'
    BY <1>1, <1>2, <2>1, <2>2, ReadFrame DEF Knows
  <2>. QED
    BY <2>3, <2>4 DEF Onward
<1>3. ASSUME Live # {}, NEW where \in {"withdraw", "withdraw_auto", "carry", "reset"}, Goto(h, where),
             where = "withdraw_auto" => requests[Newest(Live)].status = "AUTO_APPROVED",
             Keep(h, [job[h] EXCEPT !.row = Newest(Live), !.seen = requests[Newest(Live)].status])
      PROVE  Onward(h)
  <2>1. Newest(Live) \in Live /\ \A x \in Live : x <= Newest(Live)
    <3>1. Live \subseteq DOMAIN requests
      BY DEF Live, OpenRequests, Standing, With
    <3>. QED
      BY <1>3, <3>1, NewestRow DEF Inv
  <2>2. where = "withdraw_auto" => AutoApproves /\ OpenRequests = {}
    <3>1. OpenRequests \subseteq {Newest(Live)} /\ Newest(Live) \in DOMAIN requests
      BY <2>1, OnlyNewest, LiveRow DEF Between, Inv
    <3>. QED
      BY <1>3, <3>1 DEF OpenRequests, With, Between, NoneAuto
  <2>3. /\ pc'[h] = where /\ job'[h].row = Newest(Live)
        /\ job'[h].seen = requests[Newest(Live)].status
        /\ job'[h].version = job[h].version /\ job'[h].kind = job[h].kind
    BY <1>3, TypesAre DEF Goto, Keep, PCs, Inv, HandlersOK, Jobs
  <2>4. Between(h)'
    <3>1. where = "withdraw_auto" => OpenIsCurrent /\ ApprovedIsThis
      BY <2>2 DEF OpenIsCurrent, ApprovedIsThis
    <3>. QED
      BY <1>1, <2>3, <3>1, ReadsOn
  <2>5. requests' = requests
    BY <1>1 DEF Rows, Out
  <2>6. Knows(h)'
    BY <1>1, <2>1, <2>2, <2>3, <2>5, ReadFrame DEF Knows
  <2>. QED
    BY <2>4, <2>6 DEF Onward
<1>4. \/ /\ Live = {} /\ pc'[h] \in {"theirs", "unapprove", "idle"}
         /\ pc'[h] = "unapprove" => point = Approved
      \/ /\ Live # {}
         /\ \E where \in {"withdraw", "withdraw_auto", "carry", "reset"} :
              /\ Goto(h, where)
              /\ where = "withdraw_auto" => requests[Newest(Live)].status = "AUTO_APPROVED"
         /\ Keep(h, [job[h] EXCEPT !.row = Newest(Live), !.seen = requests[Newest(Live)].status])
  BY <1>1, TypesAre DEF Judge, Goto, Rest, PCs, Live
<1>. QED
  BY <1>2, <1>3, <1>4

LEMMA TheirsOn ==
  ASSUME Inv, NEW h \in Handlers, Between(h), Knows(h), Theirs(h)
  PROVE  Onward(h)
<1>1. /\ pc[h] = "theirs" /\ OpenRequests = {} /\ UNCHANGED <<Contract, version, Rows>>
      /\ Goto(h, "arrive")
      /\ Keep(h, [job[h] EXCEPT !.seen = IF OpenEnvelopes = {} THEN "none" ELSE "open"])
  BY DEF Theirs, Knows
<1>2. pc'[h] = "arrive" /\ job'[h].seen = IF OpenEnvelopes = {} THEN "none" ELSE "open"
  BY <1>1, TypesAre DEF Goto, Keep, PCs, Inv, HandlersOK, Jobs
<1>3. Between(h)'
  BY <1>1, <1>2, ReadsOn
<1>4. Knows(h)'
  BY <1>1, <1>2, ReadFrame DEF Knows
<1>. QED
  BY <1>3, <1>4 DEF Onward

LEMMA SendOn ==
  ASSUME Inv, NEW h \in Handlers, Between(h), Knows(h), Send(h)
  PROVE  Onward(h)
<1>1. pc[h] = "idle" /\ Sendable /\ UNCHANGED <<Contract, version, Rows>> /\ Goto(h, "gate")
  BY DEF Send, Sendable
<1>2. pc'[h] = "gate"
  BY <1>1, TypesAre DEF Goto, PCs
<1>3. Between(h)'
  BY <1>1, <1>2, ReadsOn
<1>4. Knows(h)'
  BY <1>1, <1>2, ReadFrame DEF Knows
<1>. QED
  BY <1>3, <1>4 DEF Onward

LEMMA GateOn ==
  ASSUME Inv, NEW h \in Handlers, Between(h), Knows(h), Gate(h)
  PROVE  Onward(h)
<1>1. pc[h] = "gate" /\ Sendable /\ UNCHANGED <<Contract, version, Rows>>
  BY DEF Gate, Knows
<1>2. pc'[h] \in {"send", "idle"}
  BY TypesAre DEF Gate, Goto, Rest, PCs
<1>3. Between(h)'
  BY <1>1, <1>2, ReadsOn
<1>4. Knows(h)'
  BY <1>1, <1>2, ReadFrame DEF Knows
<1>. QED
  BY <1>3, <1>4 DEF Onward

LEMMA AnswerOn ==
  ASSUME Inv, NEW h \in Handlers, Between(h), Knows(h), Answer(h)
  PROVE  Onward(h)
<1>1. pc[h] = "idle" /\ UNCHANGED <<Contract, version, Rows>>
  BY DEF Answer
<1>2. PICK i \in OpenEnvelopes :
        \/ Goto(h, "complete") /\ Keep(h, [NoJob EXCEPT !.row = i])
        \/ \E how \in {"declined", "voided"} :
             Goto(h, "stop") /\ Keep(h, [NoJob EXCEPT !.row = i, !.at = Point("sign", how)])
  BY DEF Answer
<1>3. CASE Goto(h, "complete")
  <2>1. pc'[h] = "complete"
    BY <1>3, TypesAre DEF Goto, PCs
  <2>2. Between(h)'
    BY <1>1, <2>1, ReadsOn
  <2>3. Knows(h)'
    BY <2>1 DEF Knows
  <2>. QED
    BY <2>2, <2>3 DEF Onward
<1>4. ASSUME NEW how \in {"declined", "voided"}, Goto(h, "stop"),
             Keep(h, [NoJob EXCEPT !.row = i, !.at = Point("sign", how)])
      PROVE  Onward(h)
  <2>1. pc'[h] = "stop" /\ job'[h].at = Point("sign", how)
    <3>1. pc'[h] = "stop" /\ job'[h] = [NoJob EXCEPT !.row = i, !.at = Point("sign", how)]
      BY <1>4, TypesAre DEF Goto, Keep, PCs, Inv, HandlersOK
    <3>2. [NoJob EXCEPT !.row = i, !.at = Point("sign", how)].at = Point("sign", how)
      BY DEF NoJob
    <3>. QED
      BY <3>1, <3>2
  <2>2. Between(h)'
    BY <1>1, <2>1, ReadsOn
  <2>3. job'[h].at \in {Point("sign", "declined"), Point("sign", "voided")}
    BY <2>1
  <2>4. Knows(h)'
    BY <2>1, <2>3 DEF Knows
  <2>. QED
    BY <2>2, <2>4 DEF Onward
<1>. QED
  BY <1>2, <1>3, <1>4

LEMMA RevertOn ==
  ASSUME Inv, NEW h \in Handlers, Between(h), Knows(h), Revert(h)
  PROVE  Onward(h)
<1>1. /\ pc[h] = "idle" /\ point.stage = "sign" /\ OpenEnvelopes = {} /\ Goto(h, "revert")
      /\ UNCHANGED <<Contract, version, Rows>>
  BY DEF Revert, NothingOut
<1>2. PICK to \in {Approved, Point("draft", "drafting"), Point("negotiate", "with_us")} :
        /\ to = Approved => ApprovalStands
        /\ Keep(h, [NoJob EXCEPT !.at = to])
  BY DEF Revert
<1>3. pc'[h] = "revert" /\ job'[h].at = to
  <2>1. pc'[h] = "revert" /\ job'[h] = [NoJob EXCEPT !.at = to]
    BY <1>1, <1>2, TypesAre DEF Goto, Keep, PCs, Inv, HandlersOK
  <2>2. [NoJob EXCEPT !.at = to].at = to
    BY DEF NoJob
  <2>. QED
    BY <2>1, <2>2
<1>4. Between(h)'
  BY <1>1, <1>3, ReadsOn
<1>5. /\ point'.stage = "sign" /\ OpenEnvelopes' = {}
      /\ to = Approved => ApprovalStands'
      /\ job'[h].at \in {Approved, Point("draft", "drafting"), Point("negotiate", "with_us")}
  BY <1>1, <1>2, <1>3, ReadFrame
<1>6. Knows(h)'
  BY <1>1, <1>2, <1>3, <1>5, ReadFrame DEF Knows
<1>. QED
  BY <1>4, <1>6 DEF Onward

LEMMA CancelOn ==
  ASSUME Inv, NEW h \in Handlers, Between(h), Knows(h), Cancel(h)
  PROVE  Onward(h)
<1>1. /\ pc[h] = "idle" /\ point.stage \in Cancellable /\ OpenEnvelopes = {} /\ Goto(h, "cancel")
      /\ UNCHANGED <<Contract, version, Rows>>
  BY DEF Cancel, NothingOut, Rows, Out
<1>2. pc'[h] = "cancel"
  BY <1>1, TypesAre DEF Goto, PCs
<1>3. Between(h)'
  BY <1>1, <1>2, ReadsOn
<1>4. Knows(h)'
  BY <1>1, <1>2, ReadFrame DEF Knows, Cancellable
<1>. QED
  BY <1>3, <1>4 DEF Onward
-----------------------------------------------------------------------------
(* The calls that write.                                                     *)

LEMMA StandingIsThis ==
  ASSUME RequestsOK', NEW i \in Standing', \A x \in Standing' : x <= i, requests'[i].version = version'
  PROVE  ApprovalStands'
<1>1. Standing' \subseteq Nat
  BY LenProperties DEF RequestsOK, Standing, With
<1>2. Newest(Standing') = i
  BY <1>1, NewestOne
<1>3. Newest(Standing)' = i
  BY <1>2 DEF Newest
<1>. QED
  BY <1>3 DEF ApprovalStands

(* The contract and the envelopes are left.                                  *)
LEMMA RequestsWritten ==
  ASSUME UNCHANGED <<Contract, Out>>
  PROVE  /\ point' = point /\ workedIn' = workedIn /\ OpenEnvelopes' = OpenEnvelopes
         /\ OutIsInSign' <=> OutIsInSign
         /\ OutIsShown' <=> OutIsShown
         /\ SignedMoved' <=> SignedMoved
         /\ Submittable' <=> Submittable
<1>1. point' = point /\ workedIn' = workedIn /\ EnvelopesKept
  BY DEF Contract, EnvelopesKept, Out
<1>. QED
  BY <1>1, EnvelopeFrame DEF OutIsInSign, OutIsShown, SignedMoved, Submittable

LEMMA SubmitCreatesOn ==
  ASSUME Inv, Inv', NEW h \in Handlers, Between(h), Knows(h), SubmitCreates(h)
  PROVE  Onward(h)
<1>. DEFINE r == Row(IF job[h].kind = "auto" THEN "AUTO_APPROVED" ELSE "PENDING", version)
            n == Len(requests')
<1>1. /\ pc[h] = "submit" /\ Submittable /\ job[h].kind \in {"asked", "auto"} /\ OpenRequests = {}
      /\ job[h].version = version
      /\ job[h].kind = "auto" => AutoApproves
      /\ OpenIsNewest /\ NoneAuto /\ (point \in FlowPoints) /\ OutIsInSign /\ OutIsShown /\ SignedMoved
  BY DEF SubmitCreates, Knows, Between
<1>2. /\ requests' = Append(requests, r) /\ Goto(h, "submitted")
      /\ Keep(h, [job[h] EXCEPT !.row = n]) /\ UNCHANGED <<Contract, version, Out, crashes>>
  BY <1>1 DEF SubmitCreates
<1>3. /\ r \in RequestRow /\ r.version = version
      /\ r.status = IF job[h].kind = "auto" THEN "AUTO_APPROVED" ELSE "PENDING"
  BY TypesAre DEF Row, RequestRow, RowsOf, Statuses
<1>. HIDE DEF r
<1>4. /\ n \in Nat /\ n \notin DOMAIN requests /\ requests'[n] = r
      /\ DOMAIN requests' = DOMAIN requests \union {n}
      /\ \A i \in DOMAIN requests : requests'[i] = requests[i] /\ i < n
  <2>1. requests \in Seq(RequestRow)
    BY DEF Inv, RequestsOK
  <2>. QED
    BY <1>2, <1>3, <2>1, AppendIs
<1>. HIDE DEF n
<1>5. /\ OpenRequests' = IF job[h].kind = "auto" THEN {} ELSE {n}
      /\ Standing' \subseteq Standing \union {n}
  BY <1>1, <1>3, <1>4 DEF OpenRequests, Standing, With
<1>6. pc'[h] = "submitted" /\ job'[h].kind = job[h].kind
  BY <1>1, <1>2, TypesAre DEF Goto, Keep, PCs, Inv, HandlersOK, Jobs
<1>7. point' = point /\ point \notin {Pending, Approved}
  BY <1>1, <1>2, NamedPoints DEF Submittable, Working, Contract, Inv, ContractOK
<1>8. OpenIsNewest' /\ NoneAuto' /\ OpenIsCurrent' /\ (point \in FlowPoints)'
  <2>1. \A j \in Standing : j <= n
    <3>1. ASSUME NEW j \in Standing PROVE j <= n
      <4>1. j \in DOMAIN requests
        BY DEF Standing, With
      <4>2. j \in Nat /\ j < n
        BY <1>4, <4>1, RequestRowIs DEF Inv
      <4>. QED
        BY <1>4, <4>2
    <3>. QED
      BY <3>1
  <2>2. OpenIsNewest'
    <3>1. n <= n
      BY <1>4
    <3>. QED
      BY <1>5, <2>1, <3>1 DEF OpenIsNewest, Live
  <2>3. NoneAuto'
    BY <1>1, <1>3, <1>4 DEF NoneAuto
  <2>4. OpenIsCurrent'
    BY <1>2, <1>3, <1>4, <1>5 DEF OpenIsCurrent
  <2>. QED
    BY <1>1, <1>7, <2>2, <2>3, <2>4 DEF FlowPoints
<1>9. PendingHasOpen' /\ ApprovedHasOne' /\ ApprovedIsThis'
  BY <1>5, <1>7 DEF PendingHasOpen, ApprovedHasOne, ApprovedIsThis
<1>10. OutIsInSign' /\ OutIsShown' /\ SignedMoved' /\ Submittable'
  BY <1>1, <1>2, RequestsWritten
<1>11. Between(h)'
  BY <1>6, <1>8, <1>9, <1>10 DEF Between
<1>12. Knows(h)'
  BY <1>1, <1>5, <1>6, <1>10 DEF Knows
<1>. QED
  BY <1>11, <1>12 DEF Onward

LEMMA NewVersionOn ==
  ASSUME Inv, NEW h \in Handlers, Between(h), Knows(h), NewVersion(h)
  PROVE  Onward(h)
<1>1. /\ pc[h] = "idle" /\ Goto(h, "edited") /\ UNCHANGED <<Contract, Rows>>
      /\ \E kind \in {"ours", "theirs"} : Keep(h, [NoJob EXCEPT !.version = version', !.kind = kind])
  BY DEF NewVersion
<1>2. pc'[h] = "edited" /\ job'[h].version = version' /\ job'[h].kind \in {"ours", "theirs"}
  BY <1>1, TypesAre DEF Goto, Keep, PCs, Inv, HandlersOK, NoJob
<1>3. point' = point /\ requests' = requests /\ envelopes' = envelopes
  BY <1>1 DEF Contract, Rows, Out
<1>4. /\ OpenIsNewest' /\ NoneAuto' /\ (point \in FlowPoints)' /\ OpenIsAsked'
      /\ PendingHasOpen' /\ ApprovedHasOne'
  <2>1. OpenIsNewest /\ NoneAuto /\ (point \in FlowPoints) /\ OpenIsAsked /\ PendingHasOpen /\ ApprovedHasOne
    BY <1>1 DEF Between
  <2>2. OpenRequests' = OpenRequests /\ Standing' = Standing
    BY <1>3 DEF OpenRequests, Standing, With
  <2>. QED
    BY <1>3, <2>1, <2>2
       DEF OpenIsNewest, Live, NoneAuto, OpenIsAsked, PendingHasOpen, ApprovedHasOne, FlowPoints
<1>5. OutIsInSign' /\ OutIsShown' /\ SignedMoved'
  <2>1. UNCHANGED <<Contract, Out>>
    BY <1>1 DEF Rows
  <2>. QED
    BY <1>1, <2>1, RequestsWritten DEF Between
<1>6. Between(h)'
  BY <1>2, <1>4, <1>5 DEF Between
<1>7. Knows(h)'
  BY <1>2 DEF Knows
<1>. QED
  BY <1>6, <1>7 DEF Onward

LEMMA SetRow ==
  ASSUME RequestsOK, NEW i \in DOMAIN requests, NEW x \in Statuses, requests' = Set(requests, i, x)
  PROVE  /\ DOMAIN requests' = DOMAIN requests
         /\ requests'[i].status = x /\ requests'[i].version = requests[i].version
         /\ \A j \in DOMAIN requests \ {i} : requests'[j] = requests[j]
<1>1. requests \in Seq(RowsOf(Statuses))
  BY DEF RequestsOK, RequestRow
<1>. QED
  BY <1>1, SetIs

LEMMA DecideOn ==
  ASSUME Inv, Inv', NEW h \in Handlers, Between(h), Knows(h), Decide(h)
  PROVE  Onward(h)
<1>1. PICK i \in OpenRequests, to \in {Approved, Declined, Point(workedIn, "returned")} :
        /\ requests' = Set(requests, i, IF to = Approved THEN "APPROVED" ELSE "REJECTED")
        /\ Keep(h, [NoJob EXCEPT !.at = to])
  BY DEF Decide
<1>2. pc[h] = "idle" /\ Goto(h, "decided") /\ UNCHANGED <<Contract, version, Out, crashes>>
  BY DEF Decide
<1>3. /\ OpenIsNewest /\ NoneAuto /\ (point \in FlowPoints) /\ OpenIsCurrent /\ OpenIsAsked
      /\ OutIsInSign /\ OutIsShown /\ SignedMoved
  BY <1>2 DEF Between
<1>4. i \in DOMAIN requests /\ RequestsOK /\ RequestsOK'
  BY DEF OpenRequests, With, Inv
<1>5. /\ DOMAIN requests' = DOMAIN requests
      /\ requests'[i].status = IF to = Approved THEN "APPROVED" ELSE "REJECTED"
      /\ requests'[i].version = requests[i].version
      /\ \A j \in DOMAIN requests \ {i} : requests'[j] = requests[j]
  BY <1>1, <1>4, SetRow DEF Statuses
<1>6. OpenRequests = {i}
  BY <1>3, <1>4, OnlyOpen
<1>7. OpenRequests' = {} /\ Standing' \subseteq Standing \union {i}
  BY <1>5, <1>6 DEF OpenRequests, Standing, With
<1>8. pc'[h] = "decided" /\ job'[h].at = to
  <2>1. pc'[h] = "decided" /\ job'[h] = [NoJob EXCEPT !.at = to]
    BY <1>1, <1>2, TypesAre DEF Goto, Keep, PCs, Inv, HandlersOK
  <2>2. [NoJob EXCEPT !.at = to].at = to
    BY DEF NoJob
  <2>. QED
    BY <2>1, <2>2
<1>9. point' = point /\ workedIn' = workedIn /\ version' = version /\ point \in {Pending, Declined}
      /\ Pending # Approved /\ Declined # Approved
  BY <1>2, <1>3, NamedPoints DEF Contract, OpenIsAsked, Inv, ContractOK
<1>10. ASSUME to = Approved PROVE ApprovalStands'
  <2>1. i \in Standing'
    BY <1>4, <1>5, <1>10 DEF Standing, With
  <2>2. \A x \in Standing' : x <= i
    <3>1. \A x \in Standing : x <= i
      BY <1>3 DEF OpenIsNewest, Live
    <3>2. i <= i
      BY <1>4, LiveRow
    <3>. QED
      BY <1>7, <3>1, <3>2
  <2>3. requests'[i].version = version'
    BY <1>3, <1>5, <1>9 DEF OpenIsCurrent
  <2>. QED
    BY <1>4, <2>1, <2>2, <2>3, StandingIsThis
<1>11. /\ OpenIsNewest' /\ NoneAuto' /\ OpenIsCurrent' /\ OpenIsAsked' /\ (point \in FlowPoints)'
       /\ ApprovedHasOne' /\ ApprovedIsThis'
  BY <1>3, <1>5, <1>7, <1>9
     DEF OpenIsNewest, NoneAuto, OpenIsCurrent, OpenIsAsked, ApprovedHasOne, ApprovedIsThis, FlowPoints
<1>12. OutIsInSign' /\ OutIsShown' /\ SignedMoved'
  BY <1>2, <1>3, RequestsWritten
<1>13. Between(h)'
  BY <1>8, <1>11, <1>12 DEF Between
<1>14. Knows(h)'
  BY <1>7, <1>8, <1>9, <1>10 DEF Knows
<1>. QED
  BY <1>13, <1>14 DEF Onward

LEMMA CarryOn ==
  ASSUME Inv, Inv', NEW h \in Handlers, Between(h), Knows(h), Carry(h)
  PROVE  Onward(h)
<1>. DEFINE i == job[h].row
<1>1. /\ pc[h] = "carry" /\ job[h].version = version /\ i \in Live
      /\ \A x \in Live : x <= i
      /\ OpenIsNewest /\ NoneAuto /\ (point \in FlowPoints) /\ OpenIsAsked
      /\ OutIsInSign /\ PendingHasOpen /\ ApprovedHasOne /\ OutIsShown /\ SignedMoved
  BY DEF Carry, Knows, Between
<1>2. /\ requests' = [requests EXCEPT ![i].version = version] /\ Rest(h)
      /\ UNCHANGED <<Contract, version, Out, crashes>>
  BY <1>1 DEF Carry
<1>3. i \in DOMAIN requests /\ RequestsOK /\ RequestsOK'
  BY <1>1, LiveRow DEF Inv
<1>4. /\ DOMAIN requests' = DOMAIN requests /\ requests'[i].version = version
      /\ \A j \in DOMAIN requests : requests'[j].status = requests[j].status
  <2>1. requests[i] \in RequestRow
    BY <1>3, RequestRowIs
  <2>. QED
    BY <1>2, <1>3, <2>1 DEF RequestRow, RowsOf
<1>. HIDE DEF i
<1>5. OpenRequests' = OpenRequests /\ Standing' = Standing /\ Live' = Live
  BY <1>4 DEF OpenRequests, Standing, Live, With
<1>6. OpenRequests \subseteq {i}
  BY <1>1, <1>3, OnlyNewest
<1>7. point' = point /\ version' = version /\ pc'[h] = "idle"
  BY <1>2, TypesAre DEF Contract, Rest, Goto, PCs
<1>8. OpenIsNewest' /\ NoneAuto' /\ OpenIsCurrent' /\ OpenIsAsked' /\ PendingHasOpen' /\ (point \in FlowPoints)'
  BY <1>1, <1>4, <1>5, <1>6, <1>7
     DEF OpenIsNewest, NoneAuto, OpenIsCurrent, OpenIsAsked, PendingHasOpen, FlowPoints
<1>9. ApprovedIsThis'
  <2>1. SUFFICES ASSUME point = Approved PROVE ApprovalStands'
    BY <1>7 DEF ApprovedIsThis
  <2>2. OpenRequests = {}
    BY <1>1, <2>1, NamedPoints DEF OpenIsAsked, Inv, ContractOK
  <2>3. i \in Standing' /\ \A x \in Standing' : x <= i
    BY <1>1, <1>5, <2>2 DEF Live
  <2>. QED
    BY <1>3, <1>4, <1>7, <2>3, StandingIsThis
<1>10. OutIsInSign' /\ OutIsShown' /\ SignedMoved'
  BY <1>1, <1>2, RequestsWritten
<1>. QED
  BY <1>7, <1>8, <1>9, <1>10, RestIs DEF Onward

LEMMA ResetOn ==
  ASSUME Inv, Inv', NEW h \in Handlers, Between(h), Knows(h), Reset(h)
  PROVE  Onward(h)
<1>. DEFINE i == job[h].row
<1>1. /\ pc[h] = "reset" /\ job[h].version = version /\ i \in Live
      /\ \A x \in Live : x <= i
      /\ job[h].seen = requests[i].status /\ point.stage = "approve"
      /\ OpenIsNewest /\ NoneAuto /\ (point \in FlowPoints) /\ OpenIsAsked
      /\ OutIsInSign /\ PendingHasOpen /\ OutIsShown /\ SignedMoved
  BY DEF Reset, Knows, Between
<1>2. /\ requests' = [requests EXCEPT ![i] = Row("PENDING", version)]
      /\ UNCHANGED <<Contract, version, Out, approved, crashes>>
  BY <1>1 DEF Reset
<1>3. i \in DOMAIN requests /\ i \in Nat /\ RequestsOK /\ RequestsOK'
  BY <1>1, LiveRow DEF Inv
<1>4. /\ DOMAIN requests' = DOMAIN requests
      /\ requests'[i].status = "PENDING" /\ requests'[i].version = version
      /\ \A j \in DOMAIN requests \ {i} : requests'[j] = requests[j]
  BY <1>2, <1>3 DEF Row
<1>. HIDE DEF i
<1>5. OpenRequests \subseteq {i}
  BY <1>1, <1>3, OnlyNewest
<1>6. OpenRequests' = {i} /\ Standing' \subseteq Standing
  BY <1>3, <1>4, <1>5 DEF OpenRequests, Standing, With
<1>7. point' = point /\ version' = version
  BY <1>2 DEF Contract
<1>8. OpenIsNewest' /\ NoneAuto' /\ OpenIsCurrent' /\ PendingHasOpen' /\ (point \in FlowPoints)'
  <2>1. OpenIsNewest'
    BY <1>1, <1>3, <1>6 DEF OpenIsNewest, Live
  <2>2. NoneAuto' /\ OpenIsCurrent' /\ PendingHasOpen' /\ (point \in FlowPoints)'
    BY <1>1, <1>4, <1>6, <1>7 DEF NoneAuto, OpenIsCurrent, PendingHasOpen, FlowPoints
  <2>. QED
    BY <2>1, <2>2
<1>9. OutIsInSign' /\ OutIsShown' /\ SignedMoved'
  BY <1>1, <1>2, RequestsWritten
<1>10. point \in {Pending, Approved, Declined} /\ Approved # Pending /\ Approved # Declined
  BY <1>1, InApprove, NamedPoints DEF Inv, ContractOK
<1>11. CASE job[h].seen = "PENDING" /\ Rest(h)
  <2>1. OpenRequests = {i}
    BY <1>1, <1>3, <1>5, <1>11 DEF OpenRequests, With
  <2>2. point \in {Pending, Declined}
    BY <1>1, <2>1 DEF OpenIsAsked
  <2>3. OpenIsAsked' /\ ApprovedIsThis'
    BY <1>7, <1>10, <2>2 DEF OpenIsAsked, ApprovedIsThis
  <2>4. pc'[h] = "idle"
    BY <1>11, TypesAre DEF Rest, Goto, PCs
  <2>. QED
    BY <1>8, <1>9, <2>3, <2>4, RestIs DEF Onward
<1>12. CASE job[h].seen # "PENDING" /\ Goto(h, "reopened")
  <2>1. OpenRequests = {}
    BY <1>1, <1>3, <1>5, <1>12, LiveRow
  <2>2. point # Pending
    BY <1>1, <2>1 DEF PendingHasOpen
  <2>3. pc'[h] = "reopened"
    BY <1>12, TypesAre DEF Goto, PCs
  <2>4. Between(h)'
    BY <1>8, <1>9, <2>3 DEF Between
  <2>5. Knows(h)'
    BY <1>6, <1>7, <1>10, <2>2, <2>3 DEF Knows
  <2>. QED
    BY <2>4, <2>5 DEF Onward
<1>. QED
  BY <1>11, <1>12 DEF Reset

LEMMA WithdrawOn ==
  ASSUME Inv, NEW h \in Handlers, Between(h), Knows(h), Withdraw(h)
  PROVE  Onward(h)
<1>. DEFINE i == job[h].row
<1>1. /\ pc[h] = "withdraw" /\ i \in Live
      /\ \A x \in Live : x <= i
      /\ job[h].seen = requests[i].status
      /\ OpenIsNewest /\ NoneAuto /\ (point \in FlowPoints) /\ OutIsInSign /\ OutIsShown /\ SignedMoved
  BY DEF Withdraw, Knows, Between
<1>2. /\ requests' = Set(requests, i, "CANCELLED") /\ Goto(h, "theirs")
      /\ UNCHANGED <<Contract, version, Out, approved, job, crashes>>
  BY <1>1 DEF Withdraw
<1>3. i \in DOMAIN requests /\ RequestsOK
  BY <1>1, LiveRow DEF Inv
<1>4. /\ DOMAIN requests' = DOMAIN requests /\ requests'[i].status = "CANCELLED"
      /\ \A j \in DOMAIN requests \ {i} : requests'[j] = requests[j]
  BY <1>2, <1>3, SetRow DEF Statuses
<1>. HIDE DEF i
<1>5. OpenRequests' = {}
  <2>1. OpenRequests \subseteq {i}
    BY <1>1, <1>3, OnlyNewest
  <2>. QED
    BY <1>4, <2>1 DEF OpenRequests, With
<1>6. point' = point /\ pc'[h] = "theirs"
  BY <1>2, TypesAre DEF Contract, Goto, PCs
<1>7. OpenIsNewest' /\ NoneAuto' /\ OpenIsCurrent' /\ OpenIsAsked' /\ (point \in FlowPoints)'
  BY <1>1, <1>4, <1>5, <1>6 DEF OpenIsNewest, NoneAuto, OpenIsCurrent, OpenIsAsked, FlowPoints
<1>8. OutIsInSign' /\ OutIsShown' /\ SignedMoved'
  BY <1>1, <1>2, RequestsWritten
<1>9. Between(h)'
  BY <1>6, <1>7, <1>8 DEF Between
<1>10. Knows(h)'
  BY <1>5, <1>6 DEF Knows
<1>. QED
  BY <1>9, <1>10 DEF Onward

LEMMA WithdrawAutoOn ==
  ASSUME Inv, NEW h \in Handlers, Between(h), Knows(h), WithdrawAuto(h)
  PROVE  Onward(h)
<1>. DEFINE i == job[h].row
<1>1. /\ pc[h] = "withdraw_auto" /\ AutoApproves /\ OpenRequests = {} /\ point.stage = "approve"
      /\ PendingHasOpen /\ (point \in FlowPoints) /\ OutIsInSign /\ OutIsShown /\ SignedMoved
  BY DEF WithdrawAuto, Knows, Between
<1>2. /\ requests' \in {requests, Set(requests, i, "CANCELLED")} /\ Goto(h, "unapprove")
      /\ UNCHANGED <<Contract, version, Out, approved, job, crashes>>
  BY DEF WithdrawAuto
<1>3. i \in DOMAIN requests /\ RequestsOK
  <2>1. pc[h] = "withdraw_auto" /\ Busy(h)
    BY <1>1, TypesAre
  <2>. QED
    BY <2>1 DEF Busy, Inv
<1>4. OpenRequests' = {}
  <2>1. CASE requests' = requests
    BY <1>1, <2>1 DEF OpenRequests, With
  <2>2. CASE requests' = Set(requests, i, "CANCELLED")
    <3>1. /\ DOMAIN requests' = DOMAIN requests /\ requests'[i].status = "CANCELLED"
          /\ \A j \in DOMAIN requests \ {i} : requests'[j] = requests[j]
      BY <1>3, <2>2, SetRow DEF Statuses
    <3>. QED
      BY <1>1, <3>1 DEF OpenRequests, With
  <2>. QED
    BY <1>2, <2>1, <2>2
<1>5. point' = point /\ pc'[h] = "unapprove"
  BY <1>2, TypesAre DEF Contract, Goto, PCs
<1>6. /\ OpenIsNewest' /\ NoneAuto' /\ OpenIsCurrent' /\ OpenIsAsked' /\ (point \in FlowPoints)'
      /\ PendingHasOpen' /\ ApprovedHasOne' /\ ApprovedIsThis'
  BY <1>1, <1>4, <1>5
     DEF OpenIsNewest, NoneAuto, OpenIsCurrent, OpenIsAsked, FlowPoints, PendingHasOpen,
         ApprovedHasOne, ApprovedIsThis
<1>7. OutIsInSign' /\ OutIsShown' /\ SignedMoved'
  BY <1>1, <1>2, RequestsWritten
<1>8. Between(h)'
  BY <1>5, <1>6, <1>7 DEF Between
<1>9. Knows(h)'
  BY <1>1, <1>4, <1>5 DEF Knows
<1>. QED
  BY <1>8, <1>9 DEF Onward

LEMMA CancelRequestsOn ==
  ASSUME Inv, NEW h \in Handlers, Between(h), Knows(h), CancelRequests(h)
  PROVE  Onward(h)
<1>1. /\ pc[h] = "cancelled" /\ point = Cancelled /\ NoneAuto /\ (point \in FlowPoints)
      /\ OutIsInSign /\ OutIsShown /\ SignedMoved
  BY DEF CancelRequests, Knows, Between
<1>2. /\ requests' = [j \in DOMAIN requests |->
                        IF j \in OpenRequests THEN [requests[j] EXCEPT !.status = "CANCELLED"] ELSE requests[j]]
      /\ Rest(h) /\ UNCHANGED <<Contract, version, Out, approved, crashes>>
  BY DEF CancelRequests
<1>3. /\ DOMAIN requests' = DOMAIN requests
      /\ \A j \in OpenRequests : j \in DOMAIN requests /\ requests'[j].status = "CANCELLED"
      /\ \A j \in DOMAIN requests \ OpenRequests : requests'[j] = requests[j]
  <2>1. \A j \in OpenRequests : j \in DOMAIN requests /\ requests[j] \in RequestRow
    BY RequestRowIs DEF Inv, OpenRequests, With
  <2>. QED
    BY <1>2, <2>1 DEF RequestRow, RowsOf
<1>4. OpenRequests' = {}
  BY <1>3 DEF OpenRequests, With
<1>5. point' = point /\ pc'[h] = "idle" /\ point \notin {Pending, Approved}
  BY <1>1, <1>2, TypesAre, NamedPoints DEF Contract, Rest, Goto, PCs, Inv, ContractOK
<1>6. /\ OpenIsNewest' /\ NoneAuto' /\ OpenIsCurrent' /\ OpenIsAsked' /\ (point \in FlowPoints)'
      /\ PendingHasOpen' /\ ApprovedIsThis'
  BY <1>1, <1>3, <1>4, <1>5
     DEF OpenIsNewest, NoneAuto, OpenIsCurrent, OpenIsAsked, FlowPoints, PendingHasOpen, ApprovedIsThis
<1>7. OutIsInSign' /\ OutIsShown' /\ SignedMoved'
  BY <1>1, <1>2, RequestsWritten
<1>. QED
  BY <1>5, <1>6, <1>7, RestIs DEF Onward
-----------------------------------------------------------------------------
(* The contract and the requests are left.                                   *)

LEMMA EnvelopesWritten ==
  ASSUME UNCHANGED <<Contract, version, requests>>
  PROVE  /\ point' = point /\ workedIn' = workedIn /\ version' = version /\ RequestsKept
         /\ OpenRequests' = OpenRequests /\ Live' = Live
         /\ OpenIsNewest' <=> OpenIsNewest
         /\ NoneAuto' <=> NoneAuto
         /\ OpenIsCurrent' <=> OpenIsCurrent
         /\ ApprovalStands' <=> ApprovalStands
         /\ OpenIsAsked' <=> OpenIsAsked
         /\ PendingHasOpen' <=> PendingHasOpen
         /\ ApprovedHasOne' <=> ApprovedHasOne
         /\ ApprovedIsThis' <=> ApprovedIsThis
         /\ Submittable' <=> Submittable
         /\ Sendable' <=> Sendable
<1>1. point' = point /\ workedIn' = workedIn /\ version' = version /\ RequestsKept
  BY DEF Contract, RequestsKept
<1>2. /\ OpenRequests' = OpenRequests /\ Standing' = Standing /\ Live' = Live
      /\ OpenIsNewest' <=> OpenIsNewest
      /\ NoneAuto' <=> NoneAuto
      /\ OpenIsCurrent' <=> OpenIsCurrent
      /\ ApprovalStands' <=> ApprovalStands
  BY <1>1, RequestFrame
<1>. QED
  BY <1>1, <1>2 DEF OpenIsAsked, PendingHasOpen, ApprovedHasOne, ApprovedIsThis, Submittable, Sendable

LEMMA SendCreatesOn ==
  ASSUME Inv, NEW h \in Handlers, Between(h), Knows(h), SendCreates(h)
  PROVE  Onward(h)
<1>. DEFINE r == Row("PENDING", job[h].version)
            n == Len(envelopes')
<1>1. /\ pc[h] = "send" /\ Sendable
      /\ OpenIsNewest /\ NoneAuto /\ (point \in FlowPoints) /\ OpenIsCurrent /\ OpenIsAsked
      /\ PendingHasOpen /\ ApprovedHasOne /\ ApprovedIsThis /\ OutIsShown /\ SignedMoved
  BY DEF SendCreates, Knows, Between
<1>2. /\ envelopes' = Append(envelopes, r) /\ Goto(h, "sent")
      /\ UNCHANGED <<Contract, version, requests, reminding, approved, signed, job, crashes>>
  BY DEF SendCreates
<1>3. r \in EnvelopeRow /\ r.status = "PENDING"
  BY TypesAre DEF Row, EnvelopeRow, RowsOf, Jobs
<1>. HIDE DEF r
<1>4. /\ n \in DOMAIN envelopes' /\ envelopes'[n] = r
      /\ DOMAIN envelopes' = DOMAIN envelopes \union {n}
      /\ \A i \in DOMAIN envelopes : envelopes'[i] = envelopes[i]
  <2>1. envelopes \in Seq(EnvelopeRow)
    BY DEF Inv, EnvelopesOK
  <2>. QED
    BY <1>2, <1>3, <2>1, AppendIs
<1>. HIDE DEF n
<1>5. n \in With(envelopes', {"PENDING", "EXPIRED"})
  BY <1>3, <1>4 DEF With
<1>6. pc'[h] = "sent"
  BY <1>2, TypesAre DEF Goto, PCs
<1>7. OutIsShown' /\ SignedMoved'
  BY <1>1, <1>2, <1>5 DEF OutIsShown, SignedMoved, Contract
<1>8. Between(h)'
  BY <1>1, <1>2, <1>6, <1>7, EnvelopesWritten DEF Between
<1>9. Knows(h)'
  BY <1>1, <1>2, <1>5, <1>6, EnvelopesWritten DEF Knows
<1>. QED
  BY <1>8, <1>9 DEF Onward

(* One envelope is settled, or marked as past its date.                      *)
LEMMA SetEnvelope ==
  ASSUME Inv, NEW i \in DOMAIN envelopes, NEW x \in {"COMPLETED", "VOIDED", "EXPIRED"},
         envelopes' = Set(envelopes, i, x), UNCHANGED <<Contract, version, requests>>
  PROVE  /\ OpenEnvelopes' \subseteq OpenEnvelopes
         /\ OutIsInSign => OutIsInSign'
         /\ signed' = signed /\ SignedMoved => SignedMoved'
         /\ x = "EXPIRED" => With(envelopes, {"PENDING", "EXPIRED"}) \subseteq With(envelopes', {"PENDING", "EXPIRED"})
         /\ x = "EXPIRED" /\ OutIsShown => OutIsShown'
<1>. DEFINE T == {"PENDING", "COMPLETED", "VOIDED", "EXPIRED"}
<1>1. envelopes \in Seq(RowsOf(T)) /\ x \in T
  BY DEF Inv, EnvelopesOK, EnvelopeRow
<1>. HIDE DEF T
<1>2. /\ DOMAIN envelopes' = DOMAIN envelopes /\ envelopes'[i].status = x
      /\ \A k \in DOMAIN envelopes \ {i} : envelopes'[k] = envelopes[k]
  BY <1>1, SetIs
<1>3. OpenEnvelopes' \subseteq OpenEnvelopes
  BY <1>1, <1>2 DEF OpenEnvelopes, With
<1>4. x = "EXPIRED" => With(envelopes, {"PENDING", "EXPIRED"}) \subseteq With(envelopes', {"PENDING", "EXPIRED"})
  BY <1>1, <1>2 DEF With
<1>5. point' = point
  BY DEF Contract
<1>. QED
  BY <1>3, <1>4, <1>5 DEF OutIsInSign, SignedMoved, OutIsShown

LEMMA SettleOn ==
  ASSUME Inv, NEW h \in Handlers, Between(h), Knows(h), Complete(h) \/ Stop(h)
  PROVE  Onward(h)
<1>. DEFINE i == job[h].row
<1>1. /\ pc[h] \in {"complete", "stop"} /\ i \in DOMAIN envelopes
      /\ OpenIsNewest /\ NoneAuto /\ (point \in FlowPoints) /\ OpenIsCurrent /\ OpenIsAsked
      /\ OutIsInSign /\ PendingHasOpen /\ ApprovedHasOne /\ ApprovedIsThis /\ OutIsShown /\ SignedMoved
  <2>1. pc[h] \in {"complete", "stop"} /\ Busy(h)
    BY TypesAre DEF Complete, Stop
  <2>. QED
    BY <2>1 DEF Busy, Between
<1>2. /\ pc[h] = "stop" => job[h].at \in {Point("sign", "declined"), Point("sign", "voided")}
      /\ UNCHANGED <<Contract, version, requests>>
  BY DEF Knows, Complete, Stop, Settle
<1>3. CASE Rest(h) /\ UNCHANGED Out
  <2>1. UNCHANGED <<Contract, version, requests, Out>> /\ pc'[h] = "idle"
    BY <1>2, <1>3, TypesAre DEF Rest, Goto, PCs
  <2>2. OutIsInSign' /\ OutIsShown' /\ SignedMoved'
    BY <1>1, <2>1, RequestsWritten
  <2>3. /\ OpenIsNewest' /\ NoneAuto' /\ (point \in FlowPoints)' /\ OpenIsCurrent' /\ OpenIsAsked'
        /\ PendingHasOpen' /\ ApprovedIsThis'
    BY <1>1, <1>2, EnvelopesWritten DEF FlowPoints
  <2>. QED
    BY <2>1, <2>2, <2>3, RestIs DEF Onward
<1>4. ASSUME NEW x \in {"COMPLETED", "VOIDED"}, NEW where \in {"completed", "stopped"},
             where = "stopped" => pc[h] = "stop" /\ x = "VOIDED",
             i \in OpenEnvelopes, envelopes' = Set(envelopes, i, x), where = "stopped" => signed' = signed,
             Goto(h, where), job' = job
      PROVE  Onward(h)
  <2>1. pc'[h] = where
    BY <1>4, TypesAre DEF Goto, PCs
  <2>2. point.stage \in {"sign", "active"}
    BY <1>1, <1>4 DEF OutIsInSign
  <2>3. OutIsInSign' /\ (where = "stopped" => SignedMoved')
    BY <1>1, <1>2, <1>4, SetEnvelope
  <2>4. Between(h)'
    BY <1>1, <1>2, <2>1, <2>3, EnvelopesWritten DEF Between
  <2>5. point'.stage \in {"sign", "active"} /\ (where = "stopped" => job'[h].at = job[h].at)
    BY <1>2, <1>4, <2>2 DEF Contract
  <2>6. Knows(h)'
    BY <1>2, <1>4, <2>1, <2>5 DEF Knows
  <2>. QED
    BY <2>4, <2>6 DEF Onward
<1>5. \/ Rest(h) /\ UNCHANGED Out
      \/ /\ i \in OpenEnvelopes /\ job' = job
         /\ \/ Complete(h) /\ envelopes' = Set(envelopes, i, "COMPLETED") /\ Goto(h, "completed")
            \/ /\ Stop(h) /\ envelopes' = Set(envelopes, i, "VOIDED") /\ signed' = signed
               /\ Goto(h, "stopped")
  BY <1>1 DEF Complete, Stop, Settle, Signed, OpenEnvelopes, With, Out
<1>. HIDE DEF i
<1>6. CASE Complete(h) /\ i \in OpenEnvelopes /\ job' = job
           /\ envelopes' = Set(envelopes, i, "COMPLETED") /\ Goto(h, "completed")
  BY <1>4, <1>6
<1>7. CASE Stop(h) /\ i \in OpenEnvelopes /\ job' = job /\ signed' = signed
           /\ envelopes' = Set(envelopes, i, "VOIDED") /\ Goto(h, "stopped")
  <2>1. pc[h] = "stop"
    BY <1>7 DEF Stop
  <2>. QED
    BY <1>4, <1>7, <2>1
<1>. QED
  BY <1>3, <1>5, <1>6, <1>7

(* Envelopes past their date are marked, or read by the reminder, beside it. *)
LEMMA ExpireOn ==
  ASSUME Inv, NEW h \in Handlers, Between(h), Knows(h), Expire \/ Remind \/ RemindExpires
  PROVE  Onward(h)
<1>1. UNCHANGED <<Contract, version, requests, approved, signed, pc, job, crashes>>
  BY DEF Expire, Remind, RemindExpires
<1>2. \/ \E i \in DOMAIN envelopes : envelopes' = Set(envelopes, i, "EXPIRED")
      \/ envelopes' = envelopes
  BY DEF Expire, Remind, RemindExpires, OpenEnvelopes, With, Inv, EnvelopesOK
<1>3. /\ OpenEnvelopes' \subseteq OpenEnvelopes
      /\ OutIsInSign => OutIsInSign'
      /\ SignedMoved => SignedMoved'
      /\ OutIsShown => OutIsShown'
      /\ With(envelopes, {"PENDING", "EXPIRED"}) \subseteq With(envelopes', {"PENDING", "EXPIRED"})
  <2>1. CASE envelopes' = envelopes
    BY <1>1, <2>1 DEF OpenEnvelopes, With, OutIsInSign, SignedMoved, OutIsShown, Contract
  <2>2. CASE \E i \in DOMAIN envelopes : envelopes' = Set(envelopes, i, "EXPIRED")
    BY <1>1, <2>2, SetEnvelope
  <2>. QED
    BY <1>2, <2>1, <2>2
<1>4. Between(h)'
  BY <1>1, <1>3, EnvelopesWritten DEF Between
<1>5. Knows(h)'
  BY <1>1, <1>3, EnvelopesWritten DEF Knows
<1>. QED
  BY <1>4, <1>5 DEF Onward
-----------------------------------------------------------------------------
LEMMA CallInit == ASSUME Init PROVE CallInv
<1>. SUFFICES ASSUME NEW h \in Handlers PROVE Between(h) /\ Knows(h)
  BY DEF CallInv
<1>1. /\ workedIn \in Working /\ point.stage = workedIn /\ requests = <<>> /\ envelopes = <<>>
      /\ signed = {} /\ pc[h] = "idle"
  BY DEF Init, Point
<1>2. point \in Points
  BY InitInv DEF Inv, ContractOK
<1>3. point \in FlowPoints /\ point \notin {Pending, Approved, Point("sign", "out_for_signature")}
  BY <1>1, <1>2, FlowPointIs, NamedPoints DEF Working
<1>4. OpenRequests = {} /\ OpenEnvelopes = {} /\ signed = {}
  BY <1>1 DEF OpenRequests, OpenEnvelopes, With
<1>5. OpenIsNewest /\ NoneAuto /\ OpenIsCurrent /\ OpenIsAsked /\ OutIsInSign
  BY <1>1, <1>4 DEF OpenIsNewest, NoneAuto, OpenIsCurrent, OpenIsAsked, OutIsInSign
<1>6. PendingHasOpen /\ ApprovedHasOne /\ ApprovedIsThis /\ OutIsShown /\ SignedMoved
  BY <1>3, <1>4 DEF PendingHasOpen, ApprovedHasOne, ApprovedIsThis, OutIsShown, SignedMoved
<1>. QED
  BY <1>1, <1>3, <1>5, <1>6 DEF Between, Knows

LEMMA CallGoesOn ==
  ASSUME Inv, Inv', OneCall, CallInv, NEW h \in Handlers,
         \/ Submit(h) \/ SubmitCreates(h) \/ SubmitMoves(h) \/ Unsubmit(h)
         \/ Decide(h) \/ DecisionMoves(h)
         \/ NewVersion(h) \/ ReadStage(h) \/ Judge(h) \/ Unapprove(h) \/ WithdrawAuto(h)
         \/ Carry(h) \/ Reset(h) \/ Reopened(h) \/ Withdraw(h) \/ Theirs(h) \/ Arrive(h)
         \/ Send(h) \/ Gate(h) \/ SendCreates(h) \/ SendMoves(h)
         \/ Answer(h) \/ Complete(h) \/ CompleteMoves(h) \/ Stop(h) \/ StopMoves(h)
         \/ Revert(h) \/ RevertMoves(h)
         \/ Cancel(h) \/ CancelMoves(h) \/ CancelRequests(h)
         \/ Crash(h)
  PROVE  Onward(h)
<1>1. Between(h) /\ Knows(h)
  BY DEF CallInv
<1>2. ~Unsubmit(h)
  BY <1>1 DEF Knows, Unsubmit
<1>3. ~Crash(h)
  BY DEF Crash, OneCall, Inv, ContractOK
<1>4. CASE \/ Submit(h) \/ SubmitCreates(h) \/ SubmitMoves(h)
           \/ Decide(h) \/ DecisionMoves(h)
  BY <1>1, <1>4, SubmitOn, SubmitCreatesOn, SubmitMovesOn, DecideOn, DecisionMovesOn
<1>5. CASE \/ NewVersion(h) \/ ReadStage(h) \/ Judge(h) \/ Unapprove(h) \/ WithdrawAuto(h)
           \/ Carry(h) \/ Reset(h) \/ Reopened(h) \/ Withdraw(h) \/ Theirs(h) \/ Arrive(h)
  BY <1>1, <1>5, NewVersionOn, ReadStageOn, JudgeOn, UnapproveOn, WithdrawAutoOn, CarryOn, ResetOn, ReopenedOn, WithdrawOn,
     TheirsOn, ArriveOn
<1>6. CASE \/ Send(h) \/ Gate(h) \/ SendCreates(h) \/ SendMoves(h)
           \/ Answer(h) \/ Complete(h) \/ CompleteMoves(h) \/ Stop(h) \/ StopMoves(h)
  BY <1>1, <1>6, SendOn, GateOn, SendCreatesOn, SendMovesOn, AnswerOn, SettleOn, CompleteMovesOn,
     StopMovesOn
<1>7. CASE \/ Revert(h) \/ RevertMoves(h)
           \/ Cancel(h) \/ CancelMoves(h) \/ CancelRequests(h)
  BY <1>1, <1>7, RevertOn, RevertMovesOn, CancelOn, CancelMovesOn, CancelRequestsOn
<1>. QED
  BY <1>2, <1>3, <1>4, <1>5, <1>6, <1>7

LEMMA CallNext == ASSUME Inv, Inv', OneCall, CallInv, [Next]_vars PROVE CallInv'
<1>. PICK h \in Handlers : Handlers = {h}
  BY DEF OneCall
<1>1. Between(h) /\ Knows(h)
  BY DEF CallInv
<1>2. SUFFICES Onward(h)
  BY DEF CallInv, Onward
<1>3. CASE Next
  <2>1. ASSUME NEW g \in Handlers,
               \/ Submit(g) \/ SubmitCreates(g) \/ SubmitMoves(g) \/ Unsubmit(g)
               \/ Decide(g) \/ DecisionMoves(g)
               \/ NewVersion(g) \/ ReadStage(g) \/ Judge(g) \/ Unapprove(g) \/ WithdrawAuto(g)
               \/ Carry(g) \/ Reset(g) \/ Reopened(g) \/ Withdraw(g) \/ Theirs(g) \/ Arrive(g)
               \/ Send(g) \/ Gate(g) \/ SendCreates(g) \/ SendMoves(g)
               \/ Answer(g) \/ Complete(g) \/ CompleteMoves(g) \/ Stop(g) \/ StopMoves(g)
               \/ Revert(g) \/ RevertMoves(g)
               \/ Cancel(g) \/ CancelMoves(g) \/ CancelRequests(g)
               \/ Crash(g)
        PROVE  Onward(h)
    <3>1. Onward(g) /\ g = h
      BY <2>1, CallGoesOn
    <3>. QED
      BY <3>1
  <2>. QED
    BY <1>1, <1>3, <2>1, ExpireOn DEF Next
<1>4. CASE UNCHANGED vars
  <2>1. UNCHANGED <<Contract, version, Rows>> /\ pc' = pc /\ job' = job /\ requests' = requests
    BY <1>4 DEF vars, Contract, Rows, Out
  <2>2. Between(h)'
    BY <1>1, <2>1, ReadFrame DEF Between
  <2>3. Knows(h)'
    BY <1>1, <2>1, ReadFrame DEF Knows
  <2>. QED
    BY <2>2, <2>3 DEF Onward
<1>. QED
  BY <1>3, <1>4

(* When calls run one at a time, what a call suspends it restores before it  *)
(* ends, for any number of versions, requests and envelopes: the contract,   *)
(* its requests and its envelopes agree between calls.                       *)
THEOREM CallInvHolds == ASSUME OneCall PROVE Spec => []CallInv
<1>1. Init => CallInv
  BY CallInit
<1>2. Inv /\ Inv' /\ CallInv /\ [Next]_vars => CallInv'
  BY CallNext
<1>. QED
  BY <1>1, <1>2, InvHolds, PTL DEF Spec

LEMMA BetweenCalls ==
  ASSUME OneCall, CallInv, AtRest
  PROVE  /\ OpenIsAsked /\ OutIsInSign /\ PendingHasOpen /\ ApprovedIsThis /\ OutIsShown /\ SignedMoved
<1>. PICK h \in Handlers : Handlers = {h}
  BY DEF OneCall
<1>1. pc[h] = "idle" /\ Between(h)
  BY DEF AtRest, CallInv
<1>. QED
  BY <1>1 DEF Between

(* One call at a time, a contract that waits for approval has a request      *)
(* somebody can decide: no submission, decision, edit, reset or revert       *)
(* leaves it in Approve with nobody asked.                                   *)
THEOREM PendingIsAskedHolds == ASSUME OneCall PROVE Spec => []PendingIsAsked
<1>1. CallInv => PendingIsAsked
  BY BetweenCalls DEF PendingIsAsked, PendingHasOpen
<1>. QED
  BY <1>1, CallInvHolds, PTL

(* One call at a time and without rules that approve by themselves, an       *)
(* approved contract has an approval that stands, for the version it has     *)
(* now, however often it was edited, asked again, taken back from signature  *)
(* or sent back to work.  (With such rules it need not: flow_unapproved.)    *)
THEOREM ApprovedStandsHolds == ASSUME OneCall, ~AutoApproves PROVE Spec => []ApprovedStands
<1>1. CallInv => ApprovedStands
  BY BetweenCalls DEF ApprovedStands, ApprovedIsThis, ApprovalStands
<1>. QED
  BY <1>1, CallInvHolds, PTL

(* One call at a time, a cancelled contract has no open request and no open  *)
(* envelope: nobody is asked to decide or sign it any more.                  *)
THEOREM CancelledIsQuietHolds == ASSUME OneCall PROVE Spec => []CancelledIsQuiet
<1>1. CallInv => CancelledIsQuiet
  <2>1. Cancelled \notin {Pending, Declined} /\ Cancelled.stage \notin {"sign", "active"}
    BY DEF Cancelled, Pending, Declined, Point
  <2>. QED
    BY <2>1, BetweenCalls DEF CancelledIsQuiet, OpenIsAsked, OutIsInSign
<1>. QED
  BY <1>1, CallInvHolds, PTL

(* One call at a time, a contract shown as out for signature has an envelope *)
(* that is open or ran out: what settles the last one moves the contract.    *)
THEOREM OutHasAnEnvelopeHolds == ASSUME OneCall PROVE Spec => []OutHasAnEnvelope
<1>1. CallInv => OutHasAnEnvelope
  BY BetweenCalls DEF OutHasAnEnvelope, OutIsShown
<1>. QED
  BY <1>1, CallInvHolds, PTL

(* One call at a time, a contract everybody signed is in force, whatever was *)
(* done to it before or after.                                               *)
THEOREM SignedIsActiveHolds == ASSUME OneCall PROVE Spec => []SignedIsActive
<1>1. CallInv => SignedIsActive
  BY BetweenCalls DEF SignedIsActive, SignedMoved
<1>. QED
  BY <1>1, CallInvHolds, PTL
===============================================================================
