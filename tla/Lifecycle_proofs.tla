--------------------------- MODULE Lifecycle_proofs ---------------------------
(***************************************************************************)
(* What Lifecycle shows of two callers, for any number of them, any start  *)
(* points the code allows and any number of calls.                         *)
(***************************************************************************)
EXTENDS Lifecycle, TLAPS

-----------------------------------------------------------------------------
(* Points.                                                                   *)

LEMMA PointIsPoint ==
  ASSUME NEW s \in Stages, NEW x \in StageStates[s]
  PROVE  Point(s, x) \in Points
BY DEF Points

LEMMA NamedPoints ==
  /\ {Pending, Approved, Declined, Active, Cancelled, Expired, Archived} \subseteq Points
  /\ {Point("draft", "drafting"), Point("draft", "ready"), Point("draft", "returned"),
      Point("negotiate", "with_us"), Point("negotiate", "with_counterparty"),
      Point("negotiate", "returned"), Point("request", "in_triage")} \subseteq Points
  /\ {Point("sign", "out_for_signature"), Point("sign", "declined"), Point("sign", "voided"),
      Point("active", "expiring"), Point("active", "auto_renewed"), Point("active", "renewing"),
      Point("closed", "terminated")} \subseteq Points
<1>1. \A s \in Stages : \A x \in StageStates[s] : Point(s, x) \in Points
  BY PointIsPoint
<1>. QED
  BY <1>1 DEF Stages, StageStates, Pending, Approved, Declined, Active, Cancelled, Expired, Archived

LEMMA SomePoints ==
  /\ StatusPoints \subseteq Points
  /\ FirstPoints \subseteq Points
  /\ \A s : PointsOf(s) \subseteq Points
BY NamedPoints DEF StatusPoints, FirstPoints, PointsOf

-----------------------------------------------------------------------------
(* Calls.                                                                    *)

(* A restored contract does not resume a flow that was stopped.              *)
Rests(p) == p # Pending /\ p.stage \notin {"sign", "active"}

(* The calls somebody makes: a return or a decline is for a contract that    *)
(* waits for approval, a restored contract rests, and no undo cancels.       *)
SafeCalls ==
  {k \in CallSet :
     /\ k.source = "approval" /\ (k.to.state = "returned" \/ k.to = Declined) => k.only = {Pending}
     /\ k.source = "undo_cancel" => Rests(k.to)
     /\ k.source = "undo" => k.to # Cancelled}

LEMMA PlainIsCall ==
  ASSUME NEW to \in Targets, NEW source \in Sources, NEW only \in SUBSET Points
  PROVE  Plain(to, source, only) \in CallSet
BY DEF Plain, Call, CallSet

LEMMA AutoCallsAreCalls == AutoCalls \subseteq CallSet
<1>1. \A s : PointsOf(s) \in SUBSET Points
  BY SomePoints
<1>2. Points \subseteq Targets /\ Point("negotiate", "drafting") \in Targets
  BY DEF Targets
<1>3. /\ {"send", "counterparty", "import", "approval", "edit", "signature", "revert",
          "system", "cancel", "undo"} \subseteq Sources
  BY DEF Sources
<1>4. ASSUME NEW k \in AutoCalls
      PROVE  \E to \in Targets, source \in Sources, only \in SUBSET Points : k = Plain(to, source, only)
  BY <1>1, <1>2, <1>3, NamedPoints
     DEF AutoCalls, Worked, CounterpartyCalls, AcceptCalls, DecisionCalls, EditCalls,
         SignatureCalls, RevertCalls, RenewalCalls, CancelCalls, UnsubmitCalls
<1>. QED
  BY <1>4, PlainIsCall

LEMMA AutoCallsAreSafe == \A k \in AutoCalls : k \in SafeCalls /\ k.then = "none"
<1>. USE DEF CounterpartyCalls, AcceptCalls, DecisionCalls, EditCalls, SignatureCalls, RevertCalls,
           RenewalCalls, CancelCalls, UnsubmitCalls, Worked
<1>. SUFFICES ASSUME NEW k \in AutoCalls PROVE k \in SafeCalls /\ k.then = "none"
  OBVIOUS
<1>1. k \in CallSet
  BY AutoCallsAreCalls
<1>2. k.source = "approval" /\ (k.to.state = "returned" \/ k.to = Declined) => k.only = {Pending}
  BY DEF AutoCalls, Plain, Call, Point, Declined, Approved
<1>3. k.source # "undo_cancel"
  BY DEF AutoCalls, Plain, Call
<1>4. k.source = "undo" => k.to # Cancelled
  BY DEF AutoCalls, Plain, Call, PointsOf, Cancelled, Declined, Point
<1>5. k.then = "none"
  BY DEF AutoCalls, Plain, Call
<1>. QED
  BY <1>1, <1>2, <1>3, <1>4, <1>5 DEF SafeCalls

-----------------------------------------------------------------------------
(* The inductive invariant: what a caller holds while it is under way.       *)

(* While transition, or the offer to undo it, needs it, a caller has its call. *)
HasCall(c) == pc[c] \in {"asked", "write", "record", "offer"} => call[c] \in SafeCalls

(* Past transition's check it asks for a point, and another than it read. *)
HasChecked(c) ==
  /\ pc[c] \in {"write", "record"} => read[c] \in Points /\ call[c].to \in Points
  /\ pc[c] = "write" => read[c] \in call[c].only
  /\ pc[c] \in {"write", "record"} =>
       /\ read[c] # call[c].to
       /\ Permitted(read[c], call[c].to, call[c].source, call[c].reason,
                    call[c].source = "undo_cancel")

(* The assistant's move knows what it can be put back to. *)
HasOrigin(c) ==
  /\ pc[c] \in {"asked", "write", "record", "offer"} /\ call[c].then = "offer" =>
       asked[c] \in Points \ {Cancelled}
  /\ pc[c] = "offer" => call[c].then = "offer"

InFlight == \A c \in Callers : HasCall(c) /\ HasChecked(c) /\ HasOrigin(c)

(* What the latest event remembers was open when it was cancelled. *)
Remembered == cancelledAt \in PointsOf(Cancellable) \union {None}

Inv == TypeOK /\ InFlight /\ Remembered

USE DEF InFlight, HasCall, HasChecked, HasOrigin, Remembered, SafeCalls

LEMMA InvInit == Init => Inv
<1>. SUFFICES ASSUME Init PROVE Inv
  OBVIOUS
<1>1. row \in Points /\ by \in Sources
  BY StartPointsAssumption, SomePoints DEF Init, Sources
<1>2. executedAt \in BOOLEAN
  BY DEF Init
<1>3. TypeOK
  BY <1>1, <1>2, MaxCallsAssumption DEF Init, TypeOK, PCs
<1>4. InFlight
  BY DEF Init
<1>5. Remembered
  BY DEF Init
<1>. QED
  BY <1>3, <1>4, <1>5 DEF Inv

LEMMA RestInv ==
  ASSUME Inv, NEW c \in Callers, Rest(c), UNCHANGED Contract, calls' \in 0..MaxCalls
  PROVE  Inv'
BY DEF Inv, TypeOK, Rest, Goto, Contract, PCs

LEMMA FinishInv ==
  ASSUME Inv, NEW c \in Callers, pc[c] = "record", Finish(c, call[c]),
         row' = row, by' = by, executedAt' = executedAt,
         cancelledAt' \in PointsOf(Cancellable) \union {None}, calls' = calls
  PROVE  Inv'
<1>1. CASE call[c].then = "none"
  BY <1>1, SomePoints DEF Inv, TypeOK, Finish, Rest, Goto, PCs
<1>2. CASE call[c].then = "clear"
  BY <1>2, SomePoints DEF Inv, TypeOK, Finish, Goto, PCs
<1>3. CASE call[c].then = "offer"
  BY <1>3, SomePoints DEF Inv, TypeOK, Finish, Goto, PCs
<1>4. call[c].then \in {"none", "offer", "clear"}
  BY DEF Inv, CallSet
<1>. QED
  BY <1>1, <1>2, <1>3, <1>4

LEMMA ReadsInv ==
  ASSUME Inv, NEW c \in Callers, NEW k \in SafeCalls, Reads(c, k), calls' \in 0..MaxCalls,
         k.then = "offer" => asked[c] \in Points \ {Cancelled}
  PROVE  Inv'
<1>. DEFINE allowed == ~Skips(k) /\ Permitted(row, k.to, k.source, k.reason, k.source = "undo_cancel")
<1>1. UNCHANGED Contract
  BY DEF Reads
<1>2. CASE ~allowed /\ Rest(c)
  BY <1>1, <1>2, RestInv
<1>3. CASE /\ allowed /\ row # k.to
           /\ Goto(c, "write")
           /\ call' = [call EXCEPT ![c] = k]
           /\ read' = [read EXCEPT ![c] = row]
           /\ UNCHANGED asked
  <2>1. k.to \in Points
    BY <1>3 DEF Permitted, Belongs
  <2>2. TypeOK'
    BY <1>1, <1>3 DEF Inv, TypeOK, Goto, Contract, PCs
  <2>3. InFlight'
    BY <1>1, <1>3, <2>1 DEF Inv, TypeOK, Goto, Contract, PCs, Skips
  <2>. QED
    BY <1>1, <2>2, <2>3 DEF Inv, Contract
<1>4. CASE /\ allowed /\ row = k.to /\ k.then = "offer"
           /\ Goto(c, "offer") /\ call' = [call EXCEPT ![c] = k]
           /\ read' = [read EXCEPT ![c] = row] /\ UNCHANGED asked
  BY <1>1, <1>4 DEF Inv, TypeOK, Goto, Contract, PCs
<1>5. CASE allowed /\ row = k.to /\ k.then # "offer" /\ Finish(c, k)
  <2>1. CASE k.then = "none" /\ Rest(c)
    BY <1>1, <2>1, RestInv
  <2>2. CASE k.then = "clear" /\ Goto(c, "clear") /\ UNCHANGED <<call, asked, read>>
    BY <1>1, <2>2 DEF Inv, TypeOK, Goto, Contract, PCs
  <2>. QED
    BY <1>5, <2>1, <2>2 DEF Finish
<1>. QED
  BY <1>2, <1>3, <1>4, <1>5 DEF Reads

LEMMA AsksInv ==
  ASSUME Inv, NEW c \in Callers, NEW k \in SafeCalls, Asks(c, k), calls' \in 0..MaxCalls,
         k.then = "offer" => row # Cancelled
  PROVE  Inv'
BY DEF Inv, TypeOK, Asks, Goto, Contract, PCs

LEMMA PointsAreTargets == Points \subseteq Targets
BY DEF Targets

LEMMA RestoredRests ==
  ASSUME Remembered
  PROVE  RestoredPoint \in Points /\ Rests(RestoredPoint)
<1>1. Rests(Point("draft", "drafting")) /\ Rests(Approved)
  BY DEF Rests, Pending, Approved, Point
<1>2. ASSUME cancelledAt \in PointsOf(Cancellable), cancelledAt \notin PointsOf({"sign"}),
             cancelledAt # Pending
      PROVE  Rests(cancelledAt)
  BY <1>2 DEF Rests, PointsOf, Cancellable
<1>. QED
  BY <1>1, <1>2, NamedPoints, SomePoints DEF RestoredPoint

(* By hand a cancelled contract is not brought back: an admin does that.     *)
LEMMA HandsOff ==
  ASSUME NEW to \in Points \ {Cancelled}, NEW reason, NEW hand \in {"manual", "agent"},
         ManualPermitted(Cancelled, to, hand, reason)
  PROVE  FALSE
<1>1. ManualSource(Cancelled, to, hand) = "undo_cancel"
  BY DEF ManualSource
<1>2. Cancelled # Expired /\ Cancelled.stage = "closed"
  BY DEF Cancelled, Expired, Point
<1>3. ~Permitted(Cancelled, to, "undo_cancel", reason, FALSE)
  BY <1>2 DEF Permitted
<1>. QED
  BY <1>1, <1>3 DEF ManualPermitted

(* One step of any caller keeps it. *)
LEMMA InvStep ==
  ASSUME Inv, [Next]_vars
  PROVE  Inv'
<1>. USE PointsAreTargets
<1>1. CASE UNCHANGED vars
  BY <1>1 DEF vars, Inv, TypeOK
<1>2. ASSUME NEW c \in Callers, Flow(c) PROVE Inv'
  <2>1. PICK k \in AutoCalls : Reads(c, k)
    BY <1>2 DEF Flow
  <2>2. k \in SafeCalls /\ k.then = "none"
    BY AutoCallsAreSafe
  <2>3. calls' \in 0..MaxCalls
    BY <1>2, MaxCallsAssumption DEF Flow, Begin, Inv, TypeOK
  <2>. QED
    BY <2>1, <2>2, <2>3, ReadsInv
<1>3. ASSUME NEW c \in Callers, Hand(c) PROVE Inv'
  <2>1. PICK to \in Points \ {Cancelled}, reason \in BOOLEAN :
          /\ ManualPermitted(row, to, "manual", reason)
          /\ Asks(c, Call(to, ManualSource(row, to, "manual"), reason, Points, "none"))
    BY <1>3 DEF Hand
  <2>2. Call(to, ManualSource(row, to, "manual"), reason, Points, "none") \in CallSet
    BY DEF Call, CallSet, ManualSource, Sources
  <2>4. ManualSource(row, to, "manual") = "manual"
    BY <2>1, HandsOff DEF ManualSource
  <2>5. Call(to, ManualSource(row, to, "manual"), reason, Points, "none") \in SafeCalls
    BY <2>2, <2>4 DEF Call
  <2>6. Call(to, ManualSource(row, to, "manual"), reason, Points, "none").then = "none"
    BY DEF Call
  <2>3. calls' \in 0..MaxCalls
    BY <1>3, MaxCallsAssumption DEF Hand, Begin, Inv, TypeOK
  <2>. QED
    BY <2>1, <2>3, <2>5, <2>6, AsksInv
<1>4. ASSUME NEW c \in Callers, Agent(c) PROVE Inv'
  <2>1. PICK to \in StatusPoints :
          /\ ManualPermitted(row, to, "agent", FALSE)
          /\ Asks(c, Call(to, ManualSource(row, to, "agent"), FALSE, Points, "offer"))
    BY <1>4 DEF Agent
  <2>2. Call(to, ManualSource(row, to, "agent"), FALSE, Points, "offer") \in CallSet
    BY SomePoints DEF Call, CallSet, ManualSource, Sources
  <2>4. to # Cancelled
    BY DEF StatusPoints, Cancelled, Pending, Approved, Active, Expired, Archived, Point
  <2>5. row # Cancelled
    BY <2>1, <2>4, HandsOff, SomePoints
  <2>6. ManualSource(row, to, "agent") = "agent"
    BY <2>4, <2>5 DEF ManualSource
  <2>7. Call(to, ManualSource(row, to, "agent"), FALSE, Points, "offer") \in SafeCalls
    BY <2>2, <2>6 DEF Call
  <2>3. calls' \in 0..MaxCalls
    BY <1>4, MaxCallsAssumption DEF Agent, Begin, Inv, TypeOK
  <2>. QED
    BY <2>1, <2>3, <2>5, <2>7, AsksInv
<1>5. ASSUME NEW c \in Callers, Undo(c) PROVE Inv'
  <2>1. PICK then \in {"clear", "none"} : Asks(c, Call(asked[c], "undo", TRUE, Points, then))
    BY <1>5 DEF Undo
  <2>2. Call(asked[c], "undo", TRUE, Points, then) \in SafeCalls
    BY <1>5 DEF Undo, Inv, Call, CallSet, Sources
  <2>3. calls' \in 0..MaxCalls
    BY <1>5, MaxCallsAssumption DEF Undo, Inv, TypeOK
  <2>. QED
    BY <2>1, <2>2, <2>3, AsksInv DEF Call
<1>6. ASSUME NEW c \in Callers, Leave(c) PROVE Inv'
  BY <1>6, RestInv DEF Leave, Inv, TypeOK
<1>7. ASSUME NEW c \in Callers, Dates(c) PROVE Inv'
  <2>1. PICK to \in Points : Asks(c, Call(to, "dates", TRUE, Points, "none"))
    BY <1>7 DEF Dates
  <2>2. Call(to, "dates", TRUE, Points, "none") \in SafeCalls
    BY DEF Call, CallSet, Sources
  <2>3. calls' \in 0..MaxCalls
    BY <1>7, MaxCallsAssumption DEF Dates, Begin, Inv, TypeOK
  <2>. QED
    BY <2>1, <2>2, <2>3, AsksInv DEF Call
<1>8. ASSUME NEW c \in Callers, Submit(c) PROVE Inv'
  <2>1. PICK to \in {Pending, Approved} : Asks(c, Call(to, "approval", FALSE, Points, "none"))
    BY <1>8 DEF Submit
  <2>2. Call(to, "approval", FALSE, Points, "none") \in SafeCalls
    BY NamedPoints DEF Call, CallSet, Sources, Pending, Approved, Declined, Point
  <2>3. calls' \in 0..MaxCalls
    BY <1>8, MaxCallsAssumption DEF Submit, Begin, Inv, TypeOK
  <2>. QED
    BY <2>1, <2>2, <2>3, AsksInv DEF Call
<1>9. ASSUME NEW c \in Callers, Send(c) PROVE Inv'
  <2>1. Call(Point("sign", "out_for_signature"), "signature", FALSE, Points, "none") \in SafeCalls
    BY NamedPoints DEF Call, CallSet, Sources
  <2>2. calls' \in 0..MaxCalls
    BY <1>9, MaxCallsAssumption DEF Send, Begin, Inv, TypeOK
  <2>. QED
    BY <1>9, <2>1, <2>2, AsksInv DEF Send, Call
<1>10. ASSUME NEW c \in Callers, Uncancel(c) PROVE Inv'
  BY <1>10, MaxCallsAssumption DEF Uncancel, Begin, Inv, TypeOK, Goto, Contract, PCs
<1>11. ASSUME NEW c \in Callers, Restore(c) PROVE Inv'
  <2>1. Call(RestoredPoint, "undo_cancel", TRUE, Points, "none") \in SafeCalls
    BY RestoredRests, PointsAreTargets DEF Inv, Call, CallSet, Sources
  <2>2. Call(RestoredPoint, "undo_cancel", TRUE, Points, "none").then = "none"
    BY DEF Call
  <2>. QED
    BY <1>11, <2>1, <2>2 DEF Restore, Inv, TypeOK, Goto, Contract, PCs
<1>12. ASSUME NEW c \in Callers, Read(c) PROVE Inv'
  BY <1>12, ReadsInv DEF Read, Inv, TypeOK
<1>13. ASSUME NEW c \in Callers, Write(c) PROVE Inv'
  <2>1. CASE Unmoved(c)
    <3>1. row' \in Points /\ by' \in Sources /\ executedAt' \in BOOLEAN
      BY <1>13, <2>1 DEF Write, Inv, CallSet
    <3>2. pc' = [pc EXCEPT ![c] = "record"] /\ UNCHANGED <<call, asked, read, cancelledAt, calls>>
      BY <1>13, <2>1 DEF Write, Goto
    <3>3. TypeOK'
      BY <3>1, <3>2 DEF Inv, TypeOK, PCs
    <3>4. InFlight'
      BY <1>13, <3>2 DEF Write, Inv, TypeOK
    <3>. QED
      BY <3>2, <3>3, <3>4 DEF Inv
  <2>2. CASE ~Unmoved(c)
    BY <1>13, <2>2, RestInv DEF Write, Contract, Inv, TypeOK
  <2>. QED
    BY <2>1, <2>2
<1>14. ASSUME NEW c \in Callers, Record(c) PROVE Inv'
  <2>1. cancelledAt' \in PointsOf(Cancellable) \union {None}
    <3>1. CASE call[c].to = Cancelled
      BY <1>14, <3>1 DEF Record, Inv, Permitted, Cancelled, Point, PointsOf
    <3>. QED
      BY <1>14, <3>1 DEF Record
  <2>. QED
    BY <1>14, <2>1, FinishInv DEF Record
<1>15. ASSUME NEW c \in Callers, Clear(c) PROVE Inv'
  <2>1. executedAt' \in BOOLEAN
    BY <1>15 DEF Clear
  <2>. QED
    BY <1>15, <2>1 DEF Clear, Rest, Goto, Inv, TypeOK, PCs
<1>. QED
  BY <1>1, <1>2, <1>3, <1>4, <1>5, <1>6, <1>7, <1>8, <1>9, <1>10, <1>11, <1>12, <1>13, <1>14,
     <1>15 DEF Next

(* Every behaviour keeps the types, and no write asks for a point that the   *)
(* check did not allow from the point the caller read.                       *)
THEOREM AlwaysInv == Spec => []Inv
BY InvInit, InvStep, PTL DEF Spec

(* The types of the state: in particular the contract is always at one of    *)
(* its stage's own states, though approval-reset.ts may ask for a point that *)
(* does not exist.                                                           *)
THEOREM TypeCorrect == Spec => []TypeOK
<1>1. Inv => TypeOK
  BY DEF Inv
<1>. QED
  BY <1>1, AlwaysInv, PTL

-----------------------------------------------------------------------------
(* The refinement.                                                           *)

(* ContractStages has the same rules. *)
LEMMA SamePoints ==
  /\ Promise!Points = Points
  /\ Promise!FirstPoints = FirstPoints
  /\ Promise!Sources = Sources
BY DEF Points, Stages, StageStates, Point, FirstPoints, StatusPoints, Sources,
       Pending, Approved, Active, Expired, Archived,
       Promise!Points, Promise!Stages, Promise!StageStates, Promise!Point, Promise!FirstPoints,
       Promise!StatusPoints, Promise!Sources, Promise!Pending, Promise!Approved,
       Promise!Active, Promise!Expired, Promise!Archived

LEMMA SameRules ==
  ASSUME NEW from, NEW to, NEW source, NEW reason, NEW isAdmin,
         Permitted(from, to, source, reason, isAdmin)
  PROVE  Promise!Permitted(from, to, source, reason, isAdmin)
BY SamePoints
   DEF Permitted, Belongs, MayReopen, Barred, TableAllows, Via, Back, Cancellable,
       Cancelled, Expired, Archived, Declined, Point,
       Promise!Permitted, Promise!Belongs, Promise!MayReopen, Promise!Barred,
       Promise!TableAllows, Promise!Via, Promise!Back, Promise!Cancellable,
       Promise!Cancelled, Promise!Expired, Promise!Archived, Promise!Declined, Promise!Point

LEMMA PromiseInit == Init => Promise!Init
BY StartPointsAssumption, SamePoints DEF Init, Promise!Init

(* The only step that moves the contract is a write, and the contract is     *)
(* then where the caller read it.                                            *)
LEMMA OnlyWritesMove ==
  ASSUME Inv, [Next]_vars, UNCHANGED <<row, by>> => FALSE
  PROVE  \E k \in SafeCalls :
           /\ row' = k.to /\ by' = k.source /\ row \in k.only /\ row' # row /\ row' \in Points
           /\ Permitted(row, row', by', k.reason, k.source = "undo_cancel")
<1>1. CASE \E c \in Callers : Write(c) /\ Unmoved(c)
  <2>1. PICK c \in Callers : Write(c) /\ Unmoved(c)
    BY <1>1
  <2>2. /\ row' = call[c].to /\ by' = call[c].source /\ row = read[c]
        /\ pc[c] = "write" /\ call[c] \in SafeCalls
    BY <2>1 DEF Write, Unmoved, Inv
  <2>. QED
    BY <2>2 DEF Inv
<1>2. CASE ~\E c \in Callers : Write(c) /\ Unmoved(c)
  BY <1>2 DEF Next, vars, Flow, Hand, Agent, Undo, Leave, Dates, Submit, Send, Uncancel, Restore,
              Read, Write, Record, Clear, Asks, Reads, Contract
<1>. QED
  BY <1>1, <1>2

LEMMA PromiseStep ==
  ASSUME Inv, [Next]_vars
  PROVE  [Promise!Next]_(Promise!vars)
<1>1. CASE UNCHANGED <<row, by>>
  BY <1>1 DEF Promise!vars
<1>2. CASE ~UNCHANGED <<row, by>>
  <2>1. PICK k \in SafeCalls :
          /\ by' = k.source /\ row' # row /\ row' \in Points
          /\ Permitted(row, row', by', k.reason, k.source = "undo_cancel")
    BY <1>2, OnlyWritesMove
  <2>2. k.reason \in BOOLEAN /\ (k.source = "undo_cancel") \in BOOLEAN /\ k.source \in Sources
    BY DEF CallSet
  <2>. QED
    BY <2>1, <2>2, SamePoints, SameRules DEF Promise!Next, Promise!Move
<1>. QED
  BY <1>1, <1>2

(* Lifecycle implements ContractStages: with any number of requests and jobs *)
(* at once, the stage moves only by moves that are allowed from the point    *)
(* the contract is at when the write lands.                                  *)
THEOREM Implements == Spec => StagesImplemented
BY AlwaysInv, PromiseInit, PromiseStep, PTL DEF Spec, StagesImplemented, Promise!Spec

-----------------------------------------------------------------------------
(* The action properties, each from the one write that moves the contract.   *)

LEMMA SignedStep ==
  ASSUME Inv, [Next]_vars, row.stage = "active"
  PROVE  row'.stage \in {"active", "closed"} \/ by' = "undo"
<1>1. CASE UNCHANGED <<row, by>>
  BY <1>1
<1>2. CASE ~UNCHANGED <<row, by>>
  <2>1. PICK k \in SafeCalls : Permitted(row, row', by', k.reason, k.source = "undo_cancel")
    BY <1>2, OnlyWritesMove
  <2>2. Cancelled.stage = "closed"
    BY DEF Cancelled, Point
  <2>3. TableAllows(row, row', by', k.reason) => row'.stage = "closed"
    BY DEF TableAllows, Via
  <2>. QED
    BY <2>1, <2>2, <2>3 DEF Permitted
<1>. QED
  BY <1>1, <1>2

(* A signed contract is never reopened, however many callers there are.      *)
THEOREM Signed == Spec => SignedStays
<1>1. Inv /\ [Next]_vars =>
        [row.stage = "active" => row'.stage \in {"active", "closed"} \/ by' = "undo"]_(Promise!vars)
  BY SignedStep
<1>. QED
  BY <1>1, AlwaysInv, PTL DEF Spec, SignedStays, Promise!SignedStays

LEMMA DeclinedStep ==
  ASSUME Inv, [Next]_vars, row = Declined
  PROVE  row'.stage \notin {"sign", "active"} \/ by' = "undo"
<1>1. Declined.stage = "approve" /\ Declined # Cancelled /\ Cancelled.stage = "closed"
  BY DEF Declined, Cancelled, Point
<1>2. CASE UNCHANGED <<row, by>>
  BY <1>1, <1>2
<1>3. CASE ~UNCHANGED <<row, by>>
  <2>1. PICK k \in SafeCalls : Permitted(row, row', by', k.reason, k.source = "undo_cancel")
    BY <1>3, OnlyWritesMove
  <2>. QED
    BY <1>1, <2>1 DEF Permitted, Barred
<1>. QED
  BY <1>2, <1>3

(* A declined contract goes neither to signature nor into force, whoever     *)
(* asked for that before it was declined.                                    *)
THEOREM DeclinedBarred == Spec => DeclinedIsBarred
<1>1. Promise!Declined = Declined
  BY DEF Declined, Promise!Declined, Point, Promise!Point
<1>2. Inv /\ [Next]_vars =>
        [row = Promise!Declined => row'.stage \notin {"sign", "active"} \/ by' = "undo"]_(Promise!vars)
  BY <1>1, DeclinedStep
<1>. QED
  BY <1>2, AlwaysInv, PTL DEF Spec, DeclinedIsBarred, Promise!DeclinedIsBarred

LEMMA ClosedStep ==
  ASSUME Inv, [Next]_vars, row.stage = "closed", row'.stage # "closed"
  PROVE  \/ row = Cancelled /\ by' = "undo_cancel"
         \/ row = Expired /\ by' \in {"dates", "undo_cancel"}
         \/ by' = "undo"
<1>1. PICK k \in SafeCalls : Permitted(row, row', by', k.reason, k.source = "undo_cancel")
  BY OnlyWritesMove
<1>2. Cancelled.stage = "closed" /\ Expired # Cancelled
  BY DEF Cancelled, Expired, Point
<1>3. TableAllows(row, row', by', k.reason) => by' \in {"dates", "undo_cancel"}
  BY DEF TableAllows, Via
<1>. QED
  BY <1>1, <1>2, <1>3 DEF Permitted, MayReopen

(* Of the closed contracts only a cancelled or an expired one comes back,    *)
(* each by its own move.                                                     *)
THEOREM Closed == Spec => ClosedStays
<1>1. Promise!Cancelled = Cancelled /\ Promise!Expired = Expired
  BY DEF Cancelled, Promise!Cancelled, Expired, Promise!Expired, Point, Promise!Point
<1>2. Inv /\ [Next]_vars =>
        [row.stage = "closed" /\ row'.stage # "closed" =>
           \/ row = Promise!Cancelled /\ by' = "undo_cancel"
           \/ row = Promise!Expired /\ by' \in {"dates", "undo_cancel"}
           \/ by' = "undo"]_(Promise!vars)
  BY <1>1, ClosedStep
<1>. QED
  BY <1>2, AlwaysInv, PTL DEF Spec, ClosedStays, Promise!ClosedStays

LEMMA LateStep ==
  ASSUME Inv, [Next]_vars, row' # row, by' = "approval", row'.state = "returned" \/ row' = Declined
  PROVE  row = Pending
<1>1. PICK k \in SafeCalls : row' = k.to /\ by' = k.source /\ row \in k.only
  BY OnlyWritesMove
<1>. QED
  BY <1>1

(* A return or a decline never pulls back a contract that was moved          *)
(* meanwhile.                                                                *)
THEOREM Late == Spec => LateDecision
<1>1. Inv /\ [Next]_vars =>
        [row' # row /\ by' = "approval" /\ (row'.state = "returned" \/ row' = Declined) =>
           row = Pending]_vars
  BY LateStep
<1>. QED
  BY <1>1, AlwaysInv, PTL DEF Spec, LateDecision

LEMMA RestoredStep ==
  ASSUME Inv, [Next]_vars, row' # row, by' = "undo_cancel"
  PROVE  Rests(row')
<1>1. PICK k \in SafeCalls : row' = k.to /\ by' = k.source
  BY OnlyWritesMove
<1>. QED
  BY <1>1

(* A restored contract does not resume a flow that was stopped, whatever the *)
(* order the stage events were recorded in.                                  *)
THEOREM Restored == Spec => RestoredAtRest
<1>1. Inv /\ [Next]_vars =>
        [row = Cancelled /\ row' # row /\ by' = "undo_cancel" =>
           row' # Pending /\ row'.stage \notin {"sign", "active"}]_vars
  BY RestoredStep DEF Rests
<1>. QED
  BY <1>1, AlwaysInv, PTL DEF Spec, RestoredAtRest
=============================================================================
