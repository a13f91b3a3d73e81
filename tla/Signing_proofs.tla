---------------------------- MODULE Signing_proofs ----------------------------
(***************************************************************************)
(* What Signing shows of three signers, for any signers in any groups, any *)
(* number of handlers, versions, attempts, faults, reminders and crashes.  *)
(***************************************************************************)
EXTENDS Signing, TLAPS

-----------------------------------------------------------------------------
(* What holds besides the types.                                             *)

(* A handler about to write an answer is a signer's whose turn it is: those  *)
(* of earlier groups stay SIGNED.                                            *)
InTurn ==
  \A h \in Handlers :
    /\ pc[h] \in {"sign", "decline", "reread"} => job[h].who \in Signers
    /\ pc[h] \in {"sign", "decline"} => ~WaitingForEarlier(job[h].who)
    /\ pc[h] = "complete" => AllSigned

(* The events name one outcome, and none while the request is open.          *)
OneOutcome ==
  /\ log \in {{}, {"COMPLETED"}, {"DECLINED"}, {"VOIDED"}}
  /\ request = "PENDING" => log = {}

(* One handler at most executes, of a completed request, and once.           *)
OneExecution ==
  /\ \A h \in Handlers :
       /\ pc[h] = "execute" => /\ log = {"COMPLETED"} /\ executions = 0
                               /\ \A g \in Handlers : pc[g] = "execute" => g = h
       /\ pc[h] = "queue" => executions = 1
  /\ executions = 1 => log = {"COMPLETED"}
  /\ seal # "none" => executions = 1

(* The seal job keeps its count, and knows what it made.                     *)
SealKept ==
  /\ seal = "none" => sealed = 0
  /\ seal \in {"point", "repoint", "forward", "done"} => sealed = Sent + 1
  /\ seal \in {"render", "stamp", "create"} => sealed = 0
  /\ seal \in Running \union {"none", "waiting"} => attempts < MaxAttempts
  /\ SealedIsShown

Inv == TypeOK /\ InTurn /\ OneOutcome /\ OneExecution /\ SealKept

LEMMA InitInv == ASSUME Init PROVE Inv
<1>. USE SignersAssumption, BoundsAssumption DEF Init, Sent, NoJob
<1>1. Turn \subseteq Signers
  BY DEF Turn, Unanswered
<1>2. TypeOK
  <2>1. newest \in Nat /\ current \in Sent..newest /\ sealed \in {0, Sent + 1} /\ sealed <= newest
    OBVIOUS
  <2>2. /\ pc \in [Handlers -> PCs]
        /\ job \in [Handlers -> [who : Signers \union {None}, next : SUBSET Signers]]
    BY DEF PCs
  <2>3. attempts \in 0..MaxAttempts /\ faults \in Nat /\ reminders \in Nat /\ crashes \in Nat
    OBVIOUS
  <2>4. log \in SUBSET {"COMPLETED", "DECLINED", "VOIDED"} /\ asked \in SUBSET Signers
    BY <1>1
  <2>. QED
    BY <2>1, <2>2, <2>3, <2>4 DEF TypeOK, SealPCs
<1>3. InTurn /\ OneOutcome /\ OneExecution
  BY DEF InTurn, OneOutcome, OneExecution
<1>4. SealKept
  BY DEF SealKept, SealedIsShown, Running, SealPCs
<1>. QED
  BY <1>2, <1>3, <1>4 DEF Inv
-----------------------------------------------------------------------------
(* Types.                                                                    *)

LEMMA TypeStep == ASSUME Inv, [Next]_vars PROVE TypeOK'
<1>. USE SignersAssumption, BoundsAssumption DEF Envelope_, Sealing, Counts, Goto, Keep, Rest, NoJob
<1>. TypeOK
  BY DEF Inv
<1>1. ASSUME NEW h \in Handlers, Begin(h) PROVE TypeOK'
  BY <1>1 DEF Begin, TypeOK, PCs
<1>2. ASSUME NEW h \in Handlers, Sign(h) PROVE TypeOK'
  BY <1>2 DEF Sign, TypeOK, PCs
<1>3. ASSUME NEW h \in Handlers, Reread(h) PROVE TypeOK'
  <2>1. NextToNotify(job[h].who) \subseteq Signers
    BY DEF NextToNotify, Turn, Unanswered
  <2>. QED
    BY <1>3, <2>1 DEF Reread, TypeOK, PCs
<1>4. ASSUME NEW h \in Handlers, Notify(h) \/ Remind(h) PROVE TypeOK'
  <2>1. job[h].next \subseteq Signers
    BY DEF TypeOK
  <2>2. asked' \subseteq Signers
    BY <1>4, <2>1 DEF Notify, Remind, TypeOK
  <2>3. pc' \in [Handlers -> PCs] /\ job' = [job EXCEPT ![h] = [who |-> None, next |-> {}]]
    BY <1>4 DEF Notify, Remind, TypeOK, PCs
  <2>4. CASE Notify(h)
    BY <2>2, <2>3, <2>4 DEF Notify, TypeOK
  <2>5. CASE Remind(h)
    BY <2>2, <2>3, <2>5 DEF Remind, TypeOK
  <2>. QED
    BY <1>4, <2>4, <2>5
<1>5. ASSUME NEW h \in Handlers, Complete(h) PROVE TypeOK'
  <2>1. CASE request = "PENDING"
    BY <1>5, <2>1 DEF Complete, TypeOK, PCs
  <2>2. CASE request # "PENDING"
    <3>1. Rest(h) /\ UNCHANGED <<request, log, Envelope_, Sealing, Counts>>
      BY <1>5, <2>2 DEF Complete
    <3>. QED
      BY <3>1 DEF TypeOK, PCs
  <2>. QED
    BY <2>1, <2>2
<1>6. ASSUME NEW h \in Handlers, Execute(h) PROVE TypeOK'
  <2>1. executions' = 1
    BY <1>6 DEF Execute, Inv, OneExecution
  <2>. QED
    BY <1>6, <2>1 DEF Execute, TypeOK, PCs
<1>7. ASSUME NEW h \in Handlers, Queue(h) PROVE TypeOK'
  BY <1>7 DEF Queue, Fault, TypeOK, PCs, SealPCs
<1>8. ASSUME NEW h \in Handlers, Decline(h) PROVE TypeOK'
  BY <1>8 DEF Decline, TypeOK, PCs
<1>9. ASSUME NEW h \in Handlers, BeginVoid(h) \/ Void(h) PROVE TypeOK'
  <2>1. CASE BeginVoid(h)
    BY <2>1 DEF BeginVoid, TypeOK, PCs
  <2>2. CASE Void(h) /\ request = "PENDING"
    BY <2>2 DEF Void, TypeOK, PCs
  <2>3. CASE Void(h) /\ request # "PENDING"
    BY <2>3 DEF Void, TypeOK, PCs
  <2>. QED
    BY <1>9, <2>1, <2>2, <2>3
<1>10. ASSUME NEW h \in Handlers, BeginRemind(h) PROVE TypeOK'
  <2>1. Turn \subseteq Signers
    BY DEF Turn, Unanswered
  <2>. QED
    BY <1>10, <2>1, SMTT(30) DEF BeginRemind, TypeOK, PCs
<1>11. ASSUME NEW h \in Handlers, RemindExpires(h) \/ Crash(h) PROVE TypeOK'
  <2>1. CASE RemindExpires(h)
    BY <2>1 DEF RemindExpires, TypeOK, PCs
  <2>2. CASE Crash(h)
    BY <2>2 DEF Crash, TypeOK, PCs
  <2>. QED
    BY <1>11, <2>1, <2>2
<1>12. ASSUME ComesDue \/ Expire \/ Edit PROVE TypeOK'
  <2>1. CASE ComesDue
    BY <2>1 DEF ComesDue, TypeOK
  <2>2. CASE Expire
    BY <2>2 DEF Expire, TypeOK
  <2>3. CASE Edit
    BY <2>3 DEF Edit, TypeOK, Sent
  <2>. QED
    BY <1>12, <2>1, <2>2, <2>3
<1>13. ASSUME SealWork PROVE TypeOK'
  <2>. USE DEF SealGoto, SealOnly, TypeOK, SealPCs, Sent
  <2>1. seal \in Running => attempts + 1 \in 0..MaxAttempts
    BY DEF Inv, SealKept
  <2>2. CASE SealStart \/ SealLook
    BY <2>2 DEF SealStart, SealLook, AfterSealed
  <2>3. CASE SealRender
    BY <2>1, <2>3 DEF SealRender, Throws, Fault, Running
  <2>4. CASE SealStamp
    BY <2>1, <2>4 DEF SealStamp, Throws, Fault, Running
  <2>5. CASE SealCreate
    BY <2>1, <2>5 DEF SealCreate, Throws, Running
  <2>6. CASE SealPoint
    BY <2>1, <2>6 DEF SealPoint, Throws, Fault, Running, Inv, SealKept
  <2>7. CASE SealRepoint
    BY <2>7 DEF SealRepoint
  <2>8. CASE SealForward
    BY <2>8 DEF SealForward, Inv, SealKept
  <2>. QED
    BY <1>13, <2>2, <2>3, <2>4, <2>5, <2>6, <2>7, <2>8 DEF SealWork
<1>14. ASSUME SealCrash PROVE TypeOK'
  BY <1>14 DEF SealCrash, TypeOK, SealPCs
<1>15. ASSUME UNCHANGED vars PROVE TypeOK'
  BY <1>15 DEF vars, TypeOK
<1>. QED
  BY <1>1, <1>2, <1>3, <1>4, <1>5, <1>6, <1>7, <1>8, <1>9, <1>10, <1>11, <1>12, <1>13, <1>14, <1>15
     DEF Next, Step
-----------------------------------------------------------------------------
(* What a step leaves alone.                                                 *)

(* A handler's step touches its own place and burden only. *)
LEMMA OthersRest ==
  ASSUME TypeOK, NEW h \in Handlers, Step(h)
  PROVE  \A g \in Handlers \ {h} : pc'[g] = pc[g] /\ job'[g] = job[g]
<1>. USE DEF TypeOK, Goto, Keep, Rest, Envelope_, Sealing, Counts
<1>1. CASE Begin(h) \/ Sign(h) \/ Reread(h) \/ Notify(h)
  BY <1>1 DEF Begin, Sign, Reread, Notify
<1>2. CASE Complete(h) \/ Execute(h) \/ Queue(h) \/ Decline(h)
  BY <1>2 DEF Complete, Execute, Queue, Decline
<1>3. CASE BeginVoid(h) \/ Void(h) \/ BeginRemind(h) \/ RemindExpires(h) \/ Remind(h) \/ Crash(h)
  BY <1>3 DEF BeginVoid, Void, BeginRemind, RemindExpires, Remind, Crash
<1>. QED
  BY <1>1, <1>2, <1>3 DEF Step

(* The world's steps and the seal job's touch no handler. *)
World == ComesDue \/ Expire \/ Edit \/ SealWork \/ SealCrash \/ UNCHANGED vars

LEMMA HandlersRest == ASSUME World PROVE UNCHANGED <<pc, job, answer, sequential, log, executions>>
<1>. USE DEF Envelope_, Sealing, Counts, SealOnly
<1>1. CASE SealWork
  BY <1>1 DEF SealWork, SealStart, SealLook, SealRender, SealStamp, SealCreate, SealPoint, SealRepoint, SealForward
<1>2. CASE ~SealWork
  BY <1>2 DEF World, ComesDue, Expire, Edit, SealCrash, vars
<1>. QED
  BY <1>1, <1>2

(* A signature is never taken back, and the order of signing never changes. *)
LEMMA SignedStays ==
  ASSUME TypeOK, [Next]_vars
  PROVE  sequential' = sequential /\ \A s \in Signers : answer[s] = "SIGNED" => answer'[s] = "SIGNED"
<1>. USE DEF Envelope_, Sealing, Counts
<1>1. CASE World
  BY <1>1, HandlersRest
<1>2. ASSUME NEW h \in Handlers, Step(h)
      PROVE sequential' = sequential /\ \A s \in Signers : answer[s] = "SIGNED" => answer'[s] = "SIGNED"
  <2>1. CASE Sign(h)
    BY <2>1 DEF Sign, StillOpen, TypeOK
  <2>2. CASE Decline(h)
    BY <2>2 DEF Decline, StillOpen, TypeOK
  <2>3. CASE Begin(h) \/ Reread(h) \/ Notify(h) \/ Complete(h) \/ Execute(h) \/ Queue(h)
    BY <2>3 DEF Begin, Reread, Notify, Complete, Execute, Queue
  <2>4. CASE BeginVoid(h) \/ Void(h) \/ BeginRemind(h) \/ RemindExpires(h) \/ Remind(h) \/ Crash(h)
    BY <2>4 DEF BeginVoid, Void, BeginRemind, RemindExpires, Remind, Crash
  <2>. QED
    BY <1>2, <2>1, <2>2, <2>3, <2>4 DEF Step
<1>. QED
  BY <1>1, <1>2 DEF Next, World

LEMMA TurnsKept ==
  ASSUME TypeOK, [Next]_vars
  PROVE  /\ \A s \in Signers : ~WaitingForEarlier(s) => ~WaitingForEarlier(s)'
         /\ AllSigned => AllSigned'
BY SignedStays DEF WaitingForEarlier, AllSigned
-----------------------------------------------------------------------------
(* Turns.                                                                    *)

LEMMA InTurnStep == ASSUME Inv, [Next]_vars PROVE InTurn'
<1>. USE DEF Envelope_, Sealing, Counts, Goto, Keep, Rest, NoJob
<1>0. TypeOK /\ InTurn
  BY DEF Inv
<1>1. CASE World
  BY <1>0, <1>1, HandlersRest, TurnsKept DEF InTurn
<1>2. ASSUME NEW h \in Handlers, Step(h) PROVE InTurn'
  <2>1. SUFFICES /\ pc'[h] \in {"sign", "decline", "reread"} => job'[h].who \in Signers
                 /\ pc'[h] \in {"sign", "decline"} => ~WaitingForEarlier(job[h].who)'
                 /\ pc'[h] = "complete" => AllSigned'
    BY <1>0, <1>2, OthersRest, TurnsKept DEF InTurn, WaitingForEarlier
  <2>. USE <1>0 DEF TypeOK
  <2>2. CASE Begin(h)
    <3>1. PICK s \in Signers : MayAnswer(s) /\ Keep(h, [NoJob EXCEPT !.who = s])
      BY <2>2 DEF Begin
    <3>2. job'[h].who = s /\ pc'[h] \in {"sign", "decline"}
      BY <2>2, <3>1 DEF Begin
    <3>. QED
      BY <3>1, <3>2, TurnsKept DEF MayAnswer, WaitingForEarlier
  <2>3. CASE Sign(h)
    BY <2>3 DEF Sign, InTurn
  <2>4. CASE Reread(h)
    BY <2>4, TurnsKept DEF Reread
  <2>5. CASE Notify(h) \/ Complete(h) \/ Execute(h) \/ Queue(h) \/ Decline(h)
    BY <2>5 DEF Notify, Complete, Execute, Queue, Decline
  <2>6. CASE BeginVoid(h) \/ Void(h) \/ BeginRemind(h) \/ RemindExpires(h) \/ Remind(h) \/ Crash(h)
    BY <2>6 DEF BeginVoid, Void, BeginRemind, RemindExpires, Remind, Crash
  <2>. QED
    BY <1>2, <2>2, <2>3, <2>4, <2>5, <2>6 DEF Step
<1>. QED
  BY <1>1, <1>2 DEF Next, World
-----------------------------------------------------------------------------
(* Outcomes and executions.                                                  *)

(* Only a completion, a decline and a voiding write an outcome; each takes   *)
(* the request out of PENDING, and nothing puts it back.                     *)
LEMMA OneOutcomeStep == ASSUME Inv, [Next]_vars PROVE OneOutcome'
<1>. USE DEF Envelope_, Sealing, Counts, OneOutcome
<1>0. OneOutcome
  BY DEF Inv
<1>1. CASE World
  <2>1. request' = request \/ request' = "EXPIRED"
    <3>1. CASE SealWork
      BY <3>1 DEF SealWork, SealStart, SealLook, SealRender, SealStamp, SealCreate, SealPoint, SealRepoint,
                  SealForward, SealOnly
    <3>2. CASE ~SealWork
      BY <1>1, <3>2 DEF World, ComesDue, Expire, Edit, SealCrash, vars
    <3>. QED
      BY <3>1, <3>2
  <2>. QED
    BY <1>0, <1>1, <2>1, HandlersRest
<1>2. ASSUME NEW h \in Handlers, Step(h) PROVE OneOutcome'
  <2>1. CASE Complete(h) \/ Decline(h) \/ Void(h)
    BY <1>0, <2>1 DEF Complete, Decline, Void, StillOpen
  <2>2. CASE Begin(h) \/ Sign(h) \/ Reread(h) \/ Notify(h) \/ Execute(h) \/ Queue(h)
    BY <1>0, <2>2 DEF Begin, Sign, Reread, Notify, Execute, Queue
  <2>3. CASE BeginVoid(h) \/ BeginRemind(h) \/ RemindExpires(h) \/ Remind(h) \/ Crash(h)
    BY <1>0, <2>3 DEF BeginVoid, BeginRemind, RemindExpires, Remind, Crash
  <2>. QED
    BY <1>2, <2>1, <2>2, <2>3 DEF Step
<1>. QED
  BY <1>1, <1>2 DEF Next, World

LEMMA OneExecutionStep == ASSUME Inv, [Next]_vars PROVE OneExecution'
<1>. USE DEF Envelope_, Sealing, Counts, Goto, Keep, Rest
<1>0. TypeOK /\ OneOutcome /\ OneExecution /\ SealKept
  BY DEF Inv
<1>. USE <1>0
<1>1. CASE World
  <2>1. seal' # "none" => seal # "none"
    BY <1>1 DEF World, ComesDue, Expire, Edit, SealCrash, vars, SealWork, SealStart, SealLook, SealRender,
                SealStamp, SealCreate, SealPoint, SealRepoint, SealForward, Running
  <2>. QED
    BY <1>1, <2>1, HandlersRest DEF OneExecution
<1>2. ASSUME NEW h \in Handlers, Step(h) PROVE OneExecution'
  <2>0. \A g \in Handlers \ {h} : pc'[g] = pc[g]
    BY <1>2, OthersRest
  <2>. USE <2>0
  <2>1. CASE Complete(h) \/ Decline(h) \/ Void(h)
    <3>1. CASE UNCHANGED <<request, log>>
      <4>1. pc'[h] = "idle" /\ UNCHANGED <<executions, seal>>
        BY <2>1, <3>1 DEF Complete, Decline, Void, StillOpen, TypeOK, OneOutcome
      <4>. QED
        BY <3>1, <4>1 DEF OneExecution
    <3>2. CASE ~UNCHANGED <<request, log>>
      <4>1. request = "PENDING" /\ UNCHANGED <<executions, seal>>
        BY <2>1, <3>2 DEF Complete, Decline, Void, StillOpen
      <4>2. log = {} /\ executions = 0
        BY <4>1 DEF OneOutcome, OneExecution, TypeOK
      <4>3. \A g \in Handlers : pc[g] # "execute" /\ pc[g] # "queue"
        BY <4>2 DEF OneExecution
      <4>4. pc'[h] = "idle" \/ (pc'[h] = "execute" /\ log' = {"COMPLETED"})
        BY <2>1, <4>2 DEF Complete, Decline, Void, TypeOK
      <4>. QED
        BY <4>1, <4>2, <4>3, <4>4 DEF OneExecution
    <3>. QED
      BY <3>1, <3>2
  <2>2. CASE Execute(h)
    BY <2>2 DEF Execute, OneExecution, TypeOK
  <2>3. CASE Queue(h)
    BY <2>3 DEF Queue, OneExecution, TypeOK
  <2>4. CASE Begin(h) \/ Sign(h) \/ Reread(h) \/ Notify(h)
    <3>1. pc'[h] \notin {"execute", "queue"} /\ UNCHANGED <<log, executions, seal>>
      BY <2>4 DEF Begin, Sign, Reread, Notify, TypeOK
    <3>. QED
      BY <3>1 DEF OneExecution
  <2>5. CASE BeginVoid(h) \/ BeginRemind(h) \/ RemindExpires(h) \/ Remind(h) \/ Crash(h)
    <3>1. pc'[h] \notin {"execute", "queue"} /\ UNCHANGED <<log, executions, seal>>
      BY <2>5 DEF BeginVoid, BeginRemind, RemindExpires, Remind, Crash, TypeOK
    <3>. QED
      BY <3>1 DEF OneExecution
  <2>. QED
    BY <1>2, <2>1, <2>2, <2>3, <2>4, <2>5 DEF Step
<1>. QED
  BY <1>1, <1>2 DEF Next, World
-----------------------------------------------------------------------------
(* The seal.                                                                 *)

LEMMA SealKeptStep == ASSUME Inv, [Next]_vars PROVE SealKept'
<1>. USE BoundsAssumption DEF Envelope_, Sealing, Counts, SealedIsShown, Sent
<1>0. TypeOK /\ SealKept
  BY DEF Inv
<1>1. CASE SealWork
  <2>. USE <1>0 DEF SealGoto, SealOnly, SealKept, Running, SealPCs, TypeOK
  <2>1. CASE SealStart \/ SealLook
    BY <2>1 DEF SealStart, SealLook, AfterSealed
  <2>2. CASE SealRender \/ SealStamp
    BY <2>2 DEF SealRender, SealStamp, Throws
  <2>3. CASE SealCreate
    BY <2>3 DEF SealCreate, Throws
  <2>4. CASE SealPoint
    BY <2>4 DEF SealPoint, Throws
  <2>5. CASE SealRepoint
    BY <2>5 DEF SealRepoint
  <2>6. CASE SealForward
    BY <2>6 DEF SealForward
  <2>. QED
    BY <1>1, <2>1, <2>2, <2>3, <2>4, <2>5, <2>6 DEF SealWork
<1>2. CASE Edit
  BY <1>0, <1>2 DEF Edit, SealKept, TypeOK
<1>3. CASE SealCrash
  BY <1>0, <1>3 DEF SealCrash, SealKept, Running
<1>4. CASE ComesDue \/ Expire \/ UNCHANGED vars
  BY <1>0, <1>4 DEF ComesDue, Expire, vars, SealKept
<1>5. ASSUME NEW h \in Handlers, Step(h) PROVE SealKept'
  <2>1. CASE Queue(h)
    BY <1>0, <2>1 DEF Queue, SealKept, Running, TypeOK, SealPCs
  <2>2. CASE ~Queue(h)
    <3>1. UNCHANGED Sealing
      BY <1>5, <2>2 DEF Step, Begin, Sign, Reread, Notify, Complete, Execute, Decline, BeginVoid, Void, BeginRemind,
                        RemindExpires, Remind, Crash
    <3>. QED
      BY <1>0, <3>1 DEF SealKept
  <2>. QED
    BY <2>1, <2>2
<1>. QED
  BY <1>1, <1>2, <1>3, <1>4, <1>5 DEF Next
-----------------------------------------------------------------------------
(* The theorems.                                                             *)

THEOREM AlwaysInv == Spec => []Inv
<1>1. Inv /\ [Next]_vars => Inv'
  BY TypeStep, InTurnStep, OneOutcomeStep, OneExecutionStep, SealKeptStep DEF Inv
<1>. QED
  BY InitInv, <1>1, PTL DEF Spec

(* Every variable keeps its type: in particular the request is executed at   *)
(* most once, and the seal job never runs more attempts than it has.         *)
THEOREM SigningTypes == Spec => []TypeOK
<1>1. Inv => TypeOK
  BY DEF Inv
<1>. QED
  BY AlwaysInv, <1>1, PTL

(* A sealed copy that was made is the version the contract shows, however    *)
(* the seal's attempts, their failures and the edits fall.                   *)
THEOREM SealedShown == Spec => []SealedIsShown
<1>1. Inv => SealedIsShown
  BY DEF Inv, SealKept
<1>. QED
  BY AlwaysInv, <1>1, PTL
-----------------------------------------------------------------------------
(* The request implements its promise.                                       *)

LEMMA OutcomeOf ==
  ASSUME OneOutcome
  PROVE  /\ log = {} => Outcome = IF request = "EXPIRED" THEN "EXPIRED" ELSE "PENDING"
         /\ log = {"COMPLETED"} => Outcome = "COMPLETED"
         /\ log \in {{"DECLINED"}, {"VOIDED"}} => Outcome = "VOIDED"
<1>1. log = {} => Outcome = IF request = "EXPIRED" THEN "EXPIRED" ELSE "PENDING"
  BY DEF Outcome
<1>2. log = {"COMPLETED"} => Outcome = "COMPLETED"
  BY DEF Outcome
<1>3. log \in {{"DECLINED"}, {"VOIDED"}} => Outcome = "VOIDED"
  BY DEF Outcome
<1>. QED
  BY <1>1, <1>2, <1>3

LEMMA PromiseInit == ASSUME Init PROVE Promised!Init
<1>1. Outcome = "PENDING"
  BY DEF Init, Outcome
<1>. QED
  BY <1>1 DEF Init, Promised!Init

(* A handler's step is a signature, a decline, a stop, the completion or the *)
(* execution of the abstract request, or none of its business.               *)
LEMMA HandlerPromised ==
  ASSUME Inv, Inv', NEW h \in Handlers, Step(h)
  PROVE  [Promised!Next]_(Promised!state)
<1>. USE DEF Envelope_, Sealing, Counts, Goto, Keep, Rest
<1>0. TypeOK /\ InTurn /\ OneOutcome /\ OneExecution /\ OneOutcome'
  BY DEF Inv
<1>. DEFINE s == job[h].who
<1>1. CASE Sign(h)
  <2>1. CASE ~StillOpen(s)
    <3>1. UNCHANGED <<sequential, request, log, answer, executions, sealed>>
      BY <1>1, <2>1 DEF Sign
    <3>. QED
      BY <3>1 DEF Promised!state, Outcome
  <2>2. CASE StillOpen(s)
    <3>1. s \in Signers /\ ~WaitingForEarlier(s) /\ request = "PENDING" /\ answer[s] = "PENDING"
      BY <1>0, <1>1, <2>2 DEF InTurn, Sign, StillOpen
    <3>2. Promised!Open(s)
      BY <1>0, <3>1, OutcomeOf DEF Promised!Open, Promised!Ready, WaitingForEarlier, OneOutcome
    <3>3. /\ answer' = [answer EXCEPT ![s] = "SIGNED"]
          /\ UNCHANGED <<sequential, request, log, executions, sealed>>
      BY <1>1, <2>2 DEF Sign
    <3>4. Promised!Sign(s)
      BY <3>2, <3>3 DEF Promised!Sign, Outcome
    <3>. QED
      BY <3>1, <3>4 DEF Promised!Next
  <2>. QED
    BY <2>1, <2>2
<1>2. CASE Decline(h)
  <2>1. CASE ~StillOpen(s)
    <3>1. UNCHANGED <<sequential, request, log, answer, executions, sealed>>
      BY <1>2, <2>1 DEF Decline
    <3>. QED
      BY <3>1 DEF Promised!state, Outcome
  <2>2. CASE StillOpen(s)
    <3>1. s \in Signers /\ ~WaitingForEarlier(s) /\ request = "PENDING" /\ answer[s] = "PENDING" /\ log = {}
      BY <1>0, <1>2, <2>2 DEF InTurn, Decline, StillOpen, OneOutcome
    <3>2. Promised!Open(s)
      BY <1>0, <3>1, OutcomeOf DEF Promised!Open, Promised!Ready, WaitingForEarlier, OneOutcome
    <3>3. /\ answer' = [answer EXCEPT ![s] = "DECLINED"] /\ log' = {"DECLINED"}
          /\ UNCHANGED <<sequential, executions, sealed>>
      BY <1>2, <2>2, <3>1 DEF Decline
    <3>4. Outcome' = "VOIDED"
      BY <3>3 DEF Outcome
    <3>5. Promised!Decline(s)
      BY <3>2, <3>3, <3>4 DEF Promised!Decline
    <3>. QED
      BY <3>1, <3>5 DEF Promised!Next
  <2>. QED
    BY <2>1, <2>2
<1>3. CASE Complete(h) /\ request = "PENDING"
  <2>1. AllSigned /\ log = {} /\ Outcome = "PENDING"
    BY <1>0, <1>3, OutcomeOf DEF InTurn, Complete, OneOutcome
  <2>2. log' = {"COMPLETED"} /\ UNCHANGED <<sequential, answer, executions, sealed>>
    BY <1>3, <2>1 DEF Complete
  <2>3. Outcome' = "COMPLETED"
    BY <2>2 DEF Outcome
  <2>. QED
    BY <2>1, <2>2, <2>3 DEF AllSigned, Promised!Complete, Promised!Next
<1>4. CASE Execute(h)
  <2>1. log = {"COMPLETED"} /\ executions = 0 /\ Outcome = "COMPLETED"
    BY <1>0, <1>4, OutcomeOf DEF OneExecution, Execute
  <2>2. executions' = 1 /\ UNCHANGED <<sequential, request, log, answer, sealed>>
    BY <1>4, <2>1 DEF Execute
  <2>. QED
    BY <2>1, <2>2 DEF Promised!Execute, Promised!Next, Outcome
<1>5. CASE Void(h) /\ request = "PENDING"
  <2>1. log = {} /\ Outcome = "PENDING"
    BY <1>0, <1>5, OutcomeOf DEF OneOutcome
  <2>2. log' = {"VOIDED"} /\ UNCHANGED <<sequential, answer, executions, sealed>>
    BY <1>5, <2>1 DEF Void
  <2>3. Outcome' = "VOIDED"
    BY <2>2 DEF Outcome
  <2>. QED
    BY <2>1, <2>2, <2>3 DEF Promised!Stop, Promised!Next
<1>6. CASE RemindExpires(h)
  <2>1. request' = "EXPIRED" /\ UNCHANGED <<sequential, log, answer, executions, sealed>>
    BY <1>6 DEF RemindExpires
  <2>2. CASE log = {}
    <3>1. Outcome \in {"PENDING", "EXPIRED"} /\ Outcome' = "EXPIRED"
      BY <1>0, <2>1, <2>2, OutcomeOf DEF Outcome
    <3>. QED
      BY <2>1, <3>1 DEF Promised!Stop, Promised!Next, Promised!state
  <2>3. CASE log # {}
    BY <2>1, <2>3 DEF Promised!state, Outcome
  <2>. QED
    BY <2>2, <2>3
<1>7. CASE \/ Begin(h) \/ Reread(h) \/ Notify(h) \/ Queue(h) \/ BeginVoid(h) \/ BeginRemind(h) \/ Remind(h)
           \/ Crash(h) \/ ((Complete(h) \/ Void(h)) /\ request # "PENDING")
  <2>1. UNCHANGED <<sequential, request, log, answer, executions, sealed>>
    BY <1>7 DEF Begin, Reread, Notify, Queue, BeginVoid, BeginRemind, Remind, Crash, Complete, Void
  <2>. QED
    BY <2>1 DEF Promised!state, Outcome
<1>. QED
  BY <1>1, <1>2, <1>3, <1>4, <1>5, <1>6, <1>7 DEF Step

LEMMA WorldPromised == ASSUME Inv, Inv', World PROVE [Promised!Next]_(Promised!state)
<1>. USE DEF Envelope_, Sealing, Counts, SealOnly
<1>0. TypeOK /\ OneOutcome /\ OneExecution /\ SealKept /\ OneOutcome'
  BY DEF Inv
<1>1. CASE SealWork /\ sealed' # sealed
  <2>1. executions = 1 /\ sealed = 0 /\ sealed' # 0 /\ UNCHANGED <<sequential, request, log, answer, executions>>
    BY <1>0, <1>1 DEF SealWork, SealStart, SealLook, SealRender, SealStamp, SealCreate, SealPoint, SealRepoint,
                      SealForward, SealKept, OneExecution
  <2>. QED
    BY <2>1 DEF Promised!Seal, Promised!Next, Outcome
<1>2. CASE Expire
  <2>1. Outcome = "PENDING" /\ log = {}
    BY <1>0, <1>2, OutcomeOf DEF Expire, OneOutcome
  <2>2. Outcome' = "EXPIRED" /\ UNCHANGED <<sequential, answer, executions, sealed>>
    BY <1>2, <2>1 DEF Expire, Outcome
  <2>. QED
    BY <2>1, <2>2 DEF Promised!Stop, Promised!Next
<1>3. CASE ComesDue \/ Edit \/ SealCrash \/ UNCHANGED vars \/ (SealWork /\ sealed' = sealed)
  <2>1. UNCHANGED <<sequential, request, log, answer, executions, sealed>>
    BY <1>3 DEF ComesDue, Edit, SealCrash, vars, SealWork, SealStart, SealLook, SealRender, SealStamp, SealCreate,
                SealPoint, SealRepoint, SealForward
  <2>. QED
    BY <2>1 DEF Promised!state, Outcome
<1>. QED
  BY <1>1, <1>2, <1>3 DEF World

(* The signature request implements Envelope: in turn, one outcome, executed *)
(* once and only when completed, sealed after.                               *)
THEOREM EnvelopeKept == Spec => EnvelopeImplemented
<1>1. Inv /\ Inv' /\ [Next]_vars => [Promised!Next]_(Promised!state)
  BY HandlerPromised, WorldPromised DEF Next, World
<1>. QED
  BY AlwaysInv, PromiseInit, <1>1, PTL DEF Spec, EnvelopeImplemented, Promised!Spec
-----------------------------------------------------------------------------
(* Nobody is forgotten.                                                      *)

(* While nothing was cut short, an open request that everybody signed has a  *)
(* handler that will complete it.                                            *)
Settling ==
  crashes = 0 /\ request = "PENDING" /\ AllSigned => \E h \in Handlers : pc[h] \in {"reread", "complete"}

(* And everybody whose turn it is has the link, or is about to get it from a *)
(* handler that has found the group finished, or has yet to look.            *)
IsAsked(t) ==
  \/ t \in asked
  \/ \E h \in Handlers : pc[h] = "notify" /\ t \in job[h].next
  \/ sequential /\ \E h \in Handlers : pc[h] = "reread" /\ Group[job[h].who] < Group[t]
Asking == crashes = 0 /\ request = "PENDING" => \A t \in Turn : IsAsked(t)

(* What no step undoes: a request that left PENDING, a crash, a link sent.   *)
LEMMA Onward ==
  ASSUME TypeOK, [Next]_vars
  PROVE  /\ request' = "PENDING" => request = "PENDING"
         /\ crashes' = 0 => crashes = 0 /\ \A h \in Handlers : ~Crash(h)
         /\ asked \subseteq asked'
<1>. USE DEF Envelope_, Sealing, Counts, TypeOK
<1>1. CASE SealWork
  BY <1>1 DEF SealWork, SealStart, SealLook, SealRender, SealStamp, SealCreate, SealPoint, SealRepoint,
              SealForward, SealOnly, Crash
<1>2. CASE ComesDue \/ Expire \/ Edit \/ SealCrash \/ UNCHANGED vars
  BY <1>2 DEF ComesDue, Expire, Edit, SealCrash, vars, Crash
<1>3. ASSUME NEW h \in Handlers, Step(h)
      PROVE  /\ request' = "PENDING" => request = "PENDING"
             /\ crashes' = 0 => crashes = 0 /\ \A g \in Handlers : ~Crash(g)
             /\ asked \subseteq asked'
  <2>1. CASE Begin(h) \/ Sign(h) \/ Reread(h) \/ Notify(h) \/ Execute(h) \/ Queue(h)
    BY <2>1 DEF Begin, Sign, Reread, Notify, Execute, Queue, Crash
  <2>2. CASE Complete(h) \/ Decline(h) \/ Void(h)
    BY <2>2 DEF Complete, Decline, Void, Crash
  <2>3. CASE BeginVoid(h) \/ BeginRemind(h) \/ RemindExpires(h) \/ Remind(h) \/ Crash(h)
    BY <2>3 DEF BeginVoid, BeginRemind, RemindExpires, Remind, Crash
  <2>. QED
    BY <1>3, <2>1, <2>2, <2>3 DEF Step
<1>. QED
  BY <1>1, <1>2, <1>3 DEF Next

(* Only a signature and a decline write an answer.                           *)
LEMMA AnswersRest ==
  ASSUME NEW h \in Handlers, Step(h), ~Sign(h), ~Decline(h)
  PROVE  answer' = answer
BY DEF Step, Envelope_, Sealing, Counts, Begin, Reread, Notify, Complete, Execute, Queue, BeginVoid, Void,
       BeginRemind, RemindExpires, Remind, Crash

LEMMA SettlingStep == ASSUME Inv, Settling, [Next]_vars PROVE Settling'
<1>. USE DEF Envelope_, Sealing, Counts, Goto, Keep, Rest
<1>0. TypeOK
  BY DEF Inv
<1>. SUFFICES ASSUME crashes' = 0, request' = "PENDING", AllSigned'
              PROVE  \E h \in Handlers : pc'[h] \in {"reread", "complete"}
  BY DEF Settling
<1>1. crashes = 0 /\ request = "PENDING" /\ \A h \in Handlers : ~Crash(h)
  BY <1>0, Onward
<1>2. CASE World
  BY <1>1, <1>2, HandlersRest DEF Settling, AllSigned
<1>3. ASSUME NEW h \in Handlers, Step(h) PROVE \E g \in Handlers : pc'[g] \in {"reread", "complete"}
  <2>1. CASE Sign(h)
    BY <1>0, <1>1, <1>3, <2>1, OthersRest DEF Sign, Settling, AllSigned, StillOpen, TypeOK
  <2>2. CASE Decline(h)
    BY <1>1, <2>2, <1>0, <1>3, OthersRest DEF Decline, StillOpen, Settling, AllSigned, TypeOK
  <2>3. CASE ~Sign(h) /\ ~Decline(h)
    <3>1. AllSigned
      BY <1>3, <2>3, AnswersRest DEF AllSigned
    <3>2. PICK g \in Handlers : pc[g] \in {"reread", "complete"}
      BY <1>1, <3>1 DEF Settling
    <3>3. CASE g # h
      BY <1>0, <1>3, <3>2, <3>3, OthersRest
    <3>4. CASE g = h /\ pc[h] = "reread"
      <4>1. Reread(h)
        BY <1>1, <1>3, <3>4 DEF Step, Begin, Sign, Notify, Complete, Execute, Queue, Decline, BeginVoid, Void,
                                BeginRemind, RemindExpires, Remind
      <4>. QED
        BY <1>0, <3>1, <4>1 DEF Reread, TypeOK
    <3>5. CASE g = h /\ pc[h] = "complete"
      <4>1. Complete(h)
        BY <1>1, <1>3, <3>5 DEF Step, Begin, Sign, Reread, Notify, Execute, Queue, Decline, BeginVoid, Void,
                                BeginRemind, RemindExpires, Remind
      <4>. QED
        BY <1>1, <4>1 DEF Complete
    <3>. QED
      BY <3>2, <3>3, <3>4, <3>5
  <2>. QED
    BY <2>1, <2>2, <2>3
<1>. QED
  BY <1>2, <1>3 DEF Next, World

(* Signatures made at the same time do not leave a request open that nobody  *)
(* can sign any more.                                                        *)
THEOREM AllSignedIsSettled == Spec => []AllSignedSettles
<1>1. Init => Settling
  BY SignersAssumption DEF Init, Settling, AllSigned
<1>2. Inv /\ Settling /\ [Next]_vars => Settling'
  BY SettlingStep
<1>3. Settling => AllSignedSettles
  BY DEF Settling, AllSignedSettles, AtRest
<1>. QED
  BY AlwaysInv, <1>1, <1>2, <1>3, PTL DEF Spec
-----------------------------------------------------------------------------
(* A signature either leaves the rest of its group in turn, or gives the     *)
(* turn to later groups, and then its signer is still to look.               *)
LEMMA TurnAfterSign ==
  ASSUME Inv, NEW h \in Handlers, Sign(h), StillOpen(job[h].who), NEW t \in Turn'
  PROVE  t \in Turn \/ (sequential /\ Group[job[h].who] < Group[t])
<1>. DEFINE s == job[h].who
<1>1. s \in Signers /\ ~WaitingForEarlier(s) /\ answer[s] = "PENDING"
  BY DEF Inv, InTurn, Sign, StillOpen
<1>2. answer' = [answer EXCEPT ![s] = "SIGNED"] /\ sequential' = sequential
  BY DEF Sign
<1>3. t \in Signers /\ t # s /\ answer[t] = "PENDING"
  BY <1>1, <1>2 DEF Turn, Unanswered, Inv, TypeOK
<1>4. Group[t] \in Nat /\ Group[s] \in Nat
  BY <1>1, <1>3, SignersAssumption
<1>5. CASE ~sequential
  BY <1>3, <1>5 DEF Turn, Unanswered
<1>6. CASE sequential /\ ~(Group[s] < Group[t])
  <2>1. \A u \in Signers : Group[u] < Group[s] => answer[u] # "PENDING"
    BY <1>1, <1>6 DEF WaitingForEarlier
  <2>2. \A u \in Unanswered : Group[t] <= Group[u]
    BY <2>1, <1>4, <1>6, SignersAssumption DEF Unanswered
  <2>. QED
    BY <1>3, <1>6, <2>2 DEF Turn, Unanswered
<1>. QED
  BY <1>5, <1>6

(* In a sequential request all whose turn it is are of one group.            *)
LEMMA OneGroup ==
  ASSUME sequential, NEW t \in Turn, NEW u \in Turn
  PROVE  Group[t] = Group[u]
<1>1. t \in Signers /\ u \in Signers /\ Group[t] <= Group[u] /\ Group[u] <= Group[t]
  BY DEF Turn, Unanswered
<1>. QED
  BY <1>1, SignersAssumption

LEMMA AskingStep == ASSUME Inv, Asking, [Next]_vars PROVE Asking'
<1>. USE DEF Envelope_, Sealing, Counts, Goto, Keep, Rest
<1>0. TypeOK /\ InTurn
  BY DEF Inv
<1>. SUFFICES ASSUME crashes' = 0, request' = "PENDING", NEW t \in Turn'
              PROVE  IsAsked(t)'
  BY DEF Asking
<1>1. /\ crashes = 0 /\ request = "PENDING" /\ \A h \in Handlers : ~Crash(h)
      /\ asked \subseteq asked' /\ sequential' = sequential
  BY <1>0, Onward, SignedStays
<1>2. \A u \in Turn : IsAsked(u)
  BY <1>1 DEF Asking
<1>3. CASE World
  <2>1. UNCHANGED <<pc, job, answer, sequential>>
    BY <1>3, HandlersRest
  <2>2. t \in Turn
    BY <2>1 DEF Turn, Unanswered
  <2>. QED
    BY <1>1, <1>2, <2>1, <2>2 DEF IsAsked
<1>4. ASSUME NEW h \in Handlers, Step(h) PROVE IsAsked(t)'
  <2>0. \A g \in Handlers \ {h} : pc'[g] = pc[g] /\ job'[g] = job[g]
    BY <1>0, <1>4, OthersRest
  <2>1. CASE Sign(h) /\ StillOpen(job[h].who)
    <3>1. pc[h] = "sign" /\ pc'[h] = "reread" /\ job'[h] = job[h]
      BY <1>0, <2>1 DEF Sign, TypeOK
    <3>2. t \in Turn \/ (sequential /\ Group[job[h].who] < Group[t])
      BY <2>1, TurnAfterSign
    <3>3. CASE t \in Turn
      BY <1>1, <1>2, <2>0, <3>1, <3>3 DEF IsAsked
    <3>4. CASE sequential /\ Group[job[h].who] < Group[t]
      BY <1>1, <3>1, <3>4 DEF IsAsked
    <3>. QED
      BY <3>2, <3>3, <3>4
  <2>2. CASE Decline(h) /\ StillOpen(job[h].who)
    BY <2>2 DEF Decline
  <2>3. CASE (Sign(h) \/ Decline(h)) /\ ~StillOpen(job[h].who)
    <3>1. answer' = answer /\ pc[h] \in {"sign", "decline"}
      BY <2>3 DEF Sign, Decline
    <3>2. t \in Turn
      BY <1>1, <3>1 DEF Turn, Unanswered
    <3>. QED
      BY <1>1, <1>2, <2>0, <3>1, <3>2 DEF IsAsked
  <2>4. CASE ~Sign(h) /\ ~Decline(h)
    <3>1. answer' = answer
      BY <1>4, <2>4, AnswersRest
    <3>2. t \in Turn
      BY <1>1, <3>1 DEF Turn, Unanswered
    <3>3. IsAsked(t)
      BY <1>2, <3>2
    <3>4. CASE Reread(h)
      <4>. DEFINE next == IF sequential THEN NextToNotify(job[h].who) ELSE {}
      <4>1. pc[h] = "reread" /\ job[h].who \in Signers
        BY <1>0, <3>4 DEF Reread, InTurn
      <4>2. CASE sequential /\ Group[job[h].who] < Group[t]
        <5>1. \A u \in Turn : Group[u] > Group[job[h].who]
          <6>1. \A u \in Turn : Group[u] = Group[t]
            BY <3>2, <4>2, OneGroup
          <6>2. Group[t] \in Nat /\ Group[job[h].who] \in Nat
            BY <3>2, <4>1, SignersAssumption DEF Turn, Unanswered
          <6>. QED
            BY <4>2, <6>1, <6>2
        <5>2. t \in next
          BY <1>1, <3>2, <4>2, <5>1 DEF NextToNotify
        <5>3. ~AllSigned
          BY <3>2 DEF AllSigned, Turn, Unanswered
        <5>4. pc'[h] = "notify" /\ job'[h].next = next
          BY <1>0, <3>4, <5>2, <5>3 DEF Reread, TypeOK
        <5>. QED
          BY <5>2, <5>4 DEF IsAsked
      <4>3. CASE ~(sequential /\ Group[job[h].who] < Group[t])
        BY <1>1, <2>0, <3>3, <4>1, <4>3 DEF IsAsked
      <4>. QED
        BY <4>2, <4>3
    <3>5. CASE Notify(h)
      <4>1. asked' = asked \union job[h].next /\ pc[h] = "notify"
        BY <3>5 DEF Notify
      <4>. QED
        BY <1>1, <2>0, <3>3, <4>1 DEF IsAsked
    <3>6. CASE ~Reread(h) /\ ~Notify(h)
      <4>1. pc[h] \notin {"reread", "notify"}
        BY <1>1, <1>4, <2>4, <3>6 DEF Step, Begin, Complete, Execute, Queue, BeginVoid, Void, BeginRemind,
                                      RemindExpires, Remind
      <4>. QED
        BY <1>1, <2>0, <3>3, <4>1 DEF IsAsked
    <3>. QED
      BY <3>4, <3>5, <3>6
  <2>. QED
    BY <2>1, <2>2, <2>3, <2>4
<1>. QED
  BY <1>3, <1>4 DEF Next, World

(* Whoever's turn it is gets the link, also when the signatures of the group *)
(* before came at the same time, and whatever gaps its numbers have.         *)
THEOREM TurnAlwaysAsked == Spec => []TurnIsAsked
<1>1. Init => Asking
  BY DEF Init, Asking, IsAsked
<1>2. Inv /\ Asking /\ [Next]_vars => Asking'
  BY AskingStep
<1>3. Asking => TurnIsAsked
  BY DEF Asking, IsAsked, TurnIsAsked, AtRest
<1>. QED
  BY AlwaysInv, <1>1, <1>2, <1>3, PTL DEF Spec
=============================================================================
