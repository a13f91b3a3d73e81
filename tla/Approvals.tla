------------------------------ MODULE Approvals ------------------------------
(***************************************************************************)
(* One request for approval (an ApprovalInstance and its ApprovalSteps):   *)
(* submitting it, deciding, delegating and escalating its steps, and the   *)
(* engine that moves it on (apps/api/src/lib/workflow-engine.ts,           *)
(* approval-flow.ts, approval-escalation.ts).                              *)
(*                                                                         *)
(* A handler is one request or job in flight; it stops at every database   *)
(* write and at every read it decides from, so handlers interleave there.  *)
(* What happens to the contract is ContractFlow's, and so is what becomes  *)
(* of a request when its document changes: it may be cancelled, or reset,  *)
(* an approved one too, its steps asked again (lib/approval-reset.ts).     *)
(* Here a request runs until then: it is one round.  Notifications,        *)
(* webhooks and the audit log are left out.                                *)
(***************************************************************************)
EXTENDS Naturals, FiniteSets, Sequences

CONSTANTS
  Handlers,       \* the requests and jobs in flight
  People,         \* the users who may hold a step
  Pool,           \* the approver of a step that waits in a role's pool
  Definitions,    \* the workflow definitions a request may be submitted under
  MaxReassigned,  \* bound: delegations and escalations of one request
  MaxCrashes,     \* bound: handlers that die half way
  None            \* nobody

Modes == {"sequential", "parallel"}

Decisions == {"APPROVED", "RETURNED", "DECLINED"}
Negative  == {"RETURNED", "DECLINED"}

(* A step of a definition: who is asked, how, and whom it escalates to.  Its *)
(* order is its place: a definition is a sequence sorted by order.           *)
StepDef == [mode: Modes, required: Nat, approvers: Seq(People \union {Pool}),
            escalateTo: People \union {None}]

ASSUME DefinitionsAssumption ==
  \A d \in Definitions : d \in Seq(StepDef) /\ d # <<>> /\ \A o \in DOMAIN d : d[o].approvers # <<>>
ASSUME BoundsAssumption == MaxReassigned \in Nat /\ MaxCrashes \in Nat
ASSUME NobodyAssumption ==
  /\ None \notin People \union Decisions \union {"DELEGATED"}
  /\ Pool \notin People \union {None}

VARIABLES
  def,         \* the definition it was submitted under
  status,      \* ApprovalInstance.status
  outcome,     \* ApprovalInstance.outcome
  current,     \* ApprovalInstance.currentStepOrder
  steps,       \* its ApprovalSteps, in the order they were created
  timers,      \* the steps with an escalation job queued that hands them over
  pc, job,     \* where each handler is and what it is about
  plan,        \* what its advanceWorkflow decided from what it read
  reassigned, crashes

request == <<def, status, outcome, current, steps, timers>>
vars == <<request, pc, job, plan, reassigned, crashes>>

StepRow == [order: Nat, approver: People \union {Pool},
            status: Decisions \union {"PENDING", "DELEGATED", "ESCALATED", "SKIPPED"},
            decision: Decisions \union {"DELEGATED", None}]

NoJob  == [step |-> 0, user |-> None, decision |-> None]
NoPlan == [skip |-> {}, next |-> 0, create |-> <<>>]

PCs == {"idle", "claim", "delegated", "advance", "close", "skip", "finish", "bump",
        "create", "escalate"}

Init ==
  /\ def \in Definitions
  /\ status = "NONE" /\ outcome = None /\ current = 0
  /\ steps = <<>> /\ timers = {}
  /\ pc = [h \in Handlers |-> "idle"]
  /\ job = [h \in Handlers |-> NoJob]
  /\ plan = [h \in Handlers |-> NoPlan]
  /\ reassigned = 0 /\ crashes = 0
-----------------------------------------------------------------------------
(* evaluateApprovalBatch, on a set of steps of one order.                    *)

Open == status = "PENDING"

At(o)        == {i \in DOMAIN steps : steps[i].order = o}
ApprovedIn(S) == {i \in S : steps[i].decision = "APPROVED"}
PendingIn(S)  == {i \in S : steps[i].status = "PENDING"}
ReturnedIn(S) == {i \in S : steps[i].decision \in Negative}

AtLeastOne(n) == IF n = 0 THEN 1 ELSE n
Smaller(m, n) == IF m < n THEN m ELSE n

(* How many approvals settle a parallel step: never more than can still be   *)
(* given, so that a step that asks too many is not stranded.                 *)
RequiredAsWritten(d, S) == AtLeastOne(d.required)   \* the slip: not clamped
Required(d, S) ==
  LET approvable == Cardinality(ApprovedIn(S)) + Cardinality(PendingIn(S))
  IN IF approvable > 0 THEN Smaller(AtLeastOne(d.required), approvable)
                       ELSE AtLeastOne(d.required)

Resolved(d, S) ==
  IF d.mode = "parallel"
    THEN Cardinality(ApprovedIn(S)) >= Required(d, S)
    ELSE ApprovedIn(S) # {} /\ PendingIn(S) = {}

(* A later order whose approval still stands is not asked again. *)
StillApproved(o) ==
  LET given == {i \in At(o) : steps[i].status = "APPROVED"}
  IN given # {} /\ Resolved(def[o], given)

(* nextStepOrder, past those: 0 when there is none. *)
NextOrder ==
  LET later == {o \in DOMAIN def : o > current /\ ~StillApproved(o)}
  IN IF later = {} THEN 0 ELSE CHOOSE o \in later : \A x \in later : o <= x
-----------------------------------------------------------------------------
Goto(h, where) == pc' = [pc EXCEPT ![h] = where]

Rest(h) ==
  /\ Goto(h, "idle")
  /\ job' = [job EXCEPT ![h] = NoJob]
  /\ plan' = [plan EXCEPT ![h] = NoPlan]

NewStep(o, approver) ==
  [order |-> o, approver |-> approver, status |-> "PENDING", decision |-> None]

(* submitForApproval: the request, then its first order's steps one by one. *)
Submit(h) ==
  /\ pc[h] = "idle" /\ status = "NONE"
  /\ status' = "PENDING" /\ current' = 1
  /\ Goto(h, "create")
  /\ plan' = [plan EXCEPT ![h].next = 1, ![h].create = def[1].approvers]
  /\ UNCHANGED <<def, outcome, steps, timers, job, reassigned, crashes>>

(* Every step gets an escalation job, but the job of one with nobody to      *)
(* escalate to only sends reminders and is left out; the slip that has it    *)
(* hand the step over all the same.                                          *)
AlwaysEscalates(o) == TRUE
Escalates(o) == def[o].escalateTo # None

(* createStepsForDef: a step and its escalation job for each approver.       *)
CreateStep(h) ==
  /\ pc[h] = "create"
  /\ steps' = Append(steps, NewStep(plan[h].next, Head(plan[h].create)))
  /\ timers' = timers \union (IF Escalates(plan[h].next) THEN {Len(steps')} ELSE {})
  /\ IF Len(plan[h].create) = 1
       THEN Rest(h)
       ELSE plan' = [plan EXCEPT ![h].create = Tail(@)] /\ UNCHANGED <<pc, job>>
  /\ UNCHANGED <<def, status, outcome, current, reassigned, crashes>>

(* decideStep up to its write: the step is pending and the user's to decide, *)
(* the request is open and at the step's order.  The step is read before the *)
(* request; what it was is compared again when it is written, so one read    *)
(* stands for both.                                                          *)
Decide(h, i, user, decision) ==
  /\ pc[h] = "idle"
  /\ steps[i].status = "PENDING" /\ steps[i].approver \in {user, Pool}
  /\ Open /\ steps[i].order = current
  /\ Goto(h, "claim")
  /\ job' = [job EXCEPT ![h] = [step |-> i, user |-> user, decision |-> decision]]
  /\ UNCHANGED <<request, plan, crashes>>

DecideAny(h, i) ==
  /\ \E user \in People, decision \in Decisions : Decide(h, i, user, decision)
  /\ UNCHANGED reassigned

Delegate(h) ==
  /\ reassigned < MaxReassigned /\ reassigned' = reassigned + 1
  /\ \E i \in DOMAIN steps, user \in People : Decide(h, i, user, "DELEGATED")

ClaimsAnyway(i) == TRUE   \* the slip: no compare-and-set
StillPending(i) == steps[i].status = "PENDING"

(* The compare-and-set: pending still, and its approver as read (a pooled    *)
(* step keeps none until someone claims it).  Its escalation job is removed. *)
Claim(h) ==
  LET i == job[h].step
  IN /\ pc[h] = "claim"
     /\ UNCHANGED <<def, status, outcome, current, plan, reassigned, crashes>>
     /\ IF StillPending(i)
          THEN /\ steps' = [steps EXCEPT ![i].approver = job[h].user,
                                         ![i].status = job[h].decision,
                                         ![i].decision = job[h].decision]
               /\ timers' = timers \ {i}
               /\ Goto(h, IF job[h].decision = "DELEGATED" THEN "delegated" ELSE "advance")
               /\ UNCHANGED job
          ELSE Rest(h) /\ UNCHANGED <<steps, timers>>

(* The delegatee's step, which has no escalation job. *)
CreateDelegated(h) ==
  /\ pc[h] = "delegated"
  /\ \E user \in People :
       steps' = Append(steps, NewStep(steps[job[h].step].order, user))
  /\ Rest(h)
  /\ UNCHANGED <<def, status, outcome, current, timers, reassigned, crashes>>

(* A step's time runs out: handleEscalate reads that it is still pending...  *)
Escalate(h) ==
  /\ pc[h] = "idle" /\ reassigned < MaxReassigned
  /\ \E i \in timers :
       /\ timers' = timers \ {i}
       /\ IF steps[i].status = "PENDING"
            THEN /\ Goto(h, "escalate") /\ job' = [job EXCEPT ![h].step = i]
                 /\ reassigned' = reassigned + 1
            ELSE UNCHANGED <<pc, job, reassigned>>
  /\ UNCHANGED <<def, status, outcome, current, steps, plan, crashes>>

(* ... and then hands it over, whatever it has become since. *)
HandOver(h) ==
  LET i == job[h].step
      o == steps[i].order
  IN /\ pc[h] = "escalate"
     /\ steps' = Append([steps EXCEPT ![i].status = "ESCALATED"], NewStep(o, def[o].escalateTo))
     /\ Rest(h)
     /\ UNCHANGED <<def, status, outcome, current, timers, reassigned, crashes>>
-----------------------------------------------------------------------------
(* advanceWorkflow reads the request with its steps, and decides. *)
Advance(h) ==
  LET batch == At(current)
  IN /\ pc[h] = "advance"
     /\ UNCHANGED <<request, reassigned, crashes>>
     /\ \/ ~Open /\ Rest(h)
        \/ /\ Open
           /\ \E i \in ReturnedIn(batch) :
                job' = [job EXCEPT ![h] = [NoJob EXCEPT !.decision = steps[i].decision]]
           /\ Goto(h, "close") /\ UNCHANGED plan
        \/ /\ Open /\ ReturnedIn(batch) = {} /\ ~Resolved(def[current], batch)
           /\ Rest(h)
        \/ /\ Open /\ ReturnedIn(batch) = {} /\ Resolved(def[current], batch)
           /\ plan' = [plan EXCEPT ![h] =
                [skip |-> PendingIn(batch), next |-> NextOrder,
                 create |-> IF NextOrder = 0 THEN <<>> ELSE def[NextOrder].approvers]]
           /\ Goto(h, IF PendingIn(batch) # {} THEN "skip"
                      ELSE IF NextOrder = 0 THEN "finish" ELSE "bump")
           /\ job' = [job EXCEPT ![h] = NoJob]

(* The pending siblings of a settled step, as they were read. *)
SkipSiblings(h) ==
  /\ pc[h] = "skip"
  /\ steps' = [i \in DOMAIN steps |->
                 IF i \in plan[h].skip THEN [steps[i] EXCEPT !.status = "SKIPPED"] ELSE steps[i]]
  /\ timers' = timers \ plan[h].skip
  /\ Goto(h, IF plan[h].next = 0 THEN "finish" ELSE "bump")
  /\ UNCHANGED <<def, status, outcome, current, job, plan, reassigned, crashes>>

(* The request is approved only while it is open; the slip that does not ask. *)
FinishesAnyway == TRUE
MayFinish == Open

(* The last order: approved. *)
Finish(h) ==
  /\ pc[h] = "finish"
  /\ IF MayFinish THEN status' = "APPROVED" /\ outcome' = "approved" ELSE UNCHANGED <<status, outcome>>
  /\ Rest(h)
  /\ UNCHANGED <<def, current, steps, timers, reassigned, crashes>>

(* The next order: a plain update of the request, then its steps. *)
Bump(h) ==
  /\ pc[h] = "bump"
  /\ current' = plan[h].next
  /\ Goto(h, "create")
  /\ UNCHANGED <<def, status, outcome, steps, timers, job, plan, reassigned, crashes>>

(* closeRound, one transaction: what is pending is skipped, and the request  *)
(* is closed if it still was open.                                           *)
CloseRound(h) ==
  /\ pc[h] = "close"
  /\ steps' = [i \in DOMAIN steps |->
                 IF steps[i].status = "PENDING" THEN [steps[i] EXCEPT !.status = "SKIPPED"]
                                                ELSE steps[i]]
  /\ timers' = timers \ PendingIn(DOMAIN steps)
  /\ IF Open
       THEN /\ status' = "REJECTED"
            /\ outcome' = IF job[h].decision = "DECLINED" THEN "declined" ELSE "returned"
       ELSE UNCHANGED <<status, outcome>>
  /\ Rest(h)
  /\ UNCHANGED <<def, current, reassigned, crashes>>

(* The process dies: what the handler did so far stays.  An escalation job   *)
(* is retried by the queue, a request is not.                                *)
Crash(h) ==
  LET retried == IF pc[h] = "escalate" THEN {job[h].step} ELSE {}
  IN /\ pc[h] # "idle" /\ crashes < MaxCrashes
     /\ crashes' = crashes + 1
     /\ Rest(h)
     /\ timers' = timers \union retried
     /\ reassigned' = reassigned - Cardinality(retried)
     /\ UNCHANGED <<def, status, outcome, current, steps>>

Work(h) ==
  \/ CreateStep(h) \/ Claim(h) \/ CreateDelegated(h) \/ HandOver(h) \/ Advance(h)
  \/ SkipSiblings(h) \/ Finish(h) \/ Bump(h) \/ CloseRound(h)

DecideSome == \E h \in Handlers, i \in DOMAIN steps : DecideAny(h, i)

Next ==
  \/ DecideSome
  \/ \E h \in Handlers : Submit(h) \/ Delegate(h) \/ Escalate(h) \/ Work(h) \/ Crash(h)

Spec == Init /\ [][Next]_vars

(* A handler that runs goes on; a request is submitted; and those who hold   *)
(* an open step decide it at last, however often the handlers are all busy.  *)
Fairness ==
  /\ \A h \in Handlers : WF_vars(Work(h))
  /\ WF_vars(\E h \in Handlers : Submit(h))
  /\ SF_vars(DecideSome)

FairSpec == Spec /\ Fairness
-----------------------------------------------------------------------------
TypeOK ==
  /\ def \in Definitions
  /\ status \in {"NONE", "PENDING", "APPROVED", "REJECTED"}
  /\ outcome \in {None, "approved", "returned", "declined"}
  /\ current \in 0..Len(def)
  /\ steps \in Seq(StepRow) /\ timers \subseteq DOMAIN steps
  /\ pc \in [Handlers -> PCs]
  /\ reassigned \in 0..MaxReassigned /\ crashes \in 0..MaxCrashes

(* A recorded decision is never overwritten by another: a double click, two  *)
(* holders of a role, a delegation racing an approval (approval-flow.ts).    *)
DecisionStands ==
  [][\A i \in DOMAIN steps :
       steps[i].decision # None => steps'[i].decision = steps[i].decision]_vars

(* The orders somebody approved at, and what was said against the request. *)
Passed == {steps[i].order : i \in ApprovedIn(DOMAIN steps)}
Against == {steps[i].decision : i \in ReturnedIn(DOMAIN steps)}

(* However the handlers interleave, the request goes through its orders as   *)
(* ApprovalRound says.                                                       *)
Round == INSTANCE ApprovalRound WITH orders <- Len(def), passed <- Passed, against <- Against
RoundImplemented == Round!Spec

(* Those asked decide at last, and nobody dies half way: the request closes. *)
RoundCloses == status = "NONE" ~> (status \in {"APPROVED", "REJECTED"} \/ crashes > 0)

(* "Parallel: resolved as soon as requiredApprovals approve", clamped to     *)
(* those who can still approve: an approved request has, at each parallel    *)
(* order, the approvals it asked for or one of every approver named.         *)
EnoughApproved ==
  status = "APPROVED" =>
    \A o \in DOMAIN def :
      def[o].mode = "parallel" =>
        Cardinality(ApprovedIn(At(o))) >=
          Smaller(AtLeastOne(def[o].required), Len(def[o].approvers))
=============================================================================
