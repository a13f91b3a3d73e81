--------------------------- MODULE Approvals_proofs ---------------------------
(***************************************************************************)
(* What Approvals shows of two handlers, two approvers and two definitions,*)
(* for any handlers, people and definitions, and any number of delegations,*)
(* escalations and crashes; of one round, until the request is reset.      *)
(***************************************************************************)
EXTENDS Approvals, FiniteSetTheorems, SequenceTheorems, WellFoundedInduction, TLAPS

-----------------------------------------------------------------------------
(* What holds besides the types.                                             *)

Deciding == Decisions \union {"DELEGATED"}
Jobs  == [step: Nat, user: People \union {None}, decision: Deciding \union {None}]
Plans == [skip: SUBSET Nat, next: Nat, create: Seq(People \union {Pool})]

(* The orders before o were passed; with o = 0, that there is no next order, *)
(* all of them.                                                              *)
Reached(o) == (IF o = 0 THEN DOMAIN def ELSE 1..(o - 1)) \subseteq Passed

(* A step is of an order that was reached; while it is pending nobody        *)
(* decided it, and what it became is what was decided.                       *)
StepsKept ==
  \A i \in DOMAIN steps :
    /\ steps[i].order \in DOMAIN def /\ Reached(steps[i].order)
    /\ steps[i].status = "PENDING" => steps[i].decision = None
    /\ steps[i].status = "APPROVED" => steps[i].decision = "APPROVED"

(* Before it is submitted there is nothing; from then on the request is at   *)
(* an order that was reached.                                                *)
Placed ==
  IF status = "NONE"
    THEN current = 0 /\ steps = <<>> /\ \A h \in Handlers : pc[h] = "idle"
    ELSE current \in DOMAIN def /\ Reached(current)

(* What a handler is about: a step there is; a decision to write, or one     *)
(* that was made; an order that was reached, and whom to ask there.          *)
Busy(h) ==
  /\ pc[h] \in {"claim", "delegated", "escalate"} => job[h].step \in DOMAIN steps
  /\ pc[h] = "claim" => job[h].user \in People /\ job[h].decision \in Deciding
  /\ pc[h] = "escalate" => Escalates(steps[job[h].step].order)
  /\ pc[h] = "close" => job[h].decision \in Against
  /\ pc[h] \in {"skip", "finish", "bump", "create"} =>
       /\ plan[h].next \in 0..Len(def) /\ Reached(plan[h].next)
       /\ plan[h].next # 0 => plan[h].create # <<>>
  /\ pc[h] \in {"bump", "create"} => plan[h].next # 0
  /\ pc[h] = "finish" => plan[h].next = 0

HandlersKept ==
  /\ job \in [Handlers -> Jobs] /\ plan \in [Handlers -> Plans]
  /\ \A h \in Handlers : Busy(h)

TimersKept == \A i \in timers : Escalates(steps[i].order)

(* An escalation under way is one of those counted.                          *)
Escalating == {h \in Handlers : pc[h] = "escalate"}
Counted == IsFiniteSet(Escalating) /\ Cardinality(Escalating) <= reassigned

Inv == TypeOK /\ StepsKept /\ Placed /\ HandlersKept /\ TimersKept /\ Counted

-----------------------------------------------------------------------------
(* Nothing a step does takes back a decision or moves a step to another      *)
(* order.                                                                    *)
Grows ==
  /\ def' = def
  /\ DOMAIN steps \subseteq DOMAIN steps'
  /\ \A i \in DOMAIN steps :
       /\ steps'[i].order = steps[i].order
       /\ steps[i].decision # None => steps'[i].decision = steps[i].decision

(* And most of them decide nothing either.                                   *)
Silent ==
  /\ Grows
  /\ \A i \in DOMAIN steps' :
       steps'[i].decision # None => i \in DOMAIN steps /\ steps[i].decision # None

(* The definition of a request, and what a step of it names.                 *)
LEMMA DefinitionIs ==
  ASSUME def \in Definitions
  PROVE  /\ Len(def) \in Nat \ {0} /\ DOMAIN def = 1..Len(def)
         /\ \A o \in DOMAIN def :
              /\ def[o] \in StepDef
              /\ def[o].approvers \in Seq(People \union {Pool}) /\ def[o].approvers # <<>>
              /\ Escalates(o) => def[o].escalateTo \in People
<1>1. def \in Seq(StepDef) /\ def # <<>> /\ \A o \in DOMAIN def : def[o].approvers # <<>>
  BY DefinitionsAssumption
<1>2. Len(def) \in Nat \ {0} /\ DOMAIN def = 1..Len(def)
  BY <1>1, EmptySeq, LenProperties
<1>3. \A o \in DOMAIN def : def[o] \in StepDef
  BY <1>1, <1>2, ElementOfSeq
<1>. QED
  BY <1>1, <1>2, <1>3 DEF StepDef, Escalates

(* What a step that takes nothing back leaves true.                          *)
LEMMA GrowsKeeps ==
  ASSUME Grows
  PROVE  /\ Passed \subseteq Passed' /\ Against \subseteq Against'
         /\ \A o : Reached(o) => Reached(o)'
<1>1. Passed \subseteq Passed' /\ Against \subseteq Against'
  BY NobodyAssumption DEF Grows, Passed, Against, ApprovedIn, ReturnedIn, Decisions, Negative
<1>. QED
  BY <1>1 DEF Grows, Reached

LEMMA SilentKeeps ==
  ASSUME Silent
  PROVE  Passed' = Passed /\ Against' = Against
<1>1. Passed' \subseteq Passed /\ Against' \subseteq Against
  BY NobodyAssumption DEF Silent, Grows, Passed, Against, ApprovedIn, ReturnedIn, Decisions, Negative
<1>. QED
  BY <1>1, GrowsKeeps DEF Silent

(* The handlers that a step leaves alone are about what they were about.     *)
LEMMA OthersBusy ==
  ASSUME Inv, Grows, NEW h \in Handlers,
         pc'[h] = pc[h], job'[h] = job[h], plan'[h] = plan[h]
  PROVE  Busy(h)'
<1>1. Busy(h)
  BY DEF Inv, HandlersKept
<1>2. job[h].step \in DOMAIN steps => steps'[job[h].step].order = steps[job[h].step].order
  BY DEF Grows
<1>. QED
  BY <1>1, <1>2, GrowsKeeps DEF Busy, Grows, Escalates

(* A step that starts no escalation keeps the count of them.                 *)
LEMMA CountedKept ==
  ASSUME Inv, Escalating' \subseteq Escalating, reassigned' = reassigned
  PROVE  Counted'
<1>1. IsFiniteSet(Escalating) /\ Cardinality(Escalating) <= reassigned /\ reassigned \in Nat
  BY BoundsAssumption DEF Inv, Counted, TypeOK
<1>2. /\ IsFiniteSet(Escalating') /\ Cardinality(Escalating') <= Cardinality(Escalating)
      /\ Cardinality(Escalating) \in Nat /\ Cardinality(Escalating') \in Nat
  BY <1>1, FS_Subset, FS_CardinalityType
<1>. QED
  BY <1>1, <1>2 DEF Counted

LEMMA InitInv == ASSUME Init PROVE Inv
<1>. USE DEF Init
<1>1. TypeOK
  BY DefinitionIs, BoundsAssumption, EmptySeq DEF TypeOK, PCs
<1>2. StepsKept /\ Placed /\ TimersKept
  BY EmptySeq DEF StepsKept, Placed, TimersKept
<1>3. HandlersKept
  <2>1. NoJob \in Jobs
    BY DEF NoJob, Jobs
  <2>2. NoPlan \in Plans
    BY EmptySeq DEF NoPlan, Plans
  <2>. QED
    BY <2>1, <2>2 DEF HandlersKept, Busy
<1>4. Counted
  <2>1. Escalating = {}
    BY DEF Escalating
  <2>. QED
    BY <2>1, FS_EmptySet DEF Counted
<1>. QED
  BY <1>1, <1>2, <1>3, <1>4 DEF Inv
-----------------------------------------------------------------------------
RoundStep == [Round!Next]_(Round!vars)

(* One step keeps the invariant, takes nothing back, and is a step of the    *)
(* round or none.                                                            *)
Good == Inv' /\ Grows /\ RoundStep

(* A new step, last.                                                         *)
LEMMA Appended ==
  ASSUME NEW s \in Seq(StepRow), NEW r \in StepRow
  PROVE  LET t == Append(s, r)
         IN  /\ t \in Seq(StepRow) /\ Len(t) \in Nat /\ Len(t) \in DOMAIN t
             /\ DOMAIN t = DOMAIN s \union {Len(t)} /\ Len(t) \notin DOMAIN s
             /\ t[Len(t)] = r
             /\ \A i \in DOMAIN s : t[i] = s[i]
  OBVIOUS

LEMMA NewStepIs ==
  ASSUME NEW o \in Nat, NEW a \in People \union {Pool}
  PROVE  /\ NewStep(o, a) \in StepRow
         /\ NewStep(o, a).order = o /\ NewStep(o, a).status = "PENDING"
         /\ NewStep(o, a).decision = None
  BY DEF NewStep, StepRow

(* One handler moves.                                                        *)
LEMMA HandlerMoves ==
  ASSUME Inv, Grows, NEW h \in Handlers, Busy(h)',
         job' \in [Handlers -> Jobs], plan' \in [Handlers -> Plans],
         \A g \in Handlers \ {h} : pc'[g] = pc[g] /\ job'[g] = job[g] /\ plan'[g] = plan[g]
  PROVE  HandlersKept'
  BY OthersBusy DEF HandlersKept

LEMMA RestKeeps ==
  ASSUME Inv, Grows, NEW h \in Handlers, Rest(h)
  PROVE  /\ HandlersKept' /\ pc' \in [Handlers -> PCs] /\ Escalating' = Escalating \ {h}
         /\ pc'[h] = "idle"
<1>1. pc \in [Handlers -> PCs] /\ job \in [Handlers -> Jobs] /\ plan \in [Handlers -> Plans]
  BY DEF Inv, TypeOK, HandlersKept
<1>2. NoJob \in Jobs /\ NoPlan \in Plans
  BY EmptySeq DEF NoJob, Jobs, NoPlan, Plans
<1>3. /\ job' \in [Handlers -> Jobs] /\ plan' \in [Handlers -> Plans] /\ pc' \in [Handlers -> PCs]
      /\ pc'[h] = "idle"
      /\ \A g \in Handlers \ {h} : pc'[g] = pc[g] /\ job'[g] = job[g] /\ plan'[g] = plan[g]
  BY <1>1, <1>2 DEF Rest, Goto, PCs
<1>4. Busy(h)'
  BY <1>3 DEF Busy
<1>5. Escalating' = Escalating \ {h}
  BY <1>3 DEF Escalating
<1>. QED
  BY <1>3, <1>4, <1>5, HandlerMoves

(* The steps that are left, skipped, handed over or new are in order.        *)
LEMMA StepsLeft ==
  ASSUME Inv, Silent,
         \A i \in DOMAIN steps : /\ steps'[i].status \in {steps[i].status, "SKIPPED", "ESCALATED"}
                                 /\ steps'[i].decision = steps[i].decision,
         \A i \in DOMAIN steps' \ DOMAIN steps :
           /\ steps'[i].order \in DOMAIN def /\ Reached(steps'[i].order)
           /\ steps'[i].status = "PENDING" /\ steps'[i].decision = None
  PROVE  StepsKept'
<1>1. ASSUME NEW i \in DOMAIN steps'
      PROVE  /\ steps'[i].order \in DOMAIN def' /\ Reached(steps[i].order)'
             /\ steps'[i].status = "PENDING" => steps'[i].decision = None
             /\ steps'[i].status = "APPROVED" => steps'[i].decision = "APPROVED"
  <2>1. Reached(steps'[i].order) => Reached(steps[i].order)'
    BY GrowsKeeps DEF Silent, Reached, Grows
  <2>2. CASE i \in DOMAIN steps
    BY <2>1, <2>2 DEF Inv, StepsKept, Silent, Grows
  <2>3. CASE i \notin DOMAIN steps
    BY <1>1, <2>1, <2>3 DEF Silent, Grows
  <2>. QED
    BY <2>2, <2>3
<1>. QED
  BY <1>1 DEF StepsKept

(* A step that only a handler takes part in.                                 *)
LEMMA Aside ==
  ASSUME Inv, def' = def, steps' = steps
  PROVE  /\ Silent /\ Passed' = Passed /\ Against' = Against
         /\ StepsKept' /\ (steps \in Seq(StepRow))'
<1>1. Silent
  BY DEF Silent, Grows
<1>. QED
  BY <1>1, SilentKeeps, StepsLeft DEF Inv, TypeOK

LEMMA SubmitStep == ASSUME Inv, NEW h \in Handlers, Submit(h) PROVE Good
<1>. USE DEF Submit, Goto, request
<1>1. Silent /\ Passed' = Passed /\ Against' = Against /\ StepsKept' /\ steps' = steps
  BY Aside
<1>2. Len(def) \in Nat \ {0} /\ DOMAIN def = 1..Len(def)
  BY DefinitionIs DEF Inv, TypeOK
<1>3. def[1].approvers \in Seq(People \union {Pool}) /\ def[1].approvers # <<>>
  BY <1>2, DefinitionIs DEF Inv, TypeOK
<1>4. TypeOK'
  BY <1>1, <1>2 DEF Inv, TypeOK, PCs
<1>5. Reached(1) /\ Reached(1)'
  BY DEF Reached
<1>6. Placed'
  BY <1>2, <1>5 DEF Placed
<1>7. HandlersKept'
  <2>1. plan' \in [Handlers -> Plans] /\ plan'[h].next = 1 /\ plan'[h].create # <<>>
    BY <1>3 DEF Inv, HandlersKept, Plans
  <2>2. pc'[h] = "create" /\ job' \in [Handlers -> Jobs]
    BY DEF Inv, TypeOK, HandlersKept
  <2>3. Busy(h)'
    BY <1>2, <1>5, <2>1, <2>2 DEF Busy
  <2>. QED
    BY <1>1, <2>1, <2>2, <2>3, HandlerMoves DEF Inv, TypeOK, HandlersKept, Silent
<1>8. Counted' /\ TimersKept'
  BY CountedKept DEF Inv, TypeOK, Escalating, TimersKept, Escalates
<1>9. RoundStep
  BY <1>1 DEF RoundStep, Round!Next, Round!Submit
<1>. QED
  BY <1>1, <1>4, <1>6, <1>7, <1>8, <1>9 DEF Good, Inv, Silent

(* A new step is created, and its handler may have more to do.               *)
LEMMA AddedStep ==
  ASSUME Inv, NEW o \in DOMAIN def, NEW a \in People \union {Pool}, Reached(o),
         NEW s \in Seq(StepRow), DOMAIN s = DOMAIN steps,
         \A i \in DOMAIN steps : /\ s[i].order = steps[i].order /\ s[i].decision = steps[i].decision
                                 /\ s[i].status \in {steps[i].status, "ESCALATED"},
         def' = def, steps' = Append(s, NewStep(o, a))
  PROVE  /\ Silent /\ Passed' = Passed /\ Against' = Against /\ StepsKept'
         /\ steps' \in Seq(StepRow) /\ Len(steps') \in DOMAIN steps'
         /\ DOMAIN steps \subseteq DOMAIN steps' /\ steps'[Len(steps')].order = o
<1>1. o \in Nat
  BY DefinitionIs DEF Inv, TypeOK
<1>2. /\ steps' \in Seq(StepRow) /\ Len(steps') \in DOMAIN steps'
      /\ DOMAIN steps' = DOMAIN steps \union {Len(steps')} /\ Len(steps') \notin DOMAIN steps
      /\ steps'[Len(steps')] = NewStep(o, a)
      /\ \A i \in DOMAIN steps : steps'[i] = s[i]
  BY <1>1, NewStepIs, Appended
<1>3. NewStep(o, a).order = o /\ NewStep(o, a).status = "PENDING" /\ NewStep(o, a).decision = None
  BY <1>1, NewStepIs
<1>4. Silent
  BY <1>2, <1>3 DEF Silent, Grows
<1>5. StepsKept'
  BY <1>2, <1>3, <1>4, StepsLeft
<1>. QED
  BY <1>2, <1>3, <1>4, <1>5, SilentKeeps

LEMMA CreateStepStep == ASSUME Inv, NEW h \in Handlers, CreateStep(h) PROVE Good
<1>. USE DEF CreateStep
<1>. DEFINE o == plan[h].next
            a == Head(plan[h].create)
<1>1. /\ o \in DOMAIN def /\ Reached(o) /\ o # 0 /\ plan[h] \in Plans
      /\ plan[h].create \in Seq(People \union {Pool}) /\ plan[h].create # <<>>
  BY DefinitionIs DEF Inv, TypeOK, HandlersKept, Busy, Plans
<1>2. a \in People \union {Pool} /\ Tail(plan[h].create) \in Seq(People \union {Pool})
      /\ Len(Tail(plan[h].create)) = Len(plan[h].create) - 1 /\ Len(plan[h].create) \in Nat \ {0}
  BY <1>1, HeadTailProperties, EmptySeq
<1>3. /\ Silent /\ Passed' = Passed /\ Against' = Against /\ StepsKept'
      /\ steps' \in Seq(StepRow) /\ Len(steps') \in DOMAIN steps'
      /\ DOMAIN steps \subseteq DOMAIN steps' /\ steps'[Len(steps')].order = o
  <2>1. steps \in Seq(StepRow) /\ def' = def /\ steps' = Append(steps, NewStep(o, a))
    BY DEF Inv, TypeOK
  <2>. QED
    BY <1>1, <1>2, <2>1, AddedStep
<1>4. /\ HandlersKept' /\ Escalating' \subseteq Escalating /\ pc' \in [Handlers -> PCs]
      /\ pc'[h] \in {"idle", "create"}
      /\ \A g \in Handlers \ {h} : pc'[g] = pc[g]
  <2>1. CASE Len(plan[h].create) = 1
    BY <1>3, <2>1, RestKeeps DEF Silent, Rest, Goto, Inv, TypeOK
  <2>2. CASE Len(plan[h].create) # 1
    <3>1. /\ plan' = [plan EXCEPT ![h].create = Tail(plan[h].create)] /\ pc' = pc /\ job' = job
      BY <2>2
    <3>2. plan' \in [Handlers -> Plans] /\ plan'[h].next = o /\ plan'[h].create = Tail(plan[h].create)
      BY <1>1, <1>2, <3>1 DEF Inv, HandlersKept, Plans
    <3>3. Tail(plan[h].create) # <<>>
      <4>1. Len(Tail(plan[h].create)) # 0
        BY <1>2, <2>2
      <4>. QED
        BY <4>1, EmptySeq
    <3>4. Busy(h)'
      BY <1>1, <1>3, <3>1, <3>2, <3>3, GrowsKeeps DEF Inv, HandlersKept, Busy, Silent, Grows
    <3>. QED
      BY <1>3, <3>1, <3>2, <3>4, HandlerMoves DEF Inv, TypeOK, HandlersKept, Silent, Escalating
  <2>. QED
    BY <2>1, <2>2
<1>5. status # "NONE"
  BY DEF Inv, Placed
<1>6. TypeOK'
  BY <1>3, <1>4 DEF Inv, TypeOK
<1>7. Placed'
  BY <1>3, <1>5, GrowsKeeps DEF Inv, Placed, Silent, Grows
<1>8. TimersKept'
  BY <1>3 DEF Inv, TypeOK, TimersKept, Silent, Grows, Escalates
<1>9. Counted'
  BY <1>4, CountedKept
<1>10. RoundStep
  BY <1>3 DEF RoundStep, Round!vars
<1>. QED
  BY <1>3, <1>4, <1>6, <1>7, <1>8, <1>9, <1>10 DEF Good, Inv, Silent

(* A decision, made of a step that is pending.                               *)
LEMMA DecideStep ==
  ASSUME Inv, NEW h \in Handlers, NEW i \in DOMAIN steps, NEW user \in People,
         NEW decision \in Deciding, Decide(h, i, user, decision),
         reassigned' \in reassigned..MaxReassigned
  PROVE  Good
<1>. USE DEF Decide, Goto, request
<1>1. Silent /\ Passed' = Passed /\ Against' = Against /\ StepsKept' /\ steps' = steps
  BY Aside
<1>2. i \in Nat
  BY LenProperties DEF Inv, TypeOK
<1>3. HandlersKept' /\ pc'[h] = "claim"
  <2>1. /\ job' \in [Handlers -> Jobs] /\ job'[h].step = i /\ job'[h].user = user
        /\ job'[h].decision = decision /\ pc'[h] = "claim"
    BY <1>2 DEF Inv, TypeOK, HandlersKept, Jobs
  <2>2. Busy(h)'
    BY <1>1, <2>1 DEF Busy
  <2>. QED
    BY <1>1, <2>1, <2>2, HandlerMoves DEF Inv, TypeOK, HandlersKept, Silent
<1>4. TypeOK'
  BY <1>1, BoundsAssumption DEF Inv, TypeOK, PCs
<1>5. Placed'
  BY <1>1, GrowsKeeps DEF Inv, Placed, Open, Silent
<1>6. TimersKept' /\ Counted'
  <2>1. Escalating' = Escalating
    BY DEF Inv, TypeOK, Escalating
  <2>2. Cardinality(Escalating) \in Nat
    BY FS_CardinalityType DEF Inv, Counted
  <2>. QED
    BY <1>1, <2>1, <2>2, BoundsAssumption DEF Inv, TypeOK, Counted, TimersKept, Escalates
<1>7. RoundStep
  BY <1>1 DEF RoundStep, Round!vars
<1>. QED
  BY <1>1, <1>3, <1>4, <1>5, <1>6, <1>7 DEF Good, Inv, Silent

LEMMA CreateDelegatedStep == ASSUME Inv, NEW h \in Handlers, CreateDelegated(h) PROVE Good
<1>. USE DEF CreateDelegated
<1>1. job[h].step \in DOMAIN steps
  BY DEF Inv, HandlersKept, Busy
<1>. DEFINE o == steps[job[h].step].order
<1>2. o \in DOMAIN def /\ Reached(o) /\ steps \in Seq(StepRow)
  BY <1>1 DEF Inv, StepsKept, TypeOK
<1>3. PICK user \in People : steps' = Append(steps, NewStep(o, user))
  OBVIOUS
<1>4. /\ Silent /\ Passed' = Passed /\ Against' = Against /\ StepsKept'
      /\ steps' \in Seq(StepRow) /\ DOMAIN steps \subseteq DOMAIN steps'
  BY <1>2, <1>3, AddedStep
<1>5. HandlersKept' /\ pc' \in [Handlers -> PCs] /\ Escalating' \subseteq Escalating
  BY <1>4, RestKeeps DEF Silent
<1>6. TypeOK' /\ Placed'
  BY <1>4, <1>5, GrowsKeeps DEF Inv, TypeOK, Placed, Silent, Grows
<1>7. TimersKept' /\ Counted'
  BY <1>4, <1>5, CountedKept DEF Inv, TypeOK, TimersKept, Silent, Grows, Escalates
<1>8. RoundStep
  BY <1>4 DEF RoundStep, Round!vars
<1>. QED
  BY <1>4, <1>5, <1>6, <1>7, <1>8 DEF Good, Inv, Silent

(* The decision is written, or the handler finds it was made already.        *)
LEMMA ClaimStep == ASSUME Inv, NEW h \in Handlers, Claim(h) PROVE Good
<1>. USE DEF Claim, Goto
<1>. DEFINE i == job[h].step
            d == job[h].decision
<1>1. /\ i \in DOMAIN steps /\ job[h].user \in People /\ d \in Deciding
      /\ steps \in Seq(StepRow) /\ steps[i] \in StepRow
  <2>1. i \in DOMAIN steps /\ job[h].user \in People /\ d \in Deciding /\ steps \in Seq(StepRow)
    BY DEF Inv, HandlersKept, Busy, TypeOK
  <2>. QED
    BY <2>1, ElementOfSeq, LenProperties
<1>4. def' = def /\ status' = status /\ outcome' = outcome
  OBVIOUS
<1>2. CASE ~StillPending(i)
  <2>1. Silent /\ Passed' = Passed /\ Against' = Against /\ StepsKept' /\ steps' = steps /\ timers' = timers
    BY <1>2, Aside
  <2>2. HandlersKept' /\ pc' \in [Handlers -> PCs] /\ Escalating' \subseteq Escalating
    BY <1>2, <2>1, RestKeeps DEF Silent
  <2>3. TypeOK' /\ Placed'
    BY <2>1, <2>2, GrowsKeeps DEF Inv, TypeOK, Placed, Silent, Grows
  <2>4. TimersKept' /\ Counted'
    BY <2>1, <2>2, CountedKept DEF Inv, TypeOK, TimersKept, Silent, Grows, Escalates
  <2>5. RoundStep
    BY <2>1 DEF RoundStep, Round!vars
  <2>. QED
    BY <2>1, <2>2, <2>3, <2>4, <2>5 DEF Good, Inv, Silent
<1>3. CASE StillPending(i)
  <2>1. steps[i].decision = None /\ steps[i].order \in DOMAIN def /\ Reached(steps[i].order)
    BY <1>1, <1>3 DEF StillPending, Inv, StepsKept
  <2>2. /\ steps' = [steps EXCEPT ![i].approver = job[h].user, ![i].status = d, ![i].decision = d]
        /\ timers' = timers \ {i} /\ job' = job
        /\ pc' = [pc EXCEPT ![h] = IF d = "DELEGATED" THEN "delegated" ELSE "advance"]
    BY <1>3
  <2>3. /\ steps' \in Seq(StepRow) /\ DOMAIN steps' = DOMAIN steps
        /\ steps'[i].order = steps[i].order /\ steps'[i].status = d /\ steps'[i].decision = d
        /\ \A j \in DOMAIN steps \ {i} : steps'[j] = steps[j]
    <3>. DEFINE r == [steps[i] EXCEPT !.approver = job[h].user, !.status = d, !.decision = d]
    <3>1. r \in StepRow /\ r.order = steps[i].order /\ r.status = d /\ r.decision = d
      BY <1>1 DEF StepRow, Deciding, Decisions
    <3>2. steps' = [steps EXCEPT ![i] = r]
      BY <1>1, <2>2
    <3>. HIDE DEF r
    <3>. QED
      BY <1>1, <3>1, <3>2, ExceptSeq, LenProperties
  <2>4. Grows
    BY <2>1, <2>3 DEF Grows
  <2>5. StepsKept'
    <3>1. ASSUME NEW j \in DOMAIN steps'
          PROVE  /\ steps'[j].order \in DOMAIN def' /\ Reached(steps[j].order)'
                 /\ steps'[j].status = "PENDING" => steps'[j].decision = None
                 /\ steps'[j].status = "APPROVED" => steps'[j].decision = "APPROVED"
      <4>1. Reached(steps'[j].order) => Reached(steps[j].order)'
        BY <2>4, GrowsKeeps DEF Reached, Grows
      <4>2. CASE j = i
        BY <1>1, <2>1, <2>3, <2>4, <4>1, <4>2 DEF Grows, Deciding, Decisions
      <4>3. CASE j # i
        BY <2>3, <2>4, <4>1, <4>3 DEF Inv, StepsKept, Grows
      <4>. QED
        BY <4>2, <4>3
    <3>. QED
      BY <3>1 DEF StepsKept
  <2>6. HandlersKept' /\ pc' \in [Handlers -> PCs] /\ Escalating' \subseteq Escalating
    <3>1. /\ pc' \in [Handlers -> PCs] /\ pc'[h] \in {"delegated", "advance"}
          /\ \A g \in Handlers \ {h} : pc'[g] = pc[g]
      BY <2>2 DEF Inv, TypeOK, PCs
    <3>2. Busy(h)'
      BY <1>1, <2>2, <2>3, <3>1 DEF Busy
    <3>. QED
      BY <2>2, <2>4, <3>1, <3>2, HandlerMoves DEF Inv, HandlersKept, Escalating
  <2>7. status # "NONE"
    BY DEF Inv, Placed
  <2>8. TypeOK' /\ Placed'
    BY <2>2, <2>3, <2>4, <2>6, <2>7, GrowsKeeps DEF Inv, TypeOK, Placed, Grows
  <2>9. TimersKept' /\ Counted'
    BY <2>2, <2>4, <2>6, CountedKept DEF Inv, TypeOK, TimersKept, Grows, Escalates
  <2>10. ASSUME d = "APPROVED" PROVE RoundStep
    <3>. DEFINE o == steps[i].order
    <3>1. Passed' = Passed \union {o} /\ Against' = Against
      BY <1>1, <2>1, <2>3, <2>10, NobodyAssumption
      DEF Passed, Against, ApprovedIn, ReturnedIn, Decisions, Negative
    <3>2. o \in 1..Len(def) /\ \A x \in 1..(o - 1) : x \in Passed
      BY <2>1, DefinitionIs DEF Reached, Inv, TypeOK
    <3>3. Round!Approve
      BY <1>4, <2>7, <3>1, <3>2 DEF Round!Approve
    <3>. QED
      BY <3>3 DEF RoundStep, Round!Next
  <2>11. ASSUME d \in Negative PROVE RoundStep
    <3>1. Passed' = Passed /\ Against' = Against \union {d}
      BY <1>1, <2>1, <2>3, <2>11, NobodyAssumption
      DEF Passed, Against, ApprovedIn, ReturnedIn, Decisions, Negative
    <3>2. Round!Object
      BY <1>4, <2>7, <2>11, <3>1 DEF Round!Object, Negative
    <3>. QED
      BY <3>2 DEF RoundStep, Round!Next
  <2>12. ASSUME d = "DELEGATED" PROVE RoundStep
    <3>1. Passed' = Passed /\ Against' = Against
      BY <1>1, <2>1, <2>3, <2>12, NobodyAssumption, SMTT(30)
      DEF Passed, Against, ApprovedIn, ReturnedIn, Decisions, Negative
    <3>. QED
      BY <1>4, <3>1 DEF RoundStep, Round!vars
  <2>13. RoundStep
    BY <1>1, <2>10, <2>11, <2>12 DEF Deciding, Decisions, Negative
  <2>. QED
    BY <2>4, <2>5, <2>6, <2>8, <2>9, <2>13 DEF Good, Inv
<1>. QED
  BY <1>2, <1>3

LEMMA EscalateStep == ASSUME Inv, NEW h \in Handlers, Escalate(h) PROVE Good
<1>. USE DEF Escalate, Goto
<1>1. PICK i \in timers :
        /\ timers' = timers \ {i}
        /\ IF steps[i].status = "PENDING"
             THEN /\ pc' = [pc EXCEPT ![h] = "escalate"] /\ job' = [job EXCEPT ![h].step = i]
                  /\ reassigned' = reassigned + 1
             ELSE pc' = pc /\ job' = job /\ reassigned' = reassigned
  OBVIOUS
<1>2. Silent /\ Passed' = Passed /\ Against' = Against /\ StepsKept' /\ steps' = steps
  BY Aside
<1>3. i \in DOMAIN steps /\ i \in Nat /\ Escalates(steps[i].order)
  BY <1>1, LenProperties DEF Inv, TypeOK, TimersKept
<1>4. TypeOK'
  BY <1>1, <1>2, BoundsAssumption DEF Inv, TypeOK, PCs
<1>5. Placed'
  <2>1. status # "NONE"
    BY <1>3 DEF Inv, Placed
  <2>. QED
    BY <1>2, <2>1, GrowsKeeps DEF Inv, Placed, Silent
<1>6. TimersKept'
  BY <1>1, <1>2 DEF Inv, TypeOK, TimersKept, Escalates
<1>7. HandlersKept'
  <2>1. CASE steps[i].status = "PENDING"
    <3>1. /\ job' \in [Handlers -> Jobs] /\ job'[h].step = i /\ pc'[h] = "escalate"
      <4>1. job \in [Handlers -> Jobs] /\ pc \in [Handlers -> PCs]
        BY DEF Inv, TypeOK, HandlersKept
      <4>2. job' = [job EXCEPT ![h].step = i] /\ pc' = [pc EXCEPT ![h] = "escalate"]
        BY <1>1, <2>1
      <4>. QED
        BY <1>3, <4>1, <4>2 DEF Jobs
    <3>2. Busy(h)'
      BY <1>2, <1>3, <3>1 DEF Busy, Escalates
    <3>. QED
      BY <1>1, <1>2, <2>1, <3>1, <3>2, HandlerMoves DEF Inv, TypeOK, HandlersKept, Silent
  <2>2. CASE steps[i].status # "PENDING"
    BY <1>1, <1>2, <2>2, OthersBusy DEF Inv, HandlersKept, Silent
  <2>. QED
    BY <2>1, <2>2
<1>8. Counted'
  <2>1. CASE steps[i].status = "PENDING"
    <3>1. Escalating' = Escalating \union {h} /\ h \notin Escalating
      BY <1>1, <2>1 DEF Inv, TypeOK, Escalating
    <3>2. /\ IsFiniteSet(Escalating') /\ Cardinality(Escalating') = Cardinality(Escalating) + 1
          /\ Cardinality(Escalating) \in Nat
      BY <3>1, FS_AddElement, FS_CardinalityType DEF Inv, Counted
    <3>. QED
      BY <1>1, <2>1, <3>2, BoundsAssumption DEF Inv, TypeOK, Counted
  <2>2. CASE steps[i].status # "PENDING"
    BY <1>1, <2>2, CountedKept DEF Escalating
  <2>. QED
    BY <2>1, <2>2
<1>9. RoundStep
  BY <1>2 DEF RoundStep, Round!vars
<1>. QED
  BY <1>2, <1>4, <1>5, <1>6, <1>7, <1>8, <1>9 DEF Good, Inv, Silent

LEMMA HandOverStep == ASSUME Inv, NEW h \in Handlers, HandOver(h) PROVE Good
<1>. USE DEF HandOver
<1>. DEFINE i == job[h].step
            o == steps[i].order
            s == [steps EXCEPT ![i].status = "ESCALATED"]
<1>1. i \in DOMAIN steps /\ Escalates(o) /\ steps \in Seq(StepRow)
  BY DEF Inv, HandlersKept, Busy, TypeOK
<1>2. o \in DOMAIN def /\ Reached(o) /\ def[o].escalateTo \in People /\ steps[i] \in StepRow
  BY <1>1, DefinitionIs, ElementOfSeq, LenProperties DEF Inv, StepsKept, TypeOK
<1>3. /\ s \in Seq(StepRow) /\ DOMAIN s = DOMAIN steps
      /\ \A j \in DOMAIN steps : /\ s[j].order = steps[j].order /\ s[j].decision = steps[j].decision
                                 /\ s[j].status \in {steps[j].status, "ESCALATED"}
  <2>1. [steps[i] EXCEPT !.status = "ESCALATED"] \in StepRow
    BY <1>2 DEF StepRow
  <2>2. s = [steps EXCEPT ![i] = [steps[i] EXCEPT !.status = "ESCALATED"]]
    OBVIOUS
  <2>3. s \in Seq(StepRow) /\ DOMAIN s = DOMAIN steps
    BY <1>1, <2>1, <2>2, ExceptSeq, LenProperties
  <2>. QED
    BY <1>1, <1>2, <2>3 DEF StepRow
<1>4. /\ Silent /\ Passed' = Passed /\ Against' = Against /\ StepsKept'
      /\ steps' \in Seq(StepRow) /\ DOMAIN steps \subseteq DOMAIN steps'
  <2>1. steps' = Append(s, NewStep(o, def[o].escalateTo)) /\ def' = def
    OBVIOUS
  <2>. HIDE DEF s, o
  <2>. QED
    BY <1>2, <1>3, <2>1, AddedStep
<1>5. HandlersKept' /\ pc' \in [Handlers -> PCs] /\ Escalating' \subseteq Escalating
  BY <1>4, RestKeeps DEF Silent
<1>6. TypeOK' /\ Placed'
  BY <1>4, <1>5, GrowsKeeps DEF Inv, TypeOK, Placed, Silent, Grows
<1>7. TimersKept' /\ Counted'
  BY <1>4, <1>5, CountedKept DEF Inv, TypeOK, TimersKept, Silent, Grows, Escalates
<1>8. RoundStep
  BY <1>4 DEF RoundStep, Round!vars
<1>. QED
  BY <1>4, <1>5, <1>6, <1>7, <1>8 DEF Good, Inv, Silent
-----------------------------------------------------------------------------
(* What advanceWorkflow decides from.                                        *)

(* Numbers, some of them, have a least.                                      *)
LEMMA Least ==
  ASSUME NEW S, S \subseteq Nat, S # {}
  PROVE  \E m \in S : \A x \in S : m <= x
<1>. DEFINE T == {0..x : x \in S}
<1>1. T \subseteq FiniteSubsetsOf(Nat) /\ T # {}
  <2>1. ASSUME NEW x \in S PROVE 0..x \in FiniteSubsetsOf(Nat)
    <3>1. IsFiniteSet(0..x)
      BY FS_Interval
    <3>2. 0..x \in SUBSET Nat
      OBVIOUS
    <3>. QED
      BY <3>1, <3>2 DEF FiniteSubsetsOf
  <2>. QED
    BY <2>1
<1>2. PICK y \in T : \A z \in T : <<z, y>> \notin StrictSubsetOrdering(Nat)
  <2>. HIDE DEF T
  <2>. QED
    BY <1>1, FS_StrictSubsetOrderingWellFounded, WFMin
<1>3. PICK m \in S : y = 0..m
  OBVIOUS
<1>4. ASSUME NEW x \in S PROVE m <= x
  <2>1. ~((0..x) \subseteq (0..m) /\ 0..x # 0..m)
    <3>1. <<0..x, 0..m>> \in (SUBSET Nat) \X (SUBSET Nat)
      OBVIOUS
    <3>2. <<0..x, 0..m>> \notin StrictSubsetOrdering(Nat)
      BY <1>2, <1>3
    <3>. QED
      BY <3>1, <3>2, Zenon DEF StrictSubsetOrdering
  <2>. QED
    BY <2>1
<1>. QED
  BY <1>4

(* A resolved order has an approval: none is asked of nobody.                *)
LEMMA ResolvedIs ==
  ASSUME NEW d \in StepDef, NEW S, IsFiniteSet(S), Resolved(d, S)
  PROVE  ApprovedIn(S) # {}
<1> SUFFICES ASSUME ApprovedIn(S) = {}, d.mode = "parallel" PROVE FALSE
  BY DEF Resolved
<1>1. Cardinality(ApprovedIn(S)) = 0 /\ Cardinality(PendingIn(S)) \in Nat
  <2>1. PendingIn(S) \in SUBSET S
    BY DEF PendingIn
  <2>2. IsFiniteSet(PendingIn(S))
    BY <2>1, FS_Subset
  <2>. QED
    BY <2>2, FS_EmptySet, FS_CardinalityType
<1>2. d.required \in Nat
  BY DEF StepDef
<1>3. Required(d, S) \in Nat \ {0}
  BY <1>1, <1>2 DEF Required, AtLeastOne, Smaller
<1>. QED
  BY <1>1, <1>2, <1>3 DEF Resolved

(* The next order is one whose approval does not stand, and the first.       *)
LEMMA NextOrderIs ==
  ASSUME def \in Definitions
  PROVE  /\ NextOrder \in 0..Len(def)
         /\ \A o \in DOMAIN def :
              o > current /\ (NextOrder = 0 \/ o < NextOrder) => StillApproved(o)
<1>. DEFINE later == {o \in DOMAIN def : o > current /\ ~StillApproved(o)}
<1>1. Len(def) \in Nat /\ DOMAIN def = 1..Len(def)
  BY DefinitionIs
<1>2. NextOrder = IF later = {} THEN 0 ELSE CHOOSE o \in later : \A x \in later : o <= x
  BY DEF NextOrder
<1>3. CASE later = {}
  BY <1>1, <1>2, <1>3
<1>4. CASE later # {}
  <2>1. \E o \in later : \A x \in later : o <= x
    <3>1. later \subseteq Nat
      BY <1>1
    <3>. HIDE DEF later
    <3>. QED
      BY <1>4, <3>1, Least
  <2>2. NextOrder \in later /\ \A x \in later : NextOrder <= x
    <3>. HIDE DEF later
    <3>. QED
      BY <1>2, <1>4, <2>1
  <2>. QED
    BY <1>1, <2>2
<1>. QED
  BY <1>3, <1>4

(* So every order before it was passed.                                      *)
LEMMA NextReached ==
  ASSUME Inv, Open, Resolved(def[current], At(current))
  PROVE  NextOrder \in 0..Len(def) /\ Reached(NextOrder)
<1>1. /\ def \in Definitions /\ DOMAIN def = 1..Len(def) /\ Len(def) \in Nat
      /\ current \in DOMAIN def /\ Reached(current) /\ def[current] \in StepDef
  BY DefinitionIs DEF Inv, TypeOK, Open, Placed
<1>2. NextOrder \in 0..Len(def)
  BY <1>1, NextOrderIs
<1>3. ASSUME NEW x \in DOMAIN def, NextOrder = 0 \/ x < NextOrder
      PROVE  x \in Passed
  <2>1. CASE x < current
    BY <1>1, <2>1 DEF Reached
  <2>2. CASE x = current
    <3>1. IsFiniteSet(At(current))
      <4>1. DOMAIN steps = 1..Len(steps) /\ Len(steps) \in Nat
        BY LenProperties DEF Inv, TypeOK
      <4>2. IsFiniteSet(DOMAIN steps)
        BY <4>1, FS_Interval
      <4>. QED
        BY <4>2, FS_Subset DEF At
    <3>2. ApprovedIn(At(current)) # {}
      BY <1>1, <3>1, ResolvedIs
    <3>. QED
      BY <2>2, <3>2 DEF ApprovedIn, At, Passed
  <2>3. CASE x > current
    <3>1. StillApproved(x)
      BY <1>1, <1>3, <2>3, NextOrderIs
    <3>2. PICK i \in At(x) : steps[i].status = "APPROVED"
      BY <3>1 DEF StillApproved
    <3>. QED
      BY <3>2 DEF At, Inv, StepsKept, ApprovedIn, Passed
  <2>. QED
    BY <1>1, <2>1, <2>2, <2>3
<1>4. Reached(NextOrder)
  BY <1>1, <1>2, <1>3 DEF Reached
<1>. QED
  BY <1>2, <1>4

(* Skipping some steps changes their status only.                            *)
Skipped(s, S) ==
  [i \in DOMAIN s |-> IF i \in S THEN [s[i] EXCEPT !.status = "SKIPPED"] ELSE s[i]]

LEMMA SkippedSteps ==
  ASSUME NEW s \in Seq(StepRow), NEW S, NEW t, t = Skipped(s, S)
  PROVE  /\ t \in Seq(StepRow) /\ DOMAIN t = DOMAIN s
         /\ \A i \in DOMAIN s :
              /\ t[i].order = s[i].order /\ t[i].decision = s[i].decision
              /\ t[i].status \in {s[i].status, "SKIPPED"}
<1>. DEFINE e(i) == IF i \in S THEN [s[i] EXCEPT !.status = "SKIPPED"] ELSE s[i]
<1>0. t = [i \in DOMAIN s |-> e(i)]
  BY DEF Skipped
<1>1. DOMAIN s = 1..Len(s) /\ Len(s) \in Nat
  BY LenProperties
<1>2. \A i \in 1..Len(s) :
        /\ e(i) \in StepRow /\ e(i).order = s[i].order /\ e(i).decision = s[i].decision
        /\ e(i).status \in {s[i].status, "SKIPPED"}
  <2>1. \A i \in 1..Len(s) : s[i] \in StepRow
    BY ElementOfSeq
  <2>. QED
    BY <2>1 DEF StepRow
<1>. HIDE DEF e
<1>3. t \in Seq(StepRow)
  BY <1>0, <1>1, <1>2
<1>4. DOMAIN t = DOMAIN s /\ \A i \in DOMAIN s : t[i] = e(i)
  BY <1>0
<1>. QED
  BY <1>1, <1>2, <1>3, <1>4

LEMMA AdvanceStep == ASSUME Inv, NEW h \in Handlers, Advance(h) PROVE Good
<1>. USE DEF request
<1>. DEFINE batch == At(current)
<1>1. /\ pc[h] = "advance" /\ def' = def /\ status' = status /\ outcome' = outcome
      /\ current' = current /\ steps' = steps /\ timers' = timers
      /\ reassigned' = reassigned /\ crashes' = crashes
  BY DEF Advance
<1>2. Silent /\ Passed' = Passed /\ Against' = Against /\ StepsKept'
  BY <1>1, Aside
<1>3. Placed'
  <2>1. status # "NONE"
    BY <1>1 DEF Inv, Placed
  <2>. QED
    BY <1>1, <1>2, <2>1, GrowsKeeps DEF Inv, Placed, Silent
<1>4. TimersKept' /\ RoundStep
  BY <1>1, <1>2 DEF Inv, TypeOK, TimersKept, Escalates, RoundStep, Round!vars
<1>5. pc \in [Handlers -> PCs] /\ job \in [Handlers -> Jobs] /\ plan \in [Handlers -> Plans]
  BY DEF Inv, TypeOK, HandlersKept
<1>6. CASE Rest(h)
  <2>1. HandlersKept' /\ pc' \in [Handlers -> PCs] /\ Escalating' \subseteq Escalating
    BY <1>2, <1>6, RestKeeps DEF Silent
  <2>2. TypeOK'
    BY <1>1, <2>1 DEF Inv, TypeOK
  <2>3. Counted'
    BY <1>1, <2>1, CountedKept
  <2>. QED
    BY <1>2, <1>3, <1>4, <2>1, <2>2, <2>3 DEF Good, Inv, Silent
<1>7. ASSUME pc' \in [Handlers -> PCs], \A g \in Handlers \ {h} : pc'[g] = pc[g],
             pc'[h] # "escalate", HandlersKept'
      PROVE  Good
  <2>1. TypeOK'
    BY <1>1, <1>7 DEF Inv, TypeOK
  <2>2. Counted'
    BY <1>1, <1>7, CountedKept DEF Escalating
  <2>. QED
    BY <1>2, <1>3, <1>4, <1>7, <2>1, <2>2 DEF Good, Inv, Silent
<1>8. CASE /\ \E i \in ReturnedIn(batch) :
                job' = [job EXCEPT ![h] = [NoJob EXCEPT !.decision = steps[i].decision]]
           /\ Goto(h, "close") /\ UNCHANGED plan
  <2>1. PICK i \in ReturnedIn(batch) :
          job' = [job EXCEPT ![h] = [NoJob EXCEPT !.decision = steps[i].decision]]
    BY <1>8
  <2>2. i \in DOMAIN steps /\ steps[i].decision \in Negative /\ steps[i].decision \in Against
    BY DEF ReturnedIn, At, Against
  <2>3. [NoJob EXCEPT !.decision = steps[i].decision] \in Jobs
    BY <2>2 DEF NoJob, Jobs, Deciding, Decisions, Negative
  <2>4. /\ job' \in [Handlers -> Jobs] /\ job'[h].decision = steps[i].decision
        /\ \A g \in Handlers \ {h} : job'[g] = job[g]
    BY <1>5, <2>1, <2>3 DEF NoJob
  <2>5. /\ pc' \in [Handlers -> PCs] /\ pc'[h] = "close" /\ plan' = plan
        /\ \A g \in Handlers \ {h} : pc'[g] = pc[g]
    BY <1>5, <1>8 DEF Goto, PCs
  <2>6. Busy(h)'
    BY <1>2, <2>2, <2>4, <2>5 DEF Busy
  <2>. QED
    BY <1>2, <1>5, <1>7, <2>4, <2>5, <2>6, HandlerMoves DEF Silent
<1>9. CASE /\ Open /\ Resolved(def[current], batch)
           /\ plan' = [plan EXCEPT ![h] =
                [skip |-> PendingIn(batch), next |-> NextOrder,
                 create |-> IF NextOrder = 0 THEN <<>> ELSE def[NextOrder].approvers]]
           /\ Goto(h, IF PendingIn(batch) # {} THEN "skip"
                      ELSE IF NextOrder = 0 THEN "finish" ELSE "bump")
           /\ job' = [job EXCEPT ![h] = NoJob]
  <2>. DEFINE p == [skip |-> PendingIn(batch), next |-> NextOrder,
                    create |-> IF NextOrder = 0 THEN <<>> ELSE def[NextOrder].approvers]
  <2>1. NextOrder \in 0..Len(def) /\ Reached(NextOrder)
    BY <1>9, NextReached
  <2>2. p.create \in Seq(People \union {Pool}) /\ (NextOrder # 0 => p.create # <<>>)
    <3>1. CASE NextOrder = 0
      BY <3>1, EmptySeq
    <3>2. CASE NextOrder # 0
      <4>1. NextOrder \in DOMAIN def /\ p.create = def[NextOrder].approvers
        BY <2>1, <3>2, DefinitionIs DEF Inv, TypeOK
      <4>. QED
        BY <4>1, DefinitionIs DEF Inv, TypeOK
    <3>. QED
      BY <3>1, <3>2
  <2>3. p \in Plans
    <3>1. PendingIn(batch) \in SUBSET Nat
      BY LenProperties DEF PendingIn, At, Inv, TypeOK
    <3>2. NextOrder \in Nat
      BY <2>1, DefinitionIs DEF Inv, TypeOK
    <3>. QED
      BY <2>2, <3>1, <3>2 DEF Plans
  <2>4. /\ plan' \in [Handlers -> Plans] /\ plan'[h] = p
        /\ \A g \in Handlers \ {h} : plan'[g] = plan[g]
    <3>1. plan' = [plan EXCEPT ![h] = p]
      BY <1>9
    <3>. HIDE DEF p
    <3>. QED
      BY <1>5, <2>3, <3>1
  <2>5. /\ pc' \in [Handlers -> PCs] /\ \A g \in Handlers \ {h} : pc'[g] = pc[g]
        /\ \/ pc'[h] = "skip"
           \/ pc'[h] = "finish" /\ NextOrder = 0
           \/ pc'[h] = "bump" /\ NextOrder # 0
    BY <1>5, <1>9 DEF Goto, PCs
  <2>6. job' \in [Handlers -> Jobs] /\ \A g \in Handlers \ {h} : job'[g] = job[g]
    BY <1>5, <1>9 DEF NoJob, Jobs
  <2>7. plan'[h].next = NextOrder /\ plan'[h].create = p.create
    BY <2>4
  <2>8. Reached(plan[h].next)'
    BY <1>2, <2>1, <2>7, GrowsKeeps DEF Silent, Reached, Grows
  <2>9. Busy(h)'
    <3>. HIDE DEF p
    <3>. QED
      BY <1>1, <2>1, <2>2, <2>5, <2>7, <2>8 DEF Busy
  <2>. QED
    BY <1>2, <1>7, <2>4, <2>5, <2>6, <2>9, HandlerMoves DEF Silent
<1>. QED
  BY <1>6, <1>8, <1>9 DEF Advance

LEMMA SkipSiblingsStep == ASSUME Inv, NEW h \in Handlers, SkipSiblings(h) PROVE Good
<1>. USE DEF SkipSiblings
<1>1. /\ steps' \in Seq(StepRow) /\ DOMAIN steps' = DOMAIN steps
      /\ \A i \in DOMAIN steps :
           /\ steps'[i].order = steps[i].order /\ steps'[i].decision = steps[i].decision
           /\ steps'[i].status \in {steps[i].status, "SKIPPED"}
  <2>1. steps \in Seq(StepRow)
    BY DEF Inv, TypeOK
  <2>2. steps' = Skipped(steps, plan[h].skip)
    BY DEF Skipped
  <2>. QED
    BY <2>1, <2>2, SkippedSteps
<1>2. Silent
  BY <1>1 DEF Silent, Grows
<1>3. Passed' = Passed /\ Against' = Against /\ StepsKept'
  BY <1>1, <1>2, SilentKeeps, StepsLeft
<1>4. /\ pc' \in [Handlers -> PCs] /\ \A g \in Handlers \ {h} : pc'[g] = pc[g]
      /\ pc'[h] = IF plan[h].next = 0 THEN "finish" ELSE "bump"
  BY DEF Inv, TypeOK, Goto, PCs
<1>5. HandlersKept'
  <2>1. Busy(h)'
    BY <1>2, <1>4, GrowsKeeps DEF Inv, HandlersKept, Busy, Silent, Grows
  <2>. QED
    BY <1>2, <1>4, <2>1, HandlerMoves DEF Inv, HandlersKept, Silent
<1>6. TypeOK'
  BY <1>1, <1>4 DEF Inv, TypeOK
<1>7. Placed'
  <2>1. status # "NONE"
    BY DEF Inv, Placed
  <2>. QED
    BY <1>2, <2>1, GrowsKeeps DEF Inv, Placed, Silent, Grows
<1>8. TimersKept' /\ Counted'
  BY <1>1, <1>4, CountedKept DEF Inv, TypeOK, TimersKept, Escalates, Escalating
<1>9. RoundStep
  BY <1>3 DEF RoundStep, Round!vars
<1>. QED
  BY <1>2, <1>3, <1>5, <1>6, <1>7, <1>8, <1>9 DEF Good, Inv, Silent

LEMMA FinishStep == ASSUME Inv, NEW h \in Handlers, Finish(h) PROVE Good
<1>. USE DEF Finish
<1>1. Silent /\ Passed' = Passed /\ Against' = Against /\ StepsKept'
  BY Aside
<1>2. HandlersKept' /\ pc' \in [Handlers -> PCs] /\ Escalating' \subseteq Escalating
  BY <1>1, RestKeeps DEF Silent
<1>3. status # "NONE" /\ Reached(0)
  BY DEF Inv, HandlersKept, Busy, Placed
<1>4. TypeOK'
  BY <1>2 DEF Inv, TypeOK
<1>5. Placed'
  BY <1>1, <1>3, GrowsKeeps DEF Inv, Placed, Silent
<1>6. TimersKept' /\ Counted'
  BY <1>2, CountedKept DEF Inv, TypeOK, TimersKept, Escalates
<1>7. RoundStep
  <2>1. CASE MayFinish
    <3>1. Passed = 1..Len(def)
      <4>1. Passed \subseteq DOMAIN def
        BY DEF Passed, ApprovedIn, Inv, StepsKept
      <4>. QED
        BY <1>3, <4>1, DefinitionIs DEF Reached, Inv, TypeOK
    <3>2. Round!CloseApproved
      BY <1>1, <2>1, <3>1 DEF Round!CloseApproved, MayFinish, Open
    <3>. QED
      BY <3>2 DEF RoundStep, Round!Next
  <2>2. CASE ~MayFinish
    BY <1>1, <2>2 DEF RoundStep, Round!vars
  <2>. QED
    BY <2>1, <2>2
<1>. QED
  BY <1>1, <1>2, <1>4, <1>5, <1>6, <1>7 DEF Good, Inv, Silent

LEMMA BumpStep == ASSUME Inv, NEW h \in Handlers, Bump(h) PROVE Good
<1>. USE DEF Bump
<1>1. Silent /\ Passed' = Passed /\ Against' = Against /\ StepsKept'
  BY Aside
<1>2. /\ plan[h].next \in DOMAIN def /\ Reached(plan[h].next) /\ plan[h].next # 0
      /\ plan[h].create # <<>> /\ plan[h].next \in 0..Len(def)
  BY DefinitionIs DEF Inv, TypeOK, HandlersKept, Busy
<1>3. /\ pc' \in [Handlers -> PCs] /\ pc'[h] = "create"
      /\ \A g \in Handlers \ {h} : pc'[g] = pc[g]
  BY DEF Inv, TypeOK, Goto, PCs
<1>4. HandlersKept'
  <2>1. Busy(h)'
    BY <1>1, <1>2, <1>3, GrowsKeeps DEF Busy, Silent, Grows
  <2>. QED
    BY <1>1, <1>3, <2>1, HandlerMoves DEF Inv, HandlersKept, Silent
<1>5. TypeOK'
  BY <1>2, <1>3 DEF Inv, TypeOK
<1>6. Placed'
  <2>1. status # "NONE"
    BY DEF Inv, Placed
  <2>. QED
    BY <1>1, <1>2, <2>1, GrowsKeeps DEF Placed, Silent
<1>7. TimersKept' /\ Counted'
  BY <1>3, CountedKept DEF Inv, TypeOK, TimersKept, Escalates, Escalating
<1>8. RoundStep
  BY <1>1 DEF RoundStep, Round!vars
<1>. QED
  BY <1>1, <1>4, <1>5, <1>6, <1>7, <1>8 DEF Good, Inv, Silent

LEMMA CloseRoundStep == ASSUME Inv, NEW h \in Handlers, CloseRound(h) PROVE Good
<1>. USE DEF CloseRound
<1>1. /\ steps' \in Seq(StepRow) /\ DOMAIN steps' = DOMAIN steps
      /\ \A i \in DOMAIN steps :
           /\ steps'[i].order = steps[i].order /\ steps'[i].decision = steps[i].decision
           /\ steps'[i].status \in {steps[i].status, "SKIPPED"}
  <2>1. steps \in Seq(StepRow)
    BY DEF Inv, TypeOK
  <2>2. steps' = Skipped(steps, PendingIn(DOMAIN steps))
    BY DEF Skipped, PendingIn
  <2>. QED
    BY <2>1, <2>2, SkippedSteps
<1>2. Silent
  BY <1>1 DEF Silent, Grows
<1>3. Passed' = Passed /\ Against' = Against /\ StepsKept'
  BY <1>1, <1>2, SilentKeeps, StepsLeft
<1>4. HandlersKept' /\ pc' \in [Handlers -> PCs] /\ Escalating' \subseteq Escalating
  BY <1>2, RestKeeps DEF Silent
<1>5. status # "NONE" /\ job[h].decision \in Against
  BY DEF Inv, HandlersKept, Busy, Placed
<1>6. TypeOK'
  BY <1>1, <1>4 DEF Inv, TypeOK
<1>7. Placed'
  BY <1>2, <1>5, GrowsKeeps DEF Inv, Placed, Silent, Grows
<1>8. TimersKept' /\ Counted'
  BY <1>1, <1>4, CountedKept DEF Inv, TypeOK, TimersKept, Escalates
<1>9. RoundStep
  <2>1. CASE Open
    <3>1. job[h].decision \in Negative
      BY <1>5 DEF Against, ReturnedIn
    <3>2. Round!CloseRejected
      BY <1>3, <1>5, <2>1, <3>1 DEF Round!CloseRejected, Open, Negative
    <3>. QED
      BY <3>2 DEF RoundStep, Round!Next
  <2>2. CASE ~Open
    BY <1>3, <2>2 DEF RoundStep, Round!vars
  <2>. QED
    BY <2>1, <2>2
<1>. QED
  BY <1>2, <1>3, <1>4, <1>6, <1>7, <1>8, <1>9 DEF Good, Inv, Silent

LEMMA CrashStep == ASSUME Inv, NEW h \in Handlers, Crash(h) PROVE Good
<1>. USE DEF Crash
<1>. DEFINE retried == IF pc[h] = "escalate" THEN {job[h].step} ELSE {}
<1>1. Silent /\ Passed' = Passed /\ Against' = Against /\ StepsKept' /\ steps' = steps
  BY Aside
<1>2. HandlersKept' /\ pc' \in [Handlers -> PCs] /\ Escalating' = Escalating \ {h}
  BY <1>1, RestKeeps DEF Silent
<1>3. retried \subseteq DOMAIN steps /\ \A i \in retried : Escalates(steps[i].order)
  BY DEF Inv, HandlersKept, Busy
<1>4. TimersKept' /\ timers' \subseteq DOMAIN steps
  BY <1>1, <1>3 DEF Inv, TypeOK, TimersKept, Escalates
<1>5. reassigned' \in 0..MaxReassigned /\ Counted'
  <2>1. /\ IsFiniteSet(Escalating) /\ Cardinality(Escalating) \in Nat /\ reassigned \in Nat
        /\ Cardinality(Escalating) <= reassigned /\ reassigned <= MaxReassigned /\ MaxReassigned \in Nat
    BY BoundsAssumption, FS_CardinalityType DEF Inv, Counted, TypeOK
  <2>2. /\ IsFiniteSet(Escalating')
        /\ Cardinality(Escalating') = IF h \in Escalating THEN Cardinality(Escalating) - 1
                                                          ELSE Cardinality(Escalating)
        /\ Cardinality(Escalating') \in Nat
    BY <1>2, <2>1, FS_RemoveElement, FS_CardinalityType
  <2>3. CASE pc[h] = "escalate"
    <3>1. reassigned' = reassigned - 1 /\ h \in Escalating
      BY <2>3, FS_Singleton DEF Escalating
    <3>. QED
      BY <2>1, <2>2, <3>1 DEF Counted
  <2>4. CASE pc[h] # "escalate"
    <3>1. reassigned' = reassigned /\ h \notin Escalating
      BY <2>1, <2>4, FS_EmptySet DEF Escalating
    <3>. QED
      BY <2>1, <2>2, <3>1 DEF Counted
  <2>. QED
    BY <2>3, <2>4
<1>6. TypeOK'
  BY <1>1, <1>2, <1>4, <1>5, BoundsAssumption DEF Inv, TypeOK
<1>7. Placed'
  <2>1. status # "NONE"
    BY DEF Inv, Placed
  <2>. QED
    BY <1>1, <2>1, GrowsKeeps DEF Inv, Placed, Silent
<1>8. RoundStep
  BY <1>1 DEF RoundStep, Round!vars
<1>. QED
  BY <1>1, <1>2, <1>4, <1>5, <1>6, <1>7, <1>8 DEF Good, Inv, Silent
-----------------------------------------------------------------------------
LEMMA NextGood == ASSUME Inv, [Next]_vars PROVE Good
<1>1. CASE UNCHANGED vars
  <2>1. Silent /\ Passed' = Passed /\ Against' = Against /\ StepsKept'
    BY <1>1, Aside DEF vars, request
  <2>2. TypeOK' /\ Placed' /\ TimersKept' /\ Counted'
    BY <1>1, <2>1, GrowsKeeps
    DEF vars, request, Inv, TypeOK, Placed, TimersKept, Escalates, Counted, Escalating, Silent
  <2>3. HandlersKept'
    BY <1>1, <2>1, OthersBusy DEF vars, Inv, HandlersKept, Silent
  <2>4. RoundStep
    BY <1>1, <2>1 DEF vars, request, RoundStep, Round!vars
  <2>. QED
    BY <2>1, <2>2, <2>3, <2>4 DEF Good, Inv, Silent
<1>2. ASSUME NEW h \in Handlers, NEW i \in DOMAIN steps, DecideAny(h, i) PROVE Good
  <2>1. PICK user \in People, decision \in Decisions : Decide(h, i, user, decision)
    BY <1>2 DEF DecideAny
  <2>2. reassigned' \in reassigned..MaxReassigned
    BY <1>2, BoundsAssumption DEF DecideAny, Inv, TypeOK
  <2>. QED
    BY <2>1, <2>2, DecideStep DEF Deciding
<1>3. ASSUME NEW h \in Handlers, Delegate(h) PROVE Good
  <2>1. PICK i \in DOMAIN steps, user \in People : Decide(h, i, user, "DELEGATED")
    BY <1>3 DEF Delegate
  <2>2. reassigned' \in reassigned..MaxReassigned
    BY <1>3, BoundsAssumption DEF Delegate, Inv, TypeOK
  <2>. QED
    BY <2>1, <2>2, DecideStep DEF Deciding
<1>4. ASSUME NEW h \in Handlers, Submit(h) \/ Escalate(h) \/ Work(h) \/ Crash(h) PROVE Good
  BY <1>4, SubmitStep, EscalateStep, CrashStep, CreateStepStep, ClaimStep, CreateDelegatedStep,
     HandOverStep, AdvanceStep, SkipSiblingsStep, FinishStep, BumpStep, CloseRoundStep DEF Work
<1>. QED
  BY <1>1, <1>2, <1>3, <1>4 DEF Next, DecideSome

(* The inductive invariant of a request for approval: its rows, the handlers *)
(* half way and the orders reached are in step.                              *)
THEOREM InvHolds == Spec => []Inv
<1>1. Init => Inv
  BY InitInv
<1>2. Inv /\ [Next]_vars => Inv'
  BY NextGood DEF Good
<1>. QED
  BY <1>1, <1>2, PTL DEF Spec

(* Every row, timer, handler and bound stays of its type, however deciding,  *)
(* delegating, escalating and dying interleave (workflow-engine.ts).         *)
THEOREM TypeCorrect == Spec => []TypeOK
<1>1. Inv => TypeOK
  BY DEF Inv
<1>. QED
  BY <1>1, InvHolds, PTL

(* A recorded decision is never overwritten: not by a double click, another  *)
(* holder of the role, an escalation or a closing round (approval-flow.ts).  *)
THEOREM DecisionsStand == Spec => DecisionStands
<1>1. Inv /\ [Next]_vars =>
        [\A i \in DOMAIN steps : steps[i].decision # None => steps'[i].decision = steps[i].decision]_vars
  BY NextGood DEF Good, Grows
<1>. QED
  BY <1>1, InvHolds, PTL DEF Spec, DecisionStands

(* Whatever interleaves, the request goes through its orders as the abstract *)
(* round does: one after the other, approved only when every order passed,   *)
(* rejected only because somebody said so (advanceWorkflow, closeRound).     *)
THEOREM RoundIsImplemented == Spec => RoundImplemented
<1>1. Init => Round!Init
  <2>1. ASSUME Init PROVE Len(def) \in Nat \ {0} /\ Passed = {} /\ Against = {}
    <3>1. Len(def) \in Nat \ {0}
      BY <2>1, DefinitionIs DEF Init
    <3>2. DOMAIN steps = {}
      BY <2>1 DEF Init
    <3>. QED
      BY <3>1, <3>2 DEF Passed, Against, ApprovedIn, ReturnedIn
  <2>. QED
    BY <2>1 DEF Init, Round!Init
<1>2. Inv /\ [Next]_vars => [Round!Next]_(Round!vars)
  BY NextGood DEF Good, RoundStep
<1>. QED
  BY <1>1, <1>2, InvHolds, PTL DEF Spec, RoundImplemented, Round!Spec

(* What a closed request says of its orders and its decisions, in its round. *)
ClosedForCause ==
  /\ status = "APPROVED" => Passed = DOMAIN def /\ outcome = "approved"
  /\ status = "REJECTED" => \/ outcome = "returned" /\ "RETURNED" \in Against
                            \/ outcome = "declined" /\ "DECLINED" \in Against

(* An approved request was approved at every order of its definition, and a  *)
(* rejected one has a decision that says what its outcome says, whatever was *)
(* decided, skipped or handed over since, until the request is reset or      *)
(* cancelled (advanceWorkflow, closeRound).                                  *)
THEOREM ClosesForCause == Spec => []ClosedForCause
<1>1. Init => ClosedForCause
  BY DEF Init, ClosedForCause
<1>2. Inv /\ ClosedForCause /\ [Next]_vars => ClosedForCause'
  <2> SUFFICES ASSUME Inv, ClosedForCause, [Next]_vars PROVE ClosedForCause'
    OBVIOUS
  <2>1. Good
    BY NextGood
  <2>2. /\ Passed \subseteq Passed' /\ Against \subseteq Against' /\ def' = def
        /\ DOMAIN def = 1..Len(def) /\ (Passed \subseteq DOMAIN def)'
    <3>1. Passed \subseteq Passed' /\ Against \subseteq Against' /\ def' = def
      BY <2>1, GrowsKeeps DEF Good, Grows
    <3>2. DOMAIN def = 1..Len(def)
      BY DefinitionIs DEF Inv, TypeOK
    <3>3. StepsKept'
      BY <2>1 DEF Good, Inv
    <3>4. (Passed \subseteq DOMAIN def)'
      BY <3>3 DEF StepsKept, Passed, ApprovedIn
    <3>. QED
      BY <3>1, <3>2, <3>4
  <2>3. CASE UNCHANGED Round!vars
    BY <2>2, <2>3 DEF Round!vars, ClosedForCause
  <2>4. CASE Round!Next
    <3>1. CASE Round!Submit \/ Round!CloseApproved \/ Round!CloseRejected
      BY <2>2, <3>1 DEF Round!Submit, Round!CloseApproved, Round!CloseRejected, ClosedForCause
    <3>2. CASE Round!Approve \/ Round!Object
      <4>1. status' = status /\ outcome' = outcome
        BY <3>2 DEF Round!Approve, Round!Object
      <4>. QED
        BY <2>2, <4>1 DEF ClosedForCause
    <3>. QED
      BY <2>4, <3>1, <3>2 DEF Round!Next
  <2>. QED
    BY <2>1, <2>3, <2>4 DEF Good, RoundStep
<1>. QED
  BY <1>1, <1>2, InvHolds, PTL DEF Spec

(* A handler of the engine: one that decides or escalates, or goes on with a *)
(* plan.                                                                     *)
Handles(h) ==
  \/ Submit(h) \/ Delegate(h) \/ Escalate(h) \/ Work(h) \/ Crash(h)
  \/ \E i \in DOMAIN steps : DecideAny(h, i)
LeavesClosed(h) ==
  Handles(h) /\ status \in {"APPROVED", "REJECTED"} => UNCHANGED <<status, outcome>>

(* What the engine's own handlers do to a request that is closed: one that   *)
(* took it for open, to decide or hand over a step, to ask the next order or *)
(* to close it, finds it closed and leaves it so (advanceWorkflow,           *)
(* closeRound).  It says nothing of what else reopens a request: an approved *)
(* one is reset when its document changes (lib/approval-reset.ts).           *)
THEOREM HandlersLeaveClosed == Spec => [][\A h \in Handlers : LeavesClosed(h)]_vars
<1>1. Inv /\ [Next]_vars => [\A h \in Handlers : LeavesClosed(h)]_vars
  <2> SUFFICES ASSUME Inv, [Next]_vars, NEW h \in Handlers, status \in {"APPROVED", "REJECTED"}
               PROVE  UNCHANGED <<status, outcome>>
    BY DEF LeavesClosed
  <2>1. RoundStep
    BY NextGood DEF Good
  <2>. QED
    BY <2>1 DEF RoundStep, Round!Next, Round!vars, Round!Submit, Round!Approve, Round!Object,
                Round!CloseApproved, Round!CloseRejected
<1>. QED
  BY <1>1, InvHolds, PTL DEF Spec
===============================================================================
