------------------------- MODULE DiligenceColumn_proofs -------------------------
(***************************************************************************)
(* Proofs about DiligenceColumn, for any number of documents, runs,        *)
(* requests and faults: its types, that a run under way has a job, that a  *)
(* run that is done has left no document out, and that a person's answer   *)
(* stands.                                                                 *)
(*                                                                         *)
(* The inductive invariant says the same of every copy of the run, the     *)
(* column's, each job's and each request's: what is behind its cursor was  *)
(* gone through, and what was gone through has a cell while its wording is *)
(* the column's.  Of a job it says what its page is: the documents next    *)
(* after its cursor, none of those that are due left out; what is due can  *)
(* only shrink, as documents are taken back to be read again.              *)
(***************************************************************************)
EXTENDS DiligenceColumn, FiniteSetTheorems, TLAPS

Busy == {"turn", "saved"} \cup Saving

Has(cs, S) == \A d \in S : cs[d] # NoCell

(* A copy of the run, of what the column holds; rd is how often each document *)
(* was begun again, and no reading is due that is still to come.             *)
DueAt(r, rd) == {d \in Docs : <<d, rd[d]>> \in r.due}
RunSound(r, cs, rd, done, of, rewording) ==
  /\ r.of <= of
  /\ \A p \in r.due : p[2] <= rd[p[1]]
  /\ DueAt(r, rd) \subseteq done
  /\ \A d \in DueAt(r, rd) : d <= r.cursor => d \in r.processed
  /\ r.of = of /\ ~rewording => Has(cs, r.processed)

Sound(r) == RunSound(r, cells, reads, Done, question, Rewording)

(* A job between two documents, or with one in hand.                         *)
PageSound(j, rd) ==
  /\ \A d \in j.page : d > j.run.cursor
  /\ \A d \in DueAt(j.run, rd) : d > j.run.cursor => d \in j.page \/ \A e \in j.page : e < d
JobSound(t, j, cs, rd, of, rewording) ==
  /\ j.step \in Busy => j.run \in Runs /\ j.run.token = t /\ j.run.status = "RUNNING"
  /\ j.step \notin Busy => j.page = {}
  /\ PageSound(j, rd)
  /\ j.run.of = of /\ ~rewording => Has(cs, j.page \ j.todo)
  /\ j.step = "saved" /\ j.run.of = of /\ ~rewording =>
       \A d \in j.page : (\A e \in j.page : d <= e) => cs[d] # NoCell

AllSound ==
  /\ Sound(run)
  /\ \A t \in Tokens : Sound(jobs[t].run) /\ JobSound(t, jobs[t], cells, reads, question, Rewording)
  /\ \A r \in Requests : Sound(reqs[r].saw)
DoneIsThrough == run.status = "DONE" => DueAt(run, reads) \subseteq run.processed

Inv == TypeOK /\ RunIsWorked /\ AllSound /\ DoneIsThrough

USE DEF Docs, Tokens, Wordings
-----------------------------------------------------------------------------
LEMMA NoCellType == NoCell \in Cells /\ Failed \in Cells
BY BoundsAssumption DEF NoCell, Failed, Cells

LEMMA RecordTypes ==
  /\ NoJob \in JobRecords /\ Queued \in JobRecords
  /\ NoLate \in [step : {"none", "waiting", "saved", "kept"} \cup Saving,
                 wording : 0..MaxWordings, tries : 0..(Attempts - 1)]
<1>1. 0 \in 0..(Attempts - 1) /\ 0 \in 0..MaxWordings
  BY SizesAssumption, BoundsAssumption
<1>2. NoJob \in JobRecords
  BY <1>1 DEF NoJob, JobRecords
<1>3. Queued \in JobRecords
  BY <1>1 DEF NoJob, JobRecords, Queued
<1> QED
  BY <1>1, <1>2, <1>3 DEF NoLate

LEMMA FreshType ==
  ASSUME TypeOK, runs < MaxRuns, NEW s \in Scopes, NEW w \in Wordings
  PROVE  Fresh(s, w) \in Runs
<1>1. {<<d, reads[d]>> : d \in Done} \in SUBSET (Docs \X Nat)
  BY DEF TypeOK, Done
<1> QED
  BY <1>1, SizesAssumption, BoundsAssumption DEF Fresh, Runs, TypeOK

LEMMA WritesType ==
  ASSUME NEW step \in Saving, NEW c \in Cells, NEW w \in 0..MaxWordings, NEW x \in Writes(step, c, w)
  PROVE  /\ x.cell \in Cells /\ x.step \in Saving \cup {"saved"}
         /\ c # NoCell => x.cell # NoCell
         /\ x.step = "saved" => x.cell # NoCell
         /\ Personal(c) => x.cell = c
<1>1. Answered(w) \in Cells /\ Failed \in Cells /\ Answered(w) # NoCell /\ Failed # NoCell
  BY NoCellType DEF Answered, Cells, NoCell, Failed
<1>2. ~Personal(NoCell)
  BY DEF Personal, NoCell
<1>3. CASE step = "asking"
  <2>1. x = [cell |-> c, step |-> "failing"] \/ (Overwritable(c) /\ x = [cell |-> Answered(w), step |-> "saved"])
        \/ x = [cell |-> c, step |-> "create"]
    BY <1>3 DEF Writes
  <2> QED
    BY <2>1, <1>1 DEF Overwritable, Saving
<1>4. CASE step = "failing"
  <2>1. x = [cell |-> c, step |-> FailsNext(c)]
    BY <1>4 DEF Writes
  <2> QED
    BY <2>1 DEF FailsNext, Overwritable, Saving
<1>5. CASE step = "create"
  <2>1. \/ x = [cell |-> c, step |-> "failing"]
        \/ c = NoCell /\ x = [cell |-> Answered(w), step |-> "saved"]
        \/ c # NoCell /\ x = [cell |-> c, step |-> "saved"]
    BY <1>5 DEF Writes
  <2> QED
    BY <2>1, <1>1, <1>2 DEF Saving
<1>6. CASE step = "createError"
  <2>1. \/ c = NoCell /\ x = [cell |-> Failed, step |-> "saved"]
        \/ c # NoCell /\ x = [cell |-> c, step |-> "saved"]
    BY <1>6 DEF Writes
  <2> QED
    BY <2>1, <1>1, <1>2
<1> QED
  BY <1>3, <1>4, <1>5, <1>6 DEF Saving
-----------------------------------------------------------------------------
(* Types. *)
LateRecords == [step : {"none", "waiting", "saved", "kept"} \cup Saving,
                wording : 0..MaxWordings, tries : 0..(Attempts - 1)]
ReqRecords == [step : {"idle", "run", "deleted"}, saw : Runs \cup {NoRun}, scope : Scopes]

(* A step of a late job, and of a run, leaves a record of its kind.          *)
LEMMA LateSteps ==
  ASSUME NEW l \in LateRecords, NEW w \in 0..MaxWordings,
         NEW s \in {"none", "waiting", "saved", "kept"} \cup Saving
  PROVE  /\ [l EXCEPT !.step = s, !.wording = w] \in LateRecords
         /\ [l EXCEPT !.step = s] \in LateRecords
         /\ l.step \in {"none", "waiting", "saved", "kept"} \cup Saving
         /\ l.wording \in 0..MaxWordings /\ l.tries \in 0..(Attempts - 1)
         /\ ~LastTry(l) => l.tries + 1 \in 0..(Attempts - 1)
<1>1. l.tries \in 0..(Attempts - 1)
  BY DEF LateRecords
<1>2. ~LastTry(l) => l.tries + 1 \in 0..(Attempts - 1)
  BY <1>1, SizesAssumption DEF LastTry
<1> QED
  BY <1>1, <1>2 DEF LateRecords

LEMMA LateAgain ==
  ASSUME NEW k \in 0..(Attempts - 1)
  PROVE  /\ [NoLate EXCEPT !.step = "waiting", !.tries = k] \in LateRecords
         /\ [NoLate EXCEPT !.step = "kept"] \in LateRecords
BY RecordTypes DEF NoLate, LateRecords

LEMMA StatusStep ==
  ASSUME NEW r \in Runs, NEW s \in {"QUEUED", "RUNNING", "PAUSED", "DONE", "FAILED"}
  PROVE  [r EXCEPT !.status = s] \in Runs
BY DEF Runs

LEMMA AdvancedStep ==
  ASSUME NEW r \in Runs, NEW d \in Docs
  PROVE  /\ Advanced(r, d) \in Runs
         /\ Advanced(r, d).token = r.token /\ Advanced(r, d).status = r.status
         /\ Advanced(r, d).of = r.of /\ Advanced(r, d).due = r.due
         /\ Advanced(r, d).cursor = d /\ Advanced(r, d).processed = r.processed \cup {d}
<1>1. d \in 0..N /\ r.processed \cup {d} \in SUBSET Docs
  BY SizesAssumption DEF Runs
<1>2. Advanced(r, d) = [r EXCEPT !.cursor = d, !.processed = r.processed \cup {d}]
  BY DEF Advanced
<1>3. Advanced(r, d) \in Runs
  BY <1>1, <1>2 DEF Runs
<1>4. /\ Advanced(r, d).token = r.token /\ Advanced(r, d).status = r.status
      /\ Advanced(r, d).of = r.of /\ Advanced(r, d).due = r.due
      /\ Advanced(r, d).cursor = d /\ Advanced(r, d).processed = r.processed \cup {d}
  BY <1>2 DEF Runs
<1> QED
  BY <1>3, <1>4

LEMMA TypeInit == Init => TypeOK
<1> SUFFICES ASSUME Init PROVE TypeOK
  OBVIOUS
<1>1. 1 \in Tokens /\ 1 \in Wordings /\ 0 \in 0..MaxActs /\ 0 \in 0..MaxFaults
  BY BoundsAssumption
<1>2. stage \in [Docs -> {"reading", "indexing", "done"}] /\ reads \in [Docs -> Nat]
  BY DEF Init
<1>3. cells \in [Docs -> Cells]
  BY NoCellType DEF Init
<1>4. run \in Runs
  <2> DEFINE due == {<<d, reads[d]>> : d \in Done}
  <2>1. 0 \in 0..N /\ due \in SUBSET (Docs \X Nat)
    BY SizesAssumption, <1>2 DEF Done
  <2>2. run = [token |-> 1, status |-> "QUEUED", scope |-> "missing", cursor |-> 0,
               processed |-> {}, due |-> due, of |-> 1]
    BY DEF Init, Fresh
  <2> HIDE DEF due
  <2> QED
    BY <1>1, <2>1, <2>2 DEF Runs, Scopes
<1>5. jobs \in [Tokens -> JobRecords] /\ late \in [Docs -> LateRecords]
  BY RecordTypes DEF Init, LateRecords
<1>6. reqs \in [Requests -> ReqRecords]
  BY DEF Init, Idle, ReqRecords, Scopes
<1> QED
  BY <1>1, <1>2, <1>3, <1>4, <1>5, <1>6 DEF Init, TypeOK, LateRecords, ReqRecords

(* A job in hand has a copy of the run. *)
LEMMA TypeWork ==
  ASSUME TypeOK, AllSound, NEW t \in Tokens, Work(t)
  PROVE  /\ run' \in Runs /\ jobs' \in [Tokens -> JobRecords] /\ cells' \in [Docs -> Cells]
<1> USE DEF TypeOK
<1>1. jobs[t] \in JobRecords /\ (jobs[t].step \in Busy => jobs[t].run \in Runs)
  BY DEF AllSound, JobSound
<1>2. CASE Take(t)
  <2> DEFINE mine == [run EXCEPT !.status = "RUNNING"]
             j == [jobs[t] EXCEPT !.step = "turn", !.run = mine, !.wording = question]
  <2>1. mine \in Runs
    BY DEF Runs
  <2>2. question \in 0..MaxWordings
    BY BoundsAssumption
  <2>3. j \in JobRecords
    BY <1>1, <2>1, <2>2 DEF JobRecords
  <2>4. cells' = cells /\ \/ run' = mine /\ jobs' = [jobs EXCEPT ![t] = j]
                          \/ run' = run /\ jobs' = [jobs EXCEPT ![t] = NoJob]
    BY <1>2 DEF Take, Ends
  <2> QED
    BY <2>1, <2>3, <2>4, RecordTypes
<1>3. CASE ReadPage(t)
  <2>1. jobs[t].run \in Runs
    BY <1>1, <1>3 DEF ReadPage, Busy
  <2>2. [jobs[t].run EXCEPT !.status = "DONE"] \in Runs
    BY <2>1 DEF Runs
  <2>3. Page(Ahead(t)) \in SUBSET Docs
    BY DEF Page, Ahead, Done
  <2>4. [jobs[t] EXCEPT !.page = Page(Ahead(t)),
                        !.todo = {d \in Page(Ahead(t)) : ToAsk(d, jobs[t].run.scope)}] \in JobRecords
    BY <1>1, <2>3 DEF JobRecords
  <2> QED
    BY <1>3, <2>2, <2>4, RecordTypes DEF ReadPage, Saves, Ends
<1>4. CASE Ask(t)
  <2>1. [jobs[t] EXCEPT !.step = "asking"] \in JobRecords
    BY <1>1 DEF JobRecords, Saving
  <2> QED
    BY <1>4, <2>1 DEF Ask
<1>5. CASE Write(t)
  <2>1. PICK d \in Docs : AtHead(t, d) /\ \E w \in Writes(jobs[t].step, cells[d], jobs[t].wording) :
          cells' = [cells EXCEPT ![d] = w.cell] /\ jobs' = [jobs EXCEPT ![t].step = w.step]
    BY <1>5 DEF Write
  <2>5. PICK w \in Writes(jobs[t].step, cells[d], jobs[t].wording) :
          cells' = [cells EXCEPT ![d] = w.cell] /\ jobs' = [jobs EXCEPT ![t].step = w.step]
    BY <2>1
  <2>2. w.cell \in Cells /\ w.step \in Saving \cup {"saved"}
    BY <1>1, <1>5, WritesType DEF Write, JobRecords
  <2>3. [jobs[t] EXCEPT !.step = w.step] \in JobRecords
    BY <1>1, <2>2 DEF JobRecords
  <2> QED
    BY <1>5, <2>5, <2>2, <2>3 DEF Write
<1>6. CASE Move(t)
  <2>1. PICK d \in Docs :
          /\ GoesOn(t, d)
          /\ IF Current(t)
             THEN run' = Advanced(jobs[t].run, d) /\ jobs' = [jobs EXCEPT ![t] = Passed(jobs[t], d)]
             ELSE Ends(t) /\ UNCHANGED run
    BY <1>6 DEF Move
  <2>2. jobs[t].run \in Runs
    BY <1>1, <2>1 DEF GoesOn, Busy
  <2>3. Advanced(jobs[t].run, d) \in Runs
    BY <2>2, AdvancedStep
  <2>4. Passed(jobs[t], d) \in JobRecords
    BY <1>1, <2>3 DEF JobRecords, Passed
  <2> QED
    BY <1>6, <2>1, <2>3, <2>4, RecordTypes DEF Move, Ends
<1> QED
  BY <1>2, <1>3, <1>4, <1>5, <1>6 DEF Work

LEMMA InHandType ==
  ASSUME TypeOK, NEW t \in Tokens, jobs[t].run \in Runs, NEW x \in InHand(t)
  PROVE  x \in Runs
<1>1. CASE x = jobs[t].run
  BY <1>1
<1>2. ASSUME NEW d \in Docs, x = Advanced(jobs[t].run, d) PROVE x \in Runs
  BY <1>2, AdvancedStep
<1> QED
  BY <1>1, <1>2 DEF InHand

LEMMA TypeStarts ==
  ASSUME TypeOK, NEW r \in Requests, NEW new \in Runs, Starts(r, new)
  PROVE  /\ run' \in Runs /\ runs' \in Tokens /\ jobs' \in [Tokens -> JobRecords]
         /\ reqs' \in [Requests -> ReqRecords] /\ lost' \subseteq Tokens /\ faults' \in 0..MaxFaults
<1> USE DEF TypeOK, ReqRecords
<1>1. runs' \in Tokens
  BY BoundsAssumption DEF Starts
<1>2. Idle \in ReqRecords
  BY DEF Idle, Scopes
<1>3. jobs' \in [Tokens -> JobRecords] /\ lost' \subseteq Tokens
  BY <1>1, RecordTypes DEF Starts
<1>4. faults' \in 0..MaxFaults
  BY BoundsAssumption DEF Starts, MayFault
<1> QED
  BY <1>1, <1>2, <1>3, <1>4 DEF Starts

LEMMA TypeNext ==
  ASSUME TypeOK, AllSound, [Next]_vars
  PROVE  TypeOK'
<1> USE DEF TypeOK
<1>b. /\ Act => acts' \in 0..MaxActs
      /\ MayFault => faults' \in 0..MaxFaults
  BY BoundsAssumption DEF Act, MayFault
<1>c. \A t \in Tokens : jobs[t] \in JobRecords /\ (jobs[t].step \in Busy => jobs[t].run \in Runs)
  BY DEF AllSound, JobSound
<1>1. ASSUME NEW t \in Tokens, Work(t) PROVE TypeOK'
  BY <1>1, TypeWork DEF Work, Bounds, Reading
<1>2. ASSUME NEW t \in Tokens, Pause(t) PROVE TypeOK'
  <2>2. jobs[t].run \in Runs
    BY <1>2, <1>c DEF Pause, Busy, Saving
  <2>1. [jobs[t].run EXCEPT !.status = "PAUSED"] \in Runs
    BY <2>2, StatusStep
  <2> QED
    BY <1>2, <1>b, <2>1, RecordTypes DEF Pause, Saves, Ends, Reading
<1>3. ASSUME NEW t \in Tokens, Throw(t) PROVE TypeOK'
  <2>1. run' \in Runs
    <3>1. ASSUME NEW x \in InHand(t), jobs[t].step # "waiting" PROVE [x EXCEPT !.status = "FAILED"] \in Runs
      <4>1. x \in Runs
        BY <1>3, <3>1, <1>c, InHandType DEF Throw, Busy, Saving
      <4> QED
        BY <4>1 DEF Runs
    <3> QED
      BY <1>3, <3>1 DEF Throw, Saves
  <2>2. jobs' \in [Tokens -> JobRecords]
    <3>1. ASSUME ~LastTry(jobs[t]) PROVE jobs[t].tries + 1 \in 0..(Attempts - 1)
      BY <1>c, <3>1, SizesAssumption DEF LastTry, JobRecords
    <3>2. ASSUME ~LastTry(jobs[t]) PROVE [Queued EXCEPT !.tries = jobs[t].tries + 1] \in JobRecords
      BY <3>1, <3>2, RecordTypes DEF JobRecords
    <3> QED
      BY <1>3, <3>2, RecordTypes DEF Throw
  <2> QED
    BY <1>3, <1>b, <2>1, <2>2 DEF Throw, Reading
<1>4. ASSUME NEW t \in Tokens, Die(t) PROVE TypeOK'
  <2>1. [Queued EXCEPT !.tries = jobs[t].tries] \in JobRecords
    BY <1>c, RecordTypes DEF JobRecords
  <2> QED
    BY <1>4, <1>b, <2>1, RecordTypes DEF Die, Ends, Reading
<1>5. ASSUME NEW d \in Docs, Analyse(d) PROVE TypeOK'
  <2>1. [late[d] EXCEPT !.step = "waiting"] \in LateRecords
    BY DEF LateRecords
  <2>2. late' \in [Docs -> LateRecords]
    BY <1>5, <2>1 DEF Analyse, LateRecords
  <2> QED
    BY <1>5, <1>b, <2>2 DEF Analyse, LateRecords
<1>6. ASSUME NEW d \in Docs, WorkLate(d) PROVE TypeOK'
  <2>1. CASE AskLate(d)
    <3>1. question \in 0..MaxWordings
      BY BoundsAssumption
    <3>4. late[d] \in LateRecords /\ "asking" \in Saving
      BY DEF LateRecords, Saving
    <3>2. /\ [late[d] EXCEPT !.step = "asking", !.wording = question] \in LateRecords
          /\ [late[d] EXCEPT !.step = "saved"] \in LateRecords
      BY <3>1, <3>4, LateSteps
    <3>5. late \in [Docs -> LateRecords]
      BY DEF LateRecords
    <3>6. \/ late' = [late EXCEPT ![d] = [late[d] EXCEPT !.step = "asking", !.wording = question]]
          \/ late' = [late EXCEPT ![d] = [late[d] EXCEPT !.step = "saved"]]
      BY <2>1, <3>5 DEF AskLate
    <3>3. late' \in [Docs -> LateRecords]
      BY <3>2, <3>5, <3>6
    <3> QED
      BY <1>6, <2>1, <3>3 DEF WorkLate, AskLate, LateRecords, Bounds, Reading
  <2>2. CASE WriteLate(d)
    <3>1. PICK w \in Writes(late[d].step, cells[d], late[d].wording) :
            cells' = [cells EXCEPT ![d] = w.cell] /\ late' = [late EXCEPT ![d].step = w.step]
      BY <2>2 DEF WriteLate
    <3>2. w.cell \in Cells /\ w.step \in Saving \cup {"saved"}
      BY <2>2, WritesType DEF WriteLate
    <3>3. [late[d] EXCEPT !.step = w.step] \in LateRecords
      BY <3>2 DEF LateRecords
    <3>4. late' \in [Docs -> LateRecords] /\ cells' \in [Docs -> Cells]
      BY <3>1, <3>2, <3>3 DEF LateRecords
    <3> QED
      BY <1>6, <3>4 DEF WorkLate, LateRecords, Bounds, Reading
  <2>3. CASE EndLate(d)
    BY <1>6, <2>3, RecordTypes DEF WorkLate, EndLate, Bounds, Reading
  <2> QED
    BY <1>6, <2>1, <2>2, <2>3 DEF WorkLate
<1>7. ASSUME NEW d \in Docs, StopLate(d) PROVE TypeOK'
  BY <1>7, <1>b DEF StopLate, Reading
<1>8. ASSUME NEW d \in Docs, ThrowLate(d) PROVE TypeOK'
  <2>5. late[d] \in LateRecords /\ 0 \in 0..MaxWordings
    BY BoundsAssumption DEF LateRecords
  <2>1. late[d].tries \in 0..(Attempts - 1) /\ (~LastTry(late[d]) => late[d].tries + 1 \in 0..(Attempts - 1))
    BY <2>5, LateSteps
  <2>2. [NoLate EXCEPT !.step = "kept"] \in LateRecords
    BY <2>1, LateAgain
  <2>3. ASSUME ~LastTry(late[d]) PROVE [NoLate EXCEPT !.step = "waiting", !.tries = late[d].tries + 1] \in LateRecords
    BY <2>1, <2>3, LateAgain
  <2>4. late' \in [Docs -> LateRecords]
    BY <1>8, <2>2, <2>3 DEF ThrowLate, LateRecords
  <2> QED
    BY <1>8, <1>b, <2>4 DEF ThrowLate, LateRecords, Reading
<1>9. ASSUME NEW d \in Docs, Answer(d) PROVE TypeOK'
  <2>1. [by |-> "user", checked |-> TRUE, error |-> FALSE, says |-> 0] \in Cells
    BY BoundsAssumption DEF Cells
  <2> QED
    BY <1>9, <1>b, <2>1 DEF Answer, Rest, Jobs, Reading
<1>10. ASSUME NEW d \in Docs, Check(d) PROVE TypeOK'
  <2>1. \A c \in BOOLEAN : [cells[d] EXCEPT !.checked = c] \in Cells
    BY <1>10 DEF Check, Cells
  <2> QED
    BY <1>10, <1>b, <2>1 DEF Check, Rest, Jobs, Reading
<1>11. ASSUME NEW r \in Requests, Read(r) PROVE TypeOK'
  <2>1. \A s \in Scopes : [step |-> "run", saw |-> run, scope |-> s] \in ReqRecords
    BY DEF ReqRecords
  <2> QED
    BY <1>11, <1>b, <2>1 DEF Read, Rest, Jobs, Reading, ReqRecords
<1>12. ASSUME NEW r \in Requests, Run(r) PROVE TypeOK'
  <2>1. runs < MaxRuns
    BY <1>12 DEF Run, Starts
  <2>2. Fresh(reqs[r].scope, question) \in Runs
    BY <2>1, FreshType
  <2>3. ASSUME Resumes(reqs[r].saw, reqs[r].scope) PROVE Resumed(reqs[r].saw) \in Runs
    <3>1. reqs[r].saw \in Runs
      BY <2>3 DEF Resumes, NoRun
    <3>2. runs + 1 \in Tokens
      BY <2>1, BoundsAssumption
    <3> QED
      BY <3>1, <3>2 DEF Resumed, Runs
  <2>4. PICK new \in Runs : Starts(r, new)
    BY <1>12, <2>2, <2>3 DEF Run
  <2> QED
    BY <1>12, <2>4, TypeStarts DEF Run, Starts, ReqRecords, Reading
<1>13. ASSUME NEW r \in Requests, NEW reform \in BOOLEAN, Delete(r, reform) PROVE TypeOK'
  <2>1. [reqs[r] EXCEPT !.step = "deleted"] \in ReqRecords
    BY DEF ReqRecords
  <2>2. reqs' \in [Requests -> ReqRecords]
    BY <1>13, <2>1 DEF Delete, ReqRecords
  <2> QED
    BY <1>13, <1>b, <2>2, NoCellType DEF Delete, Rest, Jobs, Reading, ReqRecords
<1>14. ASSUME NEW r \in Requests, Reword(r) PROVE TypeOK'
  <2>1. question' \in Wordings /\ runs < MaxRuns
    BY <1>14, BoundsAssumption DEF Reword, Starts
  <2>2. Fresh("all", question') \in Runs
    BY <2>1, FreshType DEF Scopes
  <2> QED
    BY <1>14, <2>1, <2>2, TypeStarts DEF Reword, Starts, ReqRecords, Reading
<1>16. ASSUME NEW d \in Docs, Reanalyse(d) PROVE TypeOK'
  BY <1>16, <1>b DEF Reanalyse, Jobs
<1>15. CASE UNCHANGED vars
  BY <1>15 DEF vars, Jobs, Bounds, Reading
<1> QED
  BY <1>1, <1>2, <1>3, <1>4, <1>5, <1>6, <1>7, <1>8, <1>9, <1>10, <1>11, <1>12, <1>13, <1>14, <1>15, <1>16 DEF Next
-----------------------------------------------------------------------------
(* A run under way has a job. *)
LEMMA WorkedNext ==
  ASSUME TypeOK, AllSound, RunIsWorked, [Next]_vars
  PROVE  RunIsWorked'
<1> USE DEF TypeOK, RunIsWorked
<1>a. run.token \in Tokens /\ NoJob.step = "none" /\ Queued.step = "waiting"
  BY DEF Runs, NoJob, Queued
<1>b. \A t \in Tokens : jobs[t].step \in Busy => jobs[t].run.token = t /\ jobs[t].run \in Runs
  BY DEF AllSound, JobSound
<1>c. \A t \in Tokens : jobs[t] \in JobRecords
  OBVIOUS
<1>d. ASSUME NEW t \in Tokens, NEW j, run' = run, run.token # t, jobs' = [jobs EXCEPT ![t] = j], lost \subseteq lost'
      PROVE  RunIsWorked'
  BY <1>a, <1>d
<1>e. ASSUME NEW t \in Tokens, NEW j, j.step # "none", run' = run, jobs' = [jobs EXCEPT ![t] = j], lost \subseteq lost'
      PROVE  RunIsWorked'
  BY <1>a, <1>e
<1>1. ASSUME NEW t \in Tokens, Work(t) PROVE RunIsWorked'
  <2>1. CASE Take(t)
    <3> DEFINE mine == [run EXCEPT !.status = "RUNNING"]
               j == [jobs[t] EXCEPT !.step = "turn", !.run = mine, !.wording = question]
    <3>1. CASE Takes(t)
      <4>1. run' = mine /\ jobs' = [jobs EXCEPT ![t] = j]
        BY <2>1, <3>1 DEF Take
      <4>2. mine.token = t
        BY <3>1 DEF Takes, Current, Runs
      <4>3. j.step = "turn"
        BY <1>c DEF JobRecords
      <4> QED
        BY <4>1, <4>2, <4>3
    <3>2. CASE ~Takes(t)
      BY <1>d, <1>1, <2>1, <3>2 DEF Take, Takes, Current, Work, Ends
    <3> QED
      BY <3>1, <3>2
  <2>2. CASE ReadPage(t)
    <3>1. CASE Ahead(t) = {}
      <4>1. CASE Current(t)
        <5>1. run' = [jobs[t].run EXCEPT !.status = "DONE"]
          BY <2>2, <3>1, <4>1 DEF ReadPage, Saves
        <5> QED
          BY <5>1, <2>2, <1>b DEF ReadPage, Busy, Runs
      <4>2. CASE ~Current(t)
        BY <1>1, <2>2, <3>1, <4>2, <1>d DEF ReadPage, Saves, Ends, Current, Work
      <4> QED
        BY <4>1, <4>2
    <3>2. CASE Ahead(t) # {}
      <4> DEFINE j == [jobs[t] EXCEPT !.page = Page(Ahead(t)),
                         !.todo = {d \in Page(Ahead(t)) : ToAsk(d, jobs[t].run.scope)}]
      <4>1. jobs' = [jobs EXCEPT ![t] = j] /\ run' = run /\ lost' = lost
        BY <1>1, <2>2, <3>2 DEF ReadPage, Work
      <4>2. j.step = "turn"
        BY <1>c, <2>2 DEF ReadPage, JobRecords
      <4> HIDE DEF j
      <4> QED
        BY <4>1, <4>2, <1>e
    <3> QED
      BY <3>1, <3>2
  <2>3. CASE Ask(t)
    <3>1. jobs' = [jobs EXCEPT ![t] = [jobs[t] EXCEPT !.step = "asking"]] /\ run' = run /\ lost' = lost
      BY <1>1, <2>3 DEF Ask, Work
    <3>2. [jobs[t] EXCEPT !.step = "asking"].step = "asking"
      BY <1>c DEF JobRecords
    <3> QED
      BY <3>1, <3>2, <1>e
  <2>4. CASE Write(t)
    <3>1. PICK d \in Docs : AtHead(t, d) /\ \E w \in Writes(jobs[t].step, cells[d], jobs[t].wording) :
            jobs' = [jobs EXCEPT ![t].step = w.step]
      BY <2>4 DEF Write
    <3>2. PICK w \in Writes(jobs[t].step, cells[d], jobs[t].wording) : jobs' = [jobs EXCEPT ![t].step = w.step]
      BY <3>1
    <3>3. jobs[t].wording \in 0..MaxWordings /\ jobs[t].step \in Saving
      BY <2>4 DEF Write, JobRecords
    <3>4. w.step # "none"
      BY <3>2, <3>3, WritesType DEF Saving
    <3> QED
      BY <1>1, <2>4, <3>2, <3>4, <1>c, <1>e DEF Write, Work, JobRecords
  <2>5. CASE Move(t)
    <3>1. PICK d \in Docs :
            /\ GoesOn(t, d)
            /\ IF Current(t)
               THEN run' = Advanced(jobs[t].run, d) /\ jobs' = [jobs EXCEPT ![t] = Passed(jobs[t], d)]
               ELSE Ends(t) /\ UNCHANGED run
      BY <2>5 DEF Move
    <3>2. CASE Current(t)
      <4>3. jobs[t].run \in Runs /\ jobs[t].run.token = t
        BY <3>1, <1>b DEF GoesOn, Busy
      <4>1. run'.token = t
        BY <3>1, <3>2, <4>3, AdvancedStep
      <4>2. jobs' = [jobs EXCEPT ![t] = Passed(jobs[t], d)] /\ Passed(jobs[t], d).step = "turn"
        BY <1>c, <3>1, <3>2 DEF Passed, JobRecords
      <4> QED
        BY <4>1, <4>2
    <3>3. CASE ~Current(t)
      BY <1>1, <3>1, <3>3, <1>d DEF Ends, Current, Work
    <3> QED
      BY <3>2, <3>3
  <2> QED
    BY <1>1, <2>1, <2>2, <2>3, <2>4, <2>5 DEF Work
<1>2. ASSUME NEW t \in Tokens, Pause(t) PROVE RunIsWorked'
  <2>1. CASE Current(t)
    <3>1. run' = [jobs[t].run EXCEPT !.status = "PAUSED"]
      BY <1>2, <2>1 DEF Pause, Saves
    <3> QED
      BY <3>1, <1>2, <1>b DEF Pause, Busy, Saving, Runs
  <2>2. CASE ~Current(t)
    BY <1>2, <2>2, <1>d DEF Pause, Saves, Ends, Current
  <2> QED
    BY <2>1, <2>2
<1>3. ASSUME NEW t \in Tokens, Throw(t) PROVE RunIsWorked'
  <2>1. CASE run' = run
    <3>1. CASE (Current(t) /\ lost' = lost) \/ ~Current(t)
      <4>1. CASE ~Current(t)
        BY <1>3, <2>1, <4>1, <1>a DEF Throw, Current
      <4>2. CASE Current(t) /\ lost' = lost /\ ~LastTry(jobs[t])
        BY <1>3, <2>1, <4>2, <1>a DEF Throw, Current, Queued, NoJob
      <4>3. CASE Current(t) /\ LastTry(jobs[t]) /\ t \notin lost'
        <5>1. run.status = "FAILED"
          <6>1. PICK x \in InHand(t) : run' = [x EXCEPT !.status = "FAILED"] /\ jobs[t].step # "waiting"
            BY <1>3, <4>3 DEF Throw, Saves
          <6>2. x \in Runs
            <7>1. jobs[t].run \in Runs
              BY <1>3, <6>1, <1>b DEF Throw, Busy, Saving
            <7> QED
              BY <7>1, <6>1, InHandType
          <6> QED
            BY <6>1, <6>2, <2>1 DEF Runs
        <5> QED
          BY <5>1, <2>1
      <4>4. CASE Current(t) /\ t \in lost'
        BY <2>1, <4>4 DEF Current
      <4> QED
        BY <3>1, <4>1, <4>2, <4>3, <4>4
    <3>2. CASE Current(t) /\ lost' # lost
      <4>1. t \in lost'
        BY <1>3, <3>2 DEF Throw
      <4> QED
        BY <2>1, <3>2, <4>1 DEF Current
    <3> QED
      BY <3>1, <3>2
  <2>2. CASE run' # run
    <3>1. PICK x \in InHand(t) : run' = [x EXCEPT !.status = "FAILED"] /\ jobs[t].step # "waiting"
      BY <1>3, <2>2 DEF Throw, Saves
    <3>2. jobs[t].run \in Runs
      BY <1>3, <3>1, <1>b DEF Throw, Busy, Saving
    <3>3. x \in Runs
      BY <3>2, <3>1, InHandType
    <3> QED
      BY <3>1, <3>3 DEF Runs
  <2> QED
    BY <2>1, <2>2
<1>4. ASSUME NEW t \in Tokens, Die(t) PROVE RunIsWorked'
  <2> DEFINE j == [Queued EXCEPT !.tries = jobs[t].tries]
  <2>1. j.step # "none"
    BY DEF Queued, NoJob
  <2>2. run' = run /\ \/ jobs' = [jobs EXCEPT ![t] = j] /\ lost' = lost
                      \/ jobs' = [jobs EXCEPT ![t] = NoJob] /\ lost' = lost \cup {t}
    BY <1>4 DEF Die, Ends
  <2> HIDE DEF j
  <2>3. CASE jobs' = [jobs EXCEPT ![t] = j] /\ lost' = lost
    BY <1>e, <2>1, <2>2, <2>3
  <2>4. CASE jobs' = [jobs EXCEPT ![t] = NoJob] /\ lost' = lost \cup {t}
    BY <1>a, <2>2, <2>4
  <2> QED
    BY <2>2, <2>3, <2>4
<1>5. ASSUME NEW r \in Requests, NEW new, Starts(r, new), new.token = runs + 1 PROVE RunIsWorked'
  <2>1. runs + 1 \in Tokens
    BY <1>5, BoundsAssumption DEF Starts
  <2>2. run' = new /\ run'.token = runs + 1
    BY <1>5 DEF Starts
  <2>3. CASE jobs' = [jobs EXCEPT ![runs + 1] = Queued]
    BY <2>1, <2>2, <2>3, <1>a
  <2>4. CASE lost' = lost \cup {runs + 1}
    BY <2>2, <2>4
  <2> QED
    BY <1>5, <2>3, <2>4 DEF Starts
<1>6. ASSUME NEW r \in Requests, Run(r) PROVE RunIsWorked'
  <2>1. Fresh(reqs[r].scope, question).token = runs + 1
    BY DEF Fresh
  <2>2. ASSUME Resumes(reqs[r].saw, reqs[r].scope) PROVE Resumed(reqs[r].saw).token = runs + 1
    BY <2>2 DEF Resumes, Resumed, Runs, NoRun
  <2> QED
    BY <1>5, <1>6, <2>1, <2>2 DEF Run
<1>7. ASSUME NEW r \in Requests, Reword(r) PROVE RunIsWorked'
  <2>1. Fresh("all", question').token = runs + 1
    BY DEF Fresh
  <2> QED
    BY <1>5, <1>7, <2>1 DEF Reword
<1>8. CASE UNCHANGED <<run, jobs, lost>>
  BY <1>8
<1> QED
  BY <1>1, <1>2, <1>3, <1>4, <1>6, <1>7, <1>8
  DEF Next, vars, Jobs, Rest, Analyse, Reanalyse, WorkLate, StopLate, ThrowLate, Answer, Check, Read, Delete
-----------------------------------------------------------------------------
(* Every step goes onward: what was read stays read or is begun again, a     *)
(* wording gives way to a later one, and under one wording no answer goes.   *)
Kept == \A d \in Docs :
  /\ reads[d] <= reads'[d]
  /\ d \in Done /\ reads'[d] = reads[d] => d \in Done'
Onward ==
  /\ Kept
  /\ question <= question'
  /\ question' = question /\ ~Rewording' =>
       ~Rewording /\ \A d \in Docs : cells[d] # NoCell => cells'[d] # NoCell

LEMMA OnwardNext ==
  ASSUME TypeOK, [Next]_vars
  PROVE  Onward
<1> USE DEF TypeOK
<1>q. question \in Nat /\ question <= question
  OBVIOUS
<1>1. ASSUME Kept, question' = question, Rewording' => FALSE, ~Rewording,
             \A d \in Docs : cells[d] # NoCell => cells'[d] # NoCell
      PROVE  Onward
  BY <1>1, <1>q DEF Onward
<1>2. ASSUME Kept, question' = question, reqs' = reqs,
             \A d \in Docs : cells[d] # NoCell => cells'[d] # NoCell
      PROVE  Onward
  BY <1>2, <1>q DEF Onward, Rewording
<1>3. UNCHANGED Reading => Kept
  BY DEF Reading, Kept, Done
<1>4. ASSUME NEW t \in Tokens, Work(t) PROVE Onward
  <2>1. CASE cells' = cells
    BY <1>2, <1>3, <1>4, <2>1 DEF Work
  <2>2. CASE Write(t)
    <3>1. PICK d \in Docs : \E w \in Writes(jobs[t].step, cells[d], jobs[t].wording) : cells' = [cells EXCEPT ![d] = w.cell]
      BY <2>2 DEF Write
    <3>2. PICK w \in Writes(jobs[t].step, cells[d], jobs[t].wording) : cells' = [cells EXCEPT ![d] = w.cell]
      BY <3>1
    <3>3. jobs[t].wording \in 0..MaxWordings /\ jobs[t].step \in Saving
      BY <2>2 DEF Write, JobRecords
    <3>4. cells[d] # NoCell => w.cell # NoCell
      BY <3>2, <3>3, WritesType
    <3> QED
      BY <1>2, <1>3, <1>4, <3>2, <3>4 DEF Work
  <2> QED
    BY <1>4, <2>1, <2>2 DEF Work, Take, ReadPage, Ask, Move
<1>5. ASSUME NEW d \in Docs, Analyse(d) PROVE Onward
  <2>1. Kept
    <3>1. reads' = reads /\ \A e \in Docs : stage[e] = "done" => stage'[e] = "done"
      BY <1>5 DEF Analyse
    <3> QED
      BY <3>1 DEF Kept, Done
  <2> QED
    BY <1>2, <1>5, <2>1 DEF Analyse
<1>6. ASSUME NEW d \in Docs, WorkLate(d) PROVE Onward
  <2>1. CASE cells' = cells
    BY <1>2, <1>3, <1>6, <2>1 DEF WorkLate
  <2>2. CASE WriteLate(d)
    <3>1. PICK w \in Writes(late[d].step, cells[d], late[d].wording) : cells' = [cells EXCEPT ![d] = w.cell]
      BY <2>2 DEF WriteLate
    <3>2. late[d].wording \in 0..MaxWordings /\ late[d].step \in Saving
      BY <2>2 DEF WriteLate
    <3>3. cells[d] # NoCell => w.cell # NoCell
      BY <3>1, <3>2, WritesType
    <3> QED
      BY <1>2, <1>3, <1>6, <3>1, <3>3 DEF WorkLate
  <2> QED
    BY <1>6, <2>1, <2>2 DEF WorkLate, AskLate, EndLate
<1>7. ASSUME NEW d \in Docs, Answer(d) \/ Check(d) PROVE Onward
  <2>1. \A e \in Docs : cells[e] # NoCell => cells'[e] # NoCell
    <3>1. CASE Answer(d)
      BY <3>1 DEF Answer, NoCell
    <3>2. CASE Check(d)
      <4>1. PICK c \in BOOLEAN : cells' = [cells EXCEPT ![d].checked = c]
        BY <3>2 DEF Check
      <4>2. [cells[d] EXCEPT !.checked = c] # NoCell
        BY <3>2 DEF Check, Cells, NoCell
      <4> QED
        BY <4>1, <4>2
    <3> QED
      BY <1>7, <3>1, <3>2
  <2> QED
    BY <1>2, <1>3, <1>7, <2>1 DEF Answer, Check, Rest
<1>8. ASSUME NEW r \in Requests, Read(r) \/ Run(r) PROVE Onward
  <2>1. Rewording' = Rewording
    <3>1. reqs[r].step # "deleted" /\ reqs'[r].step # "deleted" /\ \A q \in Requests : q # r => reqs'[q] = reqs[q]
      BY <1>8 DEF Read, Run, Starts, Idle
    <3> QED
      BY <3>1 DEF Rewording
  <2>2. cells' = cells /\ question' = question /\ UNCHANGED Reading
    BY <1>8 DEF Read, Run, Starts, Rest
  <2> QED
    BY <2>1, <2>2, <1>3, <1>q DEF Onward
<1>9. ASSUME NEW r \in Requests, NEW reform \in BOOLEAN, Delete(r, reform) PROVE Onward
  <2>1. Rewording'
    BY <1>9 DEF Delete, Rewording
  <2>2. question' = question /\ UNCHANGED Reading
    BY <1>9 DEF Delete, Rest
  <2> QED
    BY <2>1, <2>2, <1>3, <1>q DEF Onward
<1>10. ASSUME NEW r \in Requests, Reword(r) PROVE Onward
  <2>1. question' = question + 1 /\ UNCHANGED Reading
    BY <1>10 DEF Reword, Starts
  <2> QED
    BY <2>1, <1>3, <1>q DEF Onward
<1>12. ASSUME NEW d \in Docs, Reanalyse(d) PROVE Onward
  <2>1. Kept
    BY <1>12 DEF Reanalyse, Kept, Done
  <2> QED
    BY <1>2, <1>12, <2>1 DEF Reanalyse
<1>11. CASE UNCHANGED <<Reading, cells, question, reqs>>
  BY <1>2, <1>3, <1>11
<1> QED
  BY <1>4, <1>5, <1>6, <1>7, <1>8, <1>9, <1>10, <1>11, <1>12
  DEF Next, vars, Pause, Throw, Die, StopLate, ThrowLate
-----------------------------------------------------------------------------
(* What a record says stays true under a step that goes onward.              *)
SoundNext(r) == RunSound(r, cells', reads', Done', question', Rewording')
JobNext(t, j) == JobSound(t, j, cells', reads', question', Rewording')

LEMMA CopyTypes ==
  ASSUME NEW r \in Runs \cup {NoRun}
  PROVE  r.of \in 0..MaxWordings /\ r.cursor \in Nat /\ r.due \subseteq Docs \X Nat /\ r.processed \subseteq Docs
<1>1. CASE r \in Runs
  BY <1>1, SizesAssumption, BoundsAssumption DEF Runs
<1>2. CASE r = NoRun
  BY <1>2, BoundsAssumption DEF NoRun
<1> QED
  BY <1>1, <1>2

(* What is due can only shrink.                                              *)
LEMMA DueShrinks ==
  ASSUME TypeOK, TypeOK', Kept, NEW r \in Runs \cup {NoRun}, Sound(r), NEW d \in DueAt(r, reads')
  PROVE  reads'[d] = reads[d] /\ d \in DueAt(r, reads)
<1>1. d \in Docs /\ reads'[d] \in Nat /\ reads[d] \in Nat /\ <<d, reads'[d]>> \in r.due
  BY DEF DueAt, TypeOK
<1>2. reads'[d] <= reads[d] /\ reads[d] <= reads'[d]
  <2>1. <<d, reads'[d]>>[2] <= reads[<<d, reads'[d]>>[1]]
    BY <1>1 DEF Sound, RunSound
  <2> QED
    BY <1>1, <2>1 DEF Kept
<1> QED
  BY <1>1, <1>2 DEF DueAt

LEMMA SoundKept ==
  ASSUME TypeOK, TypeOK', Onward, NEW r \in Runs \cup {NoRun}, Sound(r)
  PROVE  SoundNext(r)
<1>1. /\ question \in Nat /\ question' \in Nat /\ question <= question' /\ r.of \in Nat /\ r.of <= question
      /\ r.processed \subseteq Docs
  <2>1. question \in Nat /\ question' \in Nat
    BY BoundsAssumption DEF TypeOK
  <2>2. question <= question'
    BY DEF Onward
  <2>3. r.of \in Nat /\ r.processed \subseteq Docs
    BY CopyTypes, BoundsAssumption
  <2>4. r.of <= question
    BY DEF Sound, RunSound
  <2> QED
    BY <2>1, <2>2, <2>3, <2>4
<1>2. \A d \in DueAt(r, reads') : d \in Done' /\ (d <= r.cursor => d \in r.processed)
  <2>1. ASSUME NEW d \in DueAt(r, reads') PROVE d \in Done' /\ (d <= r.cursor => d \in r.processed)
    <3>1. reads'[d] = reads[d] /\ d \in DueAt(r, reads) /\ d \in Docs
      BY DueShrinks DEF Onward, DueAt
    <3> QED
      BY <3>1 DEF Onward, Kept, Sound, RunSound
  <2> QED
    BY <2>1
<1>4. ASSUME NEW p \in r.due PROVE p[2] <= reads'[p[1]]
  <2>1. p[1] \in Docs /\ p[2] \in Nat
    BY CopyTypes
  <2>2. /\ p[2] <= reads[p[1]] /\ reads[p[1]] <= reads'[p[1]]
        /\ reads[p[1]] \in Nat /\ reads'[p[1]] \in Nat
    BY <2>1 DEF Sound, RunSound, Onward, Kept, TypeOK
  <2> QED
    BY <2>1, <2>2
<1>3. ASSUME r.of = question', ~Rewording' PROVE Has(cells', r.processed)
  <2>1. r.of = question /\ question' = question
    BY <1>1, <1>3
  <2> QED
    BY <1>1, <1>3, <2>1 DEF Onward, Sound, RunSound, Has
<1> QED
  BY <1>1, <1>2, <1>3, <1>4 DEF SoundNext, Sound, RunSound

LEMMA JobKept ==
  ASSUME TypeOK, TypeOK', Onward, NEW t \in Tokens, NEW j \in JobRecords,
         Sound(j.run), JobSound(t, j, cells, reads, question, Rewording)
  PROVE  JobNext(t, j)
<1>1. /\ question \in Nat /\ question' \in Nat /\ question <= question' /\ j.run.of \in Nat /\ j.run.of <= question
      /\ j.page \subseteq Docs
  <2>1. j.run \in Runs \cup {NoRun} /\ j.page \subseteq Docs
    BY DEF JobRecords
  <2> QED
    BY <2>1, CopyTypes, BoundsAssumption DEF TypeOK, Onward, Sound, RunSound
<1>2. ASSUME j.run.of = question', ~Rewording' PROVE Has(cells', j.page \ j.todo)
  <2>1. j.run.of = question /\ question' = question
    BY <1>1, <1>2
  <2> QED
    BY <1>1, <1>2, <2>1 DEF Onward, JobSound, Has
<1>3. ASSUME j.step = "saved", j.run.of = question', ~Rewording', NEW d \in j.page, \A e \in j.page : d <= e
      PROVE  cells'[d] # NoCell
  <2>1. j.run.of = question /\ question' = question
    BY <1>1, <1>3
  <2> QED
    BY <1>1, <1>3, <2>1 DEF Onward, JobSound
<1>4. PageSound(j, reads')
  <2>1. \A d \in DueAt(j.run, reads') : d \in DueAt(j.run, reads)
    BY DueShrinks DEF Onward, JobRecords
  <2> QED
    BY <2>1 DEF JobSound, PageSound
<1> QED
  BY <1>2, <1>3, <1>4 DEF JobNext, JobSound

(* The parts of AllSound that a step leaves alone.                           *)
LEMMA KeptSound ==
  ASSUME TypeOK, TypeOK', Onward, AllSound
  PROVE  /\ SoundNext(run)
         /\ \A t \in Tokens : SoundNext(jobs[t].run) /\ JobNext(t, jobs[t])
         /\ \A r \in Requests : SoundNext(reqs[r].saw)
<1>1. SoundNext(run)
  BY SoundKept DEF TypeOK, AllSound
<1>2. ASSUME NEW t \in Tokens PROVE SoundNext(jobs[t].run) /\ JobNext(t, jobs[t])
  <2>1. jobs[t] \in JobRecords /\ jobs[t].run \in Runs \cup {NoRun}
    BY DEF TypeOK, JobRecords
  <2> QED
    BY <2>1, SoundKept, JobKept DEF AllSound
<1>3. ASSUME NEW r \in Requests PROVE SoundNext(reqs[r].saw)
  <2>1. reqs[r].saw \in Runs \cup {NoRun}
    BY DEF TypeOK
  <2> QED
    BY <2>1, SoundKept DEF AllSound
<1> QED
  BY <1>1, <1>2, <1>3

(* No job, one that waits, and a run's job when it is queued.                *)
LEMMA EmptySound ==
  ASSUME TypeOK', NEW t \in Tokens, NEW n \in 0..(Attempts - 1)
  PROVE  /\ SoundNext(NoRun)
         /\ NoJob.run = NoRun /\ JobNext(t, NoJob)
         /\ [Queued EXCEPT !.tries = n].run = NoRun /\ JobNext(t, [Queued EXCEPT !.tries = n])
         /\ Queued.run = NoRun /\ JobNext(t, Queued)
<1>1. question' \in Nat
  BY BoundsAssumption DEF TypeOK
<1>2. SoundNext(NoRun)
  BY <1>1 DEF SoundNext, RunSound, NoRun, Has, DueAt
<1>3. NoJob.run = NoRun /\ NoJob.step = "none" /\ NoJob.page = {}
  BY DEF NoJob
<1>4. Queued.run = NoRun /\ Queued.step = "waiting" /\ Queued.page = {}
  BY DEF NoJob, Queued
<1>5. /\ [Queued EXCEPT !.tries = n].run = NoRun /\ [Queued EXCEPT !.tries = n].step = "waiting"
      /\ [Queued EXCEPT !.tries = n].page = {}
  BY DEF NoJob, Queued
<1>6. ASSUME NEW j, j.run = NoRun, j.step \in {"none", "waiting"}, j.page = {} PROVE JobNext(t, j)
  BY <1>6 DEF JobNext, JobSound, PageSound, Has, Busy, Saving, NoRun, DueAt
<1> QED
  BY <1>2, <1>3, <1>4, <1>5, <1>6

(* A step that writes the run and one job.                                   *)
LEMMA AllSoundOf ==
  ASSUME TypeOK, TypeOK', Onward, AllSound, NEW t \in Tokens, NEW j,
         jobs' = [jobs EXCEPT ![t] = j], SoundNext(j.run), JobNext(t, j),
         SoundNext(run'), reqs' = reqs
  PROVE  AllSound'
<1>1. \A u \in Tokens : SoundNext(jobs'[u].run) /\ JobNext(u, jobs'[u])
  BY KeptSound DEF TypeOK
<1>2. \A r \in Requests : SoundNext(reqs'[r].saw)
  BY KeptSound
<1> QED
  BY <1>1, <1>2 DEF AllSound, Sound, SoundNext, JobNext
-----------------------------------------------------------------------------
(* The status and the token say nothing of how far a run is.                 *)
LEMMA SameCopy ==
  ASSUME NEW r \in Runs, NEW s, NEW k
  PROVE  /\ SoundNext(r) => SoundNext([r EXCEPT !.status = s]) /\ SoundNext([r EXCEPT !.token = k, !.status = s])
         /\ Sound(r) => Sound([r EXCEPT !.status = s])
         /\ [r EXCEPT !.status = s].due = r.due /\ [r EXCEPT !.status = s].processed = r.processed
         /\ [r EXCEPT !.status = s].token = r.token
<1>1. /\ [r EXCEPT !.status = s].of = r.of /\ [r EXCEPT !.status = s].due = r.due
      /\ [r EXCEPT !.status = s].processed = r.processed /\ [r EXCEPT !.status = s].cursor = r.cursor
      /\ [r EXCEPT !.status = s].token = r.token
  BY DEF Runs
<1>2. LET q == [r EXCEPT !.token = k, !.status = s]
      IN  q.of = r.of /\ q.due = r.due /\ q.processed = r.processed /\ q.cursor = r.cursor
  BY DEF Runs
<1> QED
  BY <1>1, <1>2 DEF SoundNext, Sound, RunSound, DueAt

(* The document a job has dealt with may be put behind the cursor.           *)
LEMMA AdvancedSound ==
  ASSUME TypeOK, AllSound, NEW t \in Tokens, NEW d \in Docs, GoesOn(t, d)
  PROVE  Sound(Advanced(jobs[t].run, d))
<1> DEFINE r == jobs[t].run
           a == Advanced(r, d)
<1>1. /\ jobs[t].step \in Busy /\ r \in Runs /\ Sound(r) /\ PageSound(jobs[t], reads)
      /\ d \in jobs[t].page /\ \A e \in jobs[t].page : d <= e
  BY DEF AllSound, JobSound, GoesOn, AtHead, Busy
<1>2. /\ a.of = r.of /\ a.due = r.due /\ a.cursor = d /\ a.processed = r.processed \cup {d}
      /\ DueAt(a, reads) = DueAt(r, reads) /\ DueAt(r, reads) \subseteq Docs /\ jobs[t].page \subseteq Docs /\ r.cursor \in Nat
  <2>1. a.of = r.of /\ a.due = r.due /\ a.cursor = d /\ a.processed = r.processed \cup {d}
    BY <1>1, AdvancedStep
  <2>2. jobs[t].page \subseteq Docs
    BY DEF TypeOK, JobRecords
  <2>3. r.cursor \in Nat
    BY <1>1, SizesAssumption DEF Runs
  <2> QED
    BY <2>1, <2>2, <2>3 DEF DueAt
<1>3. ASSUME NEW e \in DueAt(a, reads), e <= d PROVE e \in a.processed
  <2>1. CASE e <= r.cursor
    BY <1>1, <1>2, <2>1 DEF Sound, RunSound
  <2>2. CASE e > r.cursor
    <3>1. e \in jobs[t].page \/ \A x \in jobs[t].page : x < e
      BY <1>1, <1>2, <2>2 DEF PageSound
    <3>2. e = d
      BY <1>1, <1>2, <1>3, <3>1
    <3> QED
      BY <3>2, <1>2
  <2> QED
    BY <2>1, <2>2, <1>2
<1>4. ASSUME r.of = question, ~Rewording PROVE Has(cells, a.processed)
  <2>1. Has(cells, r.processed)
    BY <1>1, <1>4 DEF Sound, RunSound
  <2>2. cells[d] # NoCell
    <3>1. CASE jobs[t].step = "saved"
      BY <1>1, <1>4, <3>1 DEF AllSound, JobSound
    <3>2. CASE d \notin jobs[t].todo
      BY <1>1, <1>4, <3>2 DEF AllSound, JobSound, Has
    <3> QED
      BY <3>1, <3>2 DEF GoesOn
  <2> QED
    BY <1>2, <2>1, <2>2 DEF Has
<1>5. a.of <= question /\ DueAt(a, reads) \subseteq Done /\ \A p \in a.due : p[2] <= reads[p[1]]
  BY <1>1, <1>2 DEF Sound, RunSound
<1> HIDE DEF a, r
<1> QED
  BY <1>2, <1>3, <1>4, <1>5 DEF Sound, RunSound, a, r

LEMMA InHandSound ==
  ASSUME TypeOK, AllSound, NEW t \in Tokens, NEW x \in InHand(t)
  PROVE  Sound(x)
BY AdvancedSound DEF InHand, AllSound

(* A page leaves out none that comes before one of it.                       *)
LEMMA PageIsNext ==
  ASSUME NEW S \in SUBSET Docs, NEW d \in Page(S), NEW e \in S, e <= d
  PROVE  e \in Page(S)
<1> DEFINE Before(x) == {y \in S : y < x}
<1>1. IsFiniteSet(Docs)
  BY FS_Interval, SizesAssumption
<1>2. IsFiniteSet(Before(d)) /\ Before(d) \subseteq Docs
  BY <1>1, FS_Subset
<1>3. d \in Docs /\ e \in Docs
  BY DEF Page
<1>4. Before(e) \subseteq Before(d)
  <2>1. ASSUME NEW y \in S, y < e PROVE y < d
    <3>1. y \in Int /\ e \in Int /\ d \in Int
      BY <1>3, SizesAssumption
    <3> QED
      BY <3>1, <2>1
  <2> QED
    BY <2>1
<1>5. IsFiniteSet(Before(e)) /\ Cardinality(Before(e)) <= Cardinality(Before(d))
  BY <1>2, <1>4, FS_Subset
<1>6. Cardinality(Before(e)) \in Nat /\ Cardinality(Before(d)) \in Nat
  BY <1>2, <1>5, FS_CardinalityType
<1>7. Cardinality(Before(d)) < PageSize
  BY DEF Page
<1>8. Cardinality(Before(e)) < PageSize
  BY <1>5, <1>6, <1>7, SizesAssumption
<1> QED
  BY <1>8 DEF Page
-----------------------------------------------------------------------------
LEMMA SoundWork ==
  ASSUME TypeOK, TypeOK', Onward, AllSound, DoneIsThrough, NEW t \in Tokens, Work(t)
  PROVE  AllSound' /\ DoneIsThrough'
<1>a. reqs' = reqs /\ question' = question /\ reads' = reads /\ jobs[t] \in JobRecords /\ jobs \in [Tokens -> JobRecords] /\ run \in Runs
  BY DEF Work, TypeOK, Reading
<1>b. jobs[t].step \in Busy => jobs[t].run \in Runs /\ jobs[t].run.token = t /\ jobs[t].run.status = "RUNNING"
  BY DEF AllSound, JobSound
<1>c. SoundNext(run) /\ SoundNext(jobs[t].run) /\ JobNext(t, jobs[t])
  BY KeptSound
<1>d. SoundNext(NoJob.run) /\ JobNext(t, NoJob)
  <2>1. 0 \in 0..(Attempts - 1)
    BY SizesAssumption
  <2> QED
    BY <2>1, EmptySound
<1>1. CASE Take(t)
  <2> DEFINE mine == [run EXCEPT !.status = "RUNNING"]
             j == [jobs[t] EXCEPT !.step = "turn", !.run = mine, !.wording = question]
  <2>1. CASE Takes(t)
    <3>1. run' = mine /\ jobs' = [jobs EXCEPT ![t] = j]
      BY <1>1, <2>1 DEF Take
    <3>2. SoundNext(mine) /\ mine \in Runs /\ mine.token = t /\ mine.status = "RUNNING"
      BY <1>a, <1>c, <2>1, SameCopy DEF Runs, Takes, Current
    <3>3. j.run = mine /\ j.step = "turn" /\ j.page = {}
      BY <1>1, <1>a DEF Take, JobRecords, AllSound, JobSound, Busy, Saving
    <3> HIDE DEF j, mine
    <3>4. JobNext(t, j)
      BY <3>2, <3>3 DEF JobNext, JobSound, PageSound, Has, Busy
    <3>5. AllSound'
      BY <1>a, <3>1, <3>2, <3>3, <3>4, AllSoundOf
    <3>6. DoneIsThrough'
      BY <3>1, <3>2 DEF DoneIsThrough
    <3> QED
      BY <3>5, <3>6
  <2>2. CASE ~Takes(t)
    <3>1. run' = run /\ jobs' = [jobs EXCEPT ![t] = NoJob]
      BY <1>1, <2>2 DEF Take, Ends
    <3> QED
      BY <1>a, <1>c, <1>d, <3>1, AllSoundOf DEF DoneIsThrough
  <2> QED
    BY <2>1, <2>2
<1>2. CASE ReadPage(t)
  <2> DEFINE r == jobs[t].run
  <2>0. r \in Runs /\ DueAt(r, reads) \subseteq Done /\ \A d \in DueAt(r, reads) : d <= r.cursor => d \in r.processed
    BY <1>2, <1>b DEF ReadPage, Busy, AllSound, Sound, RunSound
  <2>1. CASE Ahead(t) = {}
    <3>1. jobs' = [jobs EXCEPT ![t] = NoJob] /\ (run' = run \/ run' = [r EXCEPT !.status = "DONE"])
      BY <1>2, <2>1 DEF ReadPage, Ends, Saves
    <3>2. DueAt(r, reads) \subseteq r.processed
      <4>1. ASSUME NEW d \in DueAt(r, reads) PROVE d <= r.cursor
        <5>1. d \in Done /\ ~(d > r.cursor) /\ d \in Docs /\ r.cursor \in 0..N
          BY <2>0, <2>1, <4>1 DEF Ahead, Done, Runs
        <5> QED
          BY <5>1, SizesAssumption
      <4> QED
        BY <2>0, <4>1
    <3>3. /\ SoundNext([r EXCEPT !.status = "DONE"])
          /\ [r EXCEPT !.status = "DONE"].due = r.due /\ [r EXCEPT !.status = "DONE"].processed = r.processed
      BY <1>c, <2>0, SameCopy
    <3>4. SoundNext(run')
      BY <1>c, <3>1, <3>3
    <3>5. AllSound'
      BY <1>a, <1>d, <3>1, <3>4, AllSoundOf
    <3>6. DoneIsThrough'
      BY <1>a, <3>1, <3>2, <3>3 DEF DoneIsThrough, DueAt
    <3> QED
      BY <3>5, <3>6
  <2>2. CASE Ahead(t) # {}
    <3> DEFINE P == Page(Ahead(t))
               T == {d \in P : ToAsk(d, r.scope)}
               j == [jobs[t] EXCEPT !.page = P, !.todo = T]
    <3>1. run' = run /\ jobs' = [jobs EXCEPT ![t] = j] /\ cells' = cells
      BY <1>2, <2>2 DEF ReadPage
    <3>2. j.run = r /\ j.step = "turn" /\ j.page = P /\ j.todo = T
      BY <1>2, <1>a DEF ReadPage, JobRecords
    <3>3. r \in Runs /\ r.token = t /\ r.status = "RUNNING"
      BY <1>2, <1>b DEF ReadPage, Busy
    <3>4. \A d \in P : d > r.cursor
      BY DEF Page, Ahead
    <3>5. ASSUME NEW d \in DueAt(r, reads), d > r.cursor PROVE d \in P \/ \A e \in P : e < d
      <4>1. d \in Ahead(t) /\ Ahead(t) \in SUBSET Docs
        BY <2>0, <3>5 DEF Ahead, Done
      <4>2. \A e \in P : d <= e => d \in P
        BY <4>1, PageIsNext
      <4>3. d \in Int /\ P \subseteq Int
        BY <4>1, SizesAssumption DEF Page
      <4> QED
        BY <4>2, <4>3
    <3>6. \A d \in P \ T : cells[d] # NoCell
      BY DEF ToAsk
    <3> HIDE DEF j, P, T
    <3>7. JobNext(t, j)
      BY <1>a, <3>1, <3>2, <3>3, <3>4, <3>5, <3>6 DEF JobNext, JobSound, PageSound, Has, Busy
    <3> QED
      BY <1>a, <1>c, <3>1, <3>2, <3>7, AllSoundOf DEF DoneIsThrough
  <2> QED
    BY <2>1, <2>2
<1>3. ASSUME run' = run, NEW s \in Saving \cup {"saved"}, jobs[t].step \in Busy,
             jobs' = [jobs EXCEPT ![t] = [jobs[t] EXCEPT !.step = s]],
             s = "saved" => \A d \in jobs[t].page : (\A e \in jobs[t].page : d <= e) => cells'[d] # NoCell
      PROVE  AllSound' /\ DoneIsThrough'
  <2> DEFINE j == [jobs[t] EXCEPT !.step = s]
  <2>1. j.run = jobs[t].run /\ j.page = jobs[t].page /\ j.todo = jobs[t].todo /\ j.step = s
    BY <1>a DEF JobRecords
  <2> HIDE DEF j
  <2>2. JobNext(t, j)
    BY <1>b, <1>c, <1>3, <2>1 DEF JobNext, JobSound, PageSound, Busy
  <2>3. SoundNext(j.run)
    BY <1>c, <2>1
  <2> QED
    BY <1>a, <1>c, <1>3, <2>2, <2>3, AllSoundOf DEF j, DoneIsThrough
<1>4. CASE Ask(t)
  BY <1>3, <1>4 DEF Ask, Busy, Saving
<1>5. CASE Write(t)
  <2>1. PICK d \in Docs : AtHead(t, d) /\ \E w \in Writes(jobs[t].step, cells[d], jobs[t].wording) :
          cells' = [cells EXCEPT ![d] = w.cell] /\ jobs' = [jobs EXCEPT ![t].step = w.step]
    BY <1>5 DEF Write
  <2>2. PICK w \in Writes(jobs[t].step, cells[d], jobs[t].wording) :
          cells' = [cells EXCEPT ![d] = w.cell] /\ jobs' = [jobs EXCEPT ![t].step = w.step]
    BY <2>1
  <2>3. jobs[t].wording \in 0..MaxWordings /\ jobs[t].step \in Saving /\ cells[d] \in Cells /\ DOMAIN cells = Docs
    BY <1>5 DEF Write, TypeOK, JobRecords
  <2>4. w.step \in Saving \cup {"saved"} /\ (w.step = "saved" => w.cell # NoCell)
    BY <2>2, <2>3, WritesType
  <2>5. ASSUME w.step = "saved", NEW x \in jobs[t].page, \A e \in jobs[t].page : x <= e PROVE cells'[x] # NoCell
    <3>1. d \in Int /\ x \in Int /\ d <= x /\ x <= d
      BY <1>a, <2>1, <2>5, SizesAssumption DEF AtHead, JobRecords
    <3>2. x = d
      BY <3>1
    <3> QED
      BY <2>2, <2>3, <2>4, <2>5, <3>2
  <2>6. jobs[t].step \in Busy /\ run' = run
    BY <1>5, <2>3 DEF Busy, Write
  <2> QED
    BY <1>3, <2>2, <2>4, <2>5, <2>6
<1>6. CASE Move(t)
  <2>1. PICK d \in Docs :
          /\ GoesOn(t, d)
          /\ IF Current(t)
             THEN run' = Advanced(jobs[t].run, d) /\ jobs' = [jobs EXCEPT ![t] = Passed(jobs[t], d)]
             ELSE Ends(t) /\ UNCHANGED run
    BY <1>6 DEF Move
  <2>2. CASE Current(t)
    <3> DEFINE r == jobs[t].run
               a == Advanced(r, d)
               j == Passed(jobs[t], d)
    <3>1. r \in Runs /\ r.token = t /\ r.status = "RUNNING" /\ AtHead(t, d)
      BY <1>b, <2>1 DEF GoesOn, Busy
    <3>2. a \in Runs /\ a.token = t /\ a.status = "RUNNING" /\ a.cursor = d /\ a.of = r.of /\ DueAt(a, reads) = DueAt(r, reads)
      <4>1. d \in 0..N /\ r.processed \cup {d} \in SUBSET Docs
        BY <3>1, SizesAssumption DEF Runs
      <4> QED
        BY <3>1, <4>1 DEF Advanced, Runs, DueAt
    <3>3. Sound(a) /\ SoundNext(a)
      BY <2>1, <3>2, AdvancedSound, SoundKept
    <3>4. j.run = a /\ j.step = "turn" /\ j.page = jobs[t].page \ {d} /\ j.todo = jobs[t].todo \ {d}
      BY <1>a DEF Passed, JobRecords
    <3>5. d \in jobs[t].page /\ jobs[t].page \subseteq Docs /\ DueAt(r, reads) \subseteq Docs /\ r.cursor \in 0..N /\ PageSound(jobs[t], reads)
          /\ \A e \in jobs[t].page : d <= e
      BY <1>a, <3>1 DEF AllSound, JobSound, JobRecords, Runs, AtHead, DueAt
    <3>6. \A e \in j.page : e > a.cursor
      BY <3>2, <3>4, <3>5, SizesAssumption
    <3>7. ASSUME NEW e \in DueAt(a, reads), e > a.cursor PROVE e \in j.page \/ \A x \in j.page : x < e
      <4>1. d > r.cursor /\ d \in Int /\ e \in Int /\ r.cursor \in Int
        BY <3>2, <3>5, <3>7, SizesAssumption DEF PageSound
      <4>2. e > r.cursor /\ e # d
        BY <3>2, <3>7, <4>1
      <4>3. e \in jobs[t].page \/ \A x \in jobs[t].page : x < e
        BY <3>2, <3>5, <3>7, <4>2 DEF PageSound
      <4> QED
        BY <3>4, <4>2, <4>3
    <3>8. ASSUME a.of = question', ~Rewording' PROVE Has(cells', j.page \ j.todo)
      BY <1>c, <3>2, <3>4, <3>8 DEF JobNext, JobSound, Has
    <3>9. run' = a /\ jobs' = [jobs EXCEPT ![t] = j]
      BY <2>1, <2>2
    <3> HIDE DEF a, j
    <3>10. JobNext(t, j)
      BY <1>a, <3>2, <3>4, <3>6, <3>7, <3>8 DEF JobNext, JobSound, PageSound, Busy
    <3>11. AllSound'
      BY <1>a, <3>3, <3>4, <3>9, <3>10, AllSoundOf
    <3>12. DoneIsThrough'
      BY <3>2, <3>9 DEF DoneIsThrough
    <3> QED
      BY <3>11, <3>12
  <2>3. CASE ~Current(t)
    BY <1>a, <1>c, <1>d, <2>1, <2>3, AllSoundOf DEF Ends, DoneIsThrough
  <2> QED
    BY <2>2, <2>3
<1> QED
  BY <1>1, <1>2, <1>4, <1>5, <1>6 DEF Work

(* What was through stays through.                                           *)
LEMMA ThroughKept ==
  ASSUME TypeOK, TypeOK', Onward, Sound(run), DoneIsThrough, run' = run
  PROVE  DoneIsThrough'
<1>1. run \in Runs \cup {NoRun} /\ Kept
  BY DEF TypeOK, Onward
<1>2. \A d \in DueAt(run, reads') : d \in DueAt(run, reads)
  BY <1>1, DueShrinks
<1> QED
  BY <1>2 DEF DoneIsThrough

LEMMA SoundStarts ==
  ASSUME TypeOK, TypeOK', Onward, AllSound, NEW r \in Requests, NEW new,
         Starts(r, new), SoundNext(new), new.status = "QUEUED"
  PROVE  AllSound' /\ DoneIsThrough'
<1>1. runs + 1 \in Tokens /\ 0 \in 0..(Attempts - 1)
  BY SizesAssumption, BoundsAssumption DEF Starts, TypeOK
<1>2. run' = new /\ (jobs' = jobs \/ jobs' = [jobs EXCEPT ![runs + 1] = Queued])
  BY DEF Starts
<1>3. \A t \in Tokens : SoundNext(jobs'[t].run) /\ JobNext(t, jobs'[t])
  BY <1>1, <1>2, EmptySound, KeptSound DEF TypeOK
<1>4. \A q \in Requests : SoundNext(reqs'[q].saw)
  <2>1. \A q \in Requests : reqs'[q] = reqs[q] \/ reqs'[q] = Idle
    BY DEF Starts, TypeOK
  <2>2. SoundNext(Idle.saw)
    BY <1>1, EmptySound DEF Idle
  <2> QED
    BY <2>1, <2>2, KeptSound
<1> QED
  BY <1>2, <1>3, <1>4 DEF AllSound, Sound, SoundNext, JobNext, DoneIsThrough

LEMMA FreshSound ==
  ASSUME TypeOK', UNCHANGED Reading, NEW s \in Scopes
  PROVE  SoundNext(Fresh(s, question')) /\ Fresh(s, question').status = "QUEUED"
<1>1. question' \in Nat
  BY BoundsAssumption DEF TypeOK
<1>2. Done' = Done /\ Done \subseteq Docs /\ reads' = reads /\ reads \in [Docs -> Nat]
  BY DEF Done, Reading, TypeOK
<1>3. LET f == Fresh(s, question')
      IN  f.of = question' /\ f.due = {<<d, reads[d]>> : d \in Done} /\ f.processed = {} /\ f.cursor = 0 /\ f.status = "QUEUED"
  BY DEF Fresh
<1>4. ASSUME NEW f, f.of = question', f.due = {<<d, reads[d]>> : d \in Done}, f.processed = {}, f.cursor = 0 PROVE SoundNext(f)
  <2>1. \A d \in Docs, k \in Nat : <<d, k>> \in f.due => d \in Done /\ k = reads[d]
    BY <1>2, <1>4
  <2>2. DueAt(f, reads') \subseteq Done
    BY <1>2, <2>1 DEF DueAt
  <2>3. \A d \in DueAt(f, reads') : ~(d <= f.cursor)
    <3>1. \A d \in Docs : d \in Int /\ ~(d <= 0)
      BY SizesAssumption
    <3> QED
      BY <1>2, <1>4, <2>2, <3>1
  <2>4. ASSUME NEW p \in f.due PROVE p[2] <= reads'[p[1]]
    <3>1. PICK d \in Done : p = <<d, reads[d]>>
      BY <1>4
    <3>2. reads[d] \in Nat /\ p[1] = d /\ p[2] = reads[d]
      BY <1>2, <3>1
    <3> QED
      BY <1>2, <3>2
  <2>5. f.of <= question'
    BY <1>1, <1>4
  <2> QED
    BY <1>2, <1>4, <2>2, <2>3, <2>4, <2>5 DEF SoundNext, RunSound, Has
<1> QED
  BY <1>3, <1>4

LEMMA SoundStep ==
  ASSUME TypeOK, TypeOK', AllSound, DoneIsThrough, [Next]_vars
  PROVE  AllSound' /\ DoneIsThrough'
<1>o. Onward
  BY OnwardNext
<1>k. /\ SoundNext(run)
      /\ \A t \in Tokens : SoundNext(jobs[t].run) /\ JobNext(t, jobs[t])
      /\ \A r \in Requests : SoundNext(reqs[r].saw)
  BY <1>o, KeptSound
<1>h. run' = run => DoneIsThrough'
  BY <1>o, ThroughKept DEF AllSound
<1>t. run \in Runs /\ \A t \in Tokens : jobs[t] \in JobRecords /\ (jobs[t].step \in Busy => jobs[t].run \in Runs)
  BY DEF TypeOK, AllSound, JobSound
<1>n. \A n \in 0..(Attempts - 1) : \A t \in Tokens :
        SoundNext([Queued EXCEPT !.tries = n].run) /\ JobNext(t, [Queued EXCEPT !.tries = n])
  BY EmptySound
<1>m. \A t \in Tokens : SoundNext(NoJob.run) /\ JobNext(t, NoJob)
  <2>1. 0 \in 0..(Attempts - 1)
    BY SizesAssumption
  <2> QED
    BY <2>1, EmptySound
<1>s. ASSUME run' = run, jobs' = jobs, \A r \in Requests : SoundNext(reqs'[r].saw)
      PROVE  AllSound' /\ DoneIsThrough'
  BY <1>h, <1>k, <1>s DEF AllSound, Sound, SoundNext, JobNext
<1>1. ASSUME NEW t \in Tokens, Work(t) PROVE AllSound' /\ DoneIsThrough'
  BY <1>o, <1>1, SoundWork
<1>2. ASSUME NEW t \in Tokens, Pause(t) PROVE AllSound' /\ DoneIsThrough'
  <2>1. SoundNext([jobs[t].run EXCEPT !.status = "PAUSED"]) /\ [jobs[t].run EXCEPT !.status = "PAUSED"].status = "PAUSED"
    <3>1. jobs[t].run \in Runs
      BY <1>2, <1>t DEF Pause, Busy, Saving
    <3> QED
      BY <3>1, <1>k, SameCopy DEF Runs
  <2>2. run' = run \/ run' = [jobs[t].run EXCEPT !.status = "PAUSED"]
    BY <1>2 DEF Pause, Saves
  <2>3. SoundNext(run') /\ DoneIsThrough'
    BY <1>h, <1>k, <2>1, <2>2 DEF DoneIsThrough
  <2>4. jobs' = [jobs EXCEPT ![t] = NoJob] /\ reqs' = reqs
    BY <1>2 DEF Pause, Ends
  <2> QED
    BY <1>o, <1>m, <2>3, <2>4, AllSoundOf
<1>3. ASSUME NEW t \in Tokens, Throw(t) PROVE AllSound' /\ DoneIsThrough'
  <2>1. SoundNext(run') /\ DoneIsThrough'
    <3>1. CASE run' = run
      BY <1>h, <1>k, <3>1
    <3>2. CASE run' # run
      <4>1. PICK x \in InHand(t) : run' = [x EXCEPT !.status = "FAILED"] /\ jobs[t].step # "waiting"
        BY <1>3, <3>2 DEF Throw, Saves
      <4>2. x \in Runs /\ Sound(x)
        BY <1>3, <1>t, <4>1, InHandType, InHandSound DEF Throw, Busy, Saving
      <4>3. SoundNext(x)
        BY <1>o, <4>2, SoundKept
      <4>4. run'.status = "FAILED" /\ SoundNext([x EXCEPT !.status = "FAILED"])
        BY <4>1, <4>2, <4>3, SameCopy DEF Runs
      <4> QED
        BY <4>1, <4>4 DEF DoneIsThrough
    <3> QED
      BY <3>1, <3>2
  <2>2. PICK j : jobs' = [jobs EXCEPT ![t] = j] /\ SoundNext(j.run) /\ JobNext(t, j)
    <3>1. CASE LastTry(jobs[t])
      BY <1>3, <1>m, <3>1 DEF Throw
    <3>2. CASE ~LastTry(jobs[t])
      <4>1. jobs[t].tries + 1 \in 0..(Attempts - 1)
        BY <1>t, <3>2, SizesAssumption DEF LastTry, JobRecords
      <4> QED
        BY <1>3, <1>n, <3>2, <4>1 DEF Throw
    <3> QED
      BY <3>1, <3>2
  <2>3. reqs' = reqs
    BY <1>3 DEF Throw
  <2> QED
    BY <1>o, <2>1, <2>2, <2>3, AllSoundOf
<1>4. ASSUME NEW t \in Tokens, Die(t) PROVE AllSound' /\ DoneIsThrough'
  <2>1. run' = run /\ reqs' = reqs
    BY <1>4 DEF Die
  <2>2. PICK j : jobs' = [jobs EXCEPT ![t] = j] /\ SoundNext(j.run) /\ JobNext(t, j)
    <3>1. jobs[t].tries \in 0..(Attempts - 1)
      BY <1>t DEF JobRecords
    <3> QED
      BY <1>4, <1>m, <1>n, <3>1 DEF Die, Ends
  <2> QED
    BY <1>h, <1>o, <1>k, <2>1, <2>2, AllSoundOf
<1>5. ASSUME NEW r \in Requests, Read(r) PROVE AllSound' /\ DoneIsThrough'
  <2>1. run' = run /\ jobs' = jobs
    BY <1>5 DEF Read, Rest, Jobs
  <2>2. \A q \in Requests : reqs'[q] = reqs[q] \/ reqs'[q].saw = run
    BY <1>5 DEF Read, TypeOK
  <2> QED
    BY <1>k, <1>s, <2>1, <2>2
<1>6. ASSUME NEW r \in Requests, Run(r) PROVE AllSound' /\ DoneIsThrough'
  <2>1. UNCHANGED Reading /\ question' = question /\ reqs[r].scope \in Scopes
    BY <1>6 DEF Run, Starts, TypeOK
  <2>2. CASE Resumes(reqs[r].saw, reqs[r].scope)
    <3> DEFINE prior == reqs[r].saw
    <3>1. prior \in Runs
      BY <2>2 DEF Resumes, NoRun, TypeOK
    <3>2. SoundNext(Resumed(prior)) /\ Resumed(prior).status = "QUEUED"
      BY <1>k, <3>1, SameCopy DEF Resumed, Runs
    <3>3. Starts(r, Resumed(prior))
      BY <1>6, <2>2 DEF Run
    <3> QED
      BY <1>o, <3>2, <3>3, SoundStarts
  <2>3. CASE ~Resumes(reqs[r].saw, reqs[r].scope)
    <3> DEFINE f == Fresh(reqs[r].scope, question')
    <3>1. SoundNext(f) /\ f.status = "QUEUED"
      BY <2>1, FreshSound
    <3>2. Starts(r, f)
      BY <1>6, <2>1, <2>3 DEF Run
    <3> QED
      BY <1>o, <3>1, <3>2, SoundStarts
  <2> QED
    BY <2>2, <2>3
<1>7. ASSUME NEW r \in Requests, NEW reform \in BOOLEAN, Delete(r, reform) PROVE AllSound' /\ DoneIsThrough'
  <2>1. run' = run /\ jobs' = jobs
    BY <1>7 DEF Delete, Rest, Jobs
  <2>2. \A q \in Requests : reqs'[q].saw = reqs[q].saw
    BY <1>7 DEF Delete, TypeOK
  <2> QED
    BY <1>k, <1>s, <2>1, <2>2
<1>8. ASSUME NEW r \in Requests, Reword(r) PROVE AllSound' /\ DoneIsThrough'
  <2> DEFINE f == Fresh("all", question')
  <2>1. SoundNext(f) /\ f.status = "QUEUED"
    BY <1>8, FreshSound DEF Reword, Starts, Scopes
  <2>2. Starts(r, f)
    BY <1>8 DEF Reword
  <2> QED
    BY <1>o, <2>1, <2>2, SoundStarts
<1>9. CASE UNCHANGED <<run, jobs, reqs>>
  BY <1>k, <1>s, <1>9
<1> QED
  BY <1>1, <1>2, <1>3, <1>4, <1>5, <1>6, <1>7, <1>8, <1>9
  DEF Next, vars, Jobs, Rest, Analyse, Reanalyse, WorkLate, StopLate, ThrowLate, Answer, Check
-----------------------------------------------------------------------------
LEMMA InvInit == Init => Inv
<1> SUFFICES ASSUME Init PROVE Inv
  OBVIOUS
<1>1. TypeOK
  BY TypeInit
<1>2. 1 \in Tokens /\ 1 \in Nat
  BY BoundsAssumption
<1>3. /\ run.token = 1 /\ run.status = "QUEUED" /\ run.of = 1 /\ run.cursor = 0
      /\ run.processed = {} /\ run.due = {<<d, reads[d]>> : d \in Done}
  BY DEF Init, Fresh
<1>4. RunIsWorked /\ DoneIsThrough
  BY <1>2, <1>3 DEF Init, RunIsWorked, DoneIsThrough, Queued, NoJob
<1>5. Sound(run)
  <2>1. \A d \in Docs, k \in Nat : <<d, k>> \in run.due => d \in Done /\ k = reads[d]
    BY <1>1, <1>3 DEF TypeOK
  <2>2. DueAt(run, reads) \subseteq Done /\ DueAt(run, reads) \subseteq Docs
    BY <1>1, <2>1 DEF DueAt, TypeOK
  <2>3. \A d \in DueAt(run, reads) : ~(d <= 0)
    BY <2>2, SizesAssumption
  <2>4. ASSUME NEW p \in run.due PROVE p[2] <= reads[p[1]]
    <3>1. PICK d \in Done : p = <<d, reads[d]>>
      BY <1>3
    <3>2. reads[d] \in Nat /\ p[1] = d /\ p[2] = reads[d]
      BY <1>1, <3>1 DEF TypeOK, Done
    <3> QED
      BY <3>2
  <2>5. run.of <= question
    BY <1>2, <1>3 DEF Init
  <2> QED
    BY <1>3, <2>2, <2>3, <2>4, <2>5 DEF Sound, RunSound, Has
<1>6. Sound(NoRun)
  BY <1>2 DEF Init, Sound, RunSound, Has, NoRun, DueAt
<1>7. ASSUME NEW t \in Tokens, NEW j \in {NoJob, Queued}
      PROVE  Sound(j.run) /\ JobSound(t, j, cells, reads, question, Rewording)
  <2>1. j.run = NoRun /\ j.step \in {"none", "waiting"} /\ j.page = {}
    BY DEF NoJob, Queued
  <2> QED
    BY <1>6, <2>1 DEF JobSound, PageSound, Has, Busy, Saving, NoRun, DueAt
<1>8. AllSound
  BY <1>5, <1>6, <1>7 DEF AllSound, Init, Idle
<1> QED
  BY <1>1, <1>4, <1>8 DEF Inv

(* Whatever is thrown, lost, asked or reworded: the invariant holds.         *)
THEOREM AlwaysInv == Spec => []Inv
<1>1. Inv /\ [Next]_vars => Inv'
  BY TypeNext, WorkedNext, SoundStep DEF Inv
<1> QED
  BY InvInit, <1>1, PTL DEF Spec

(* Every variable keeps its type; a job of the run keeps within its attempts *)
(* (lib/queue.ts).                                                           *)
THEOREM ColumnTypes == Spec => []TypeOK
<1>1. Inv => TypeOK
  BY DEF Inv
<1> QED
  BY AlwaysInv, <1>1, PTL

(* A run that says it is queued or running has a job that goes on with it    *)
(* (answerColumn's saves, which only the job of the current token makes).    *)
THEOREM UnderWayIsWorked == Spec => []RunIsWorked
<1>1. Inv => RunIsWorked
  BY DEF Inv
<1> QED
  BY AlwaysInv, <1>1, PTL

(* A run that is done has asked every document that was read when it began   *)
(* and was not taken back to be read again, and every one it went through,   *)
(* whatever was paused, thrown or carried on on the way (answerColumn's      *)
(* cursor).                                                                  *)
THEOREM DoneHasAsked == Spec => []DoneIsAsked
<1>1. Inv => DoneIsAsked
  <2>1. Due(run) = DueAt(run, reads)
    BY DEF Due, DueAt
  <2> QED
    BY <2>1 DEF Inv, AllSound, Sound, RunSound, Has, DoneIsThrough, DoneIsAsked
<1> QED
  BY AlwaysInv, <1>1, PTL

(* What a person answered or confirmed is changed by a person only: every    *)
(* write of a job leaves it (saveAnswer, saveFailure).                       *)
THEOREM PersonAlwaysStands == Spec => PersonStands
<1> DEFINE Stands == \A d \in Docs : Personal(cells[d]) /\ cells'[d] # cells[d] =>
             Answer(d) \/ Check(d) \/ \E r \in Requests : Delete(r, TRUE)
<1>1. ASSUME Inv, [Next]_vars PROVE [Stands]_vars
  <2> SUFFICES ASSUME NEW d \in Docs, Personal(cells[d]), cells'[d] # cells[d]
               PROVE  Answer(d) \/ Check(d) \/ \E r \in Requests : Delete(r, TRUE)
    OBVIOUS
  <2>0. TypeOK /\ cells[d] \in Cells /\ DOMAIN cells = Docs
    BY <1>1 DEF Inv, TypeOK
  <2>1. ASSUME NEW t \in Tokens, Work(t) PROVE FALSE
    <3>1. CASE cells' = cells
      BY <3>1
    <3>2. CASE Write(t)
      <4>1. PICK e \in Docs : \E w \in Writes(jobs[t].step, cells[e], jobs[t].wording) : cells' = [cells EXCEPT ![e] = w.cell]
        BY <3>2 DEF Write
      <4>2. PICK w \in Writes(jobs[t].step, cells[e], jobs[t].wording) : cells' = [cells EXCEPT ![e] = w.cell]
        BY <4>1
      <4>3. e = d
        BY <2>0, <4>2
      <4>4. jobs[t].wording \in 0..MaxWordings /\ jobs[t].step \in Saving
        BY <2>0, <3>2 DEF Write, TypeOK, JobRecords
      <4>5. w.cell = cells[d]
        BY <2>0, <4>2, <4>3, <4>4, WritesType
      <4> QED
        BY <2>0, <4>2, <4>3, <4>5
    <3> QED
      BY <2>1, <3>1, <3>2 DEF Work, Take, ReadPage, Ask, Move
  <2>2. ASSUME NEW e \in Docs, WorkLate(e) PROVE FALSE
    <3>1. CASE cells' = cells
      BY <3>1
    <3>2. CASE WriteLate(e)
      <4>1. PICK w \in Writes(late[e].step, cells[e], late[e].wording) : cells' = [cells EXCEPT ![e] = w.cell]
        BY <3>2 DEF WriteLate
      <4>2. e = d
        BY <2>0, <4>1
      <4>3. late[e].wording \in 0..MaxWordings /\ late[e].step \in Saving
        BY <2>0, <3>2 DEF WriteLate, TypeOK
      <4>4. w.cell = cells[d]
        BY <2>0, <4>1, <4>2, <4>3, WritesType
      <4> QED
        BY <2>0, <4>1, <4>2, <4>4
    <3> QED
      BY <2>2, <3>1, <3>2 DEF WorkLate, AskLate, EndLate
  <2>3. ASSUME NEW e \in Docs, Answer(e) \/ Check(e) PROVE e = d
    BY <2>0, <2>3 DEF Answer, Check
  <2>4. ASSUME NEW r \in Requests, Delete(r, FALSE) PROVE FALSE
    BY <2>4 DEF Delete
  <2>5. ASSUME cells' = cells PROVE FALSE
    BY <2>5
  <2> QED
    BY <1>1, <2>1, <2>2, <2>3, <2>4, <2>5
    DEF Next, vars, Pause, Throw, Die, Analyse, Reanalyse, StopLate, ThrowLate, Read, Run, Reword, Starts
<1> QED
  BY AlwaysInv, <1>1, PTL DEF Spec, PersonStands
=============================================================================
