---------------------------- MODULE DiligenceColumn ----------------------------
(***************************************************************************)
(* A question column of a diligence room: one question asked of every      *)
(* document (apps/api/src/lib/diligence-columns.ts, routes/diligence.ts).  *)
(* A run of the column goes through the room's documents in id order, a    *)
(* page at a time, and keeps its cursor on the column after each one; a    *)
(* document that is read later is asked by a job of its own; and people    *)
(* answer, confirm, ask again and reword meanwhile.                        *)
(*                                                                         *)
(* Every write of the store is a step, and so is reading what is asked     *)
(* next; reads that nothing can come between to any effect are one. A job  *)
(* belongs to the run whose token it was queued with. It may throw, its    *)
(* worker may die, and the queue may refuse it, which is only logged       *)
(* (lib/queue.ts). That a run was heard from in the last ten minutes is a  *)
(* matter of the clock, and left open: any run may be asked for again.     *)
(* What an answer says is the wording it was asked in; options, quotes and *)
(* counts of answers are left out, and new versions of a document; so is a *)
(* worker taken for dead that still writes beside the one in its place.    *)
(***************************************************************************)
EXTENDS Naturals, FiniteSets

CONSTANTS
  N,            \* documents, in the order of their ids
  Unread,       \* those that are not read yet when the column is added
  PageSize,     \* PAGE
  Attempts,     \* how often a job is run before it is given up
  Requests,     \* requests of the API in progress at once
  MaxRuns,      \* bound: runs of the column
  MaxWordings,  \* bound: wordings of the question
  MaxActs,      \* bound: what people do, reading a document (again) included
  MaxFaults     \* bound: throws, deaths, refusals and spent budgets

Docs == 1..N
Tokens == 1..MaxRuns
Wordings == 1..MaxWordings

ASSUME SizesAssumption == N \in Nat /\ Unread \subseteq Docs /\ PageSize \in Nat \ {0} /\ Attempts \in Nat \ {0}
ASSUME BoundsAssumption ==
  /\ MaxRuns \in Nat \ {0} /\ MaxWordings \in Nat \ {0}
  /\ MaxActs \in Nat /\ MaxFaults \in Nat

VARIABLES
  stage,     \* how far each document's analysis is
  reads,     \* history: how often each was begun again
  cells,     \* DiligenceCell by document
  question,  \* how often the column was worded
  run,       \* the column's run
  runs,      \* how many there were
  jobs,      \* answer-diligence-column, by token
  late,      \* answer-diligence-document, by document
  reqs,      \* requests between their read and their writes
  lost,      \* the runs whose job is gone without a word
  acts, faults

Reading == <<stage, reads>>
Jobs == <<jobs, late>>
Bounds == <<acts, faults>>
vars == <<Reading, cells, question, run, runs, Jobs, reqs, lost, Bounds>>

NoCell == [by |-> "nobody", checked |-> FALSE, error |-> FALSE, says |-> 0]
Cells == [by : {"ai", "user"}, checked : BOOLEAN, error : BOOLEAN, says : 0..MaxWordings] \cup {NoCell}
Answered(w) == [by |-> "ai", checked |-> FALSE, error |-> FALSE, says |-> w]
Failed == [by |-> "ai", checked |-> FALSE, error |-> TRUE, says |-> 0]

(* A person's answer, or one a person confirmed.                             *)
Personal(c) == c.by = "user" \/ c.checked

(* ColumnRun.  Beside the cursor, the documents gone through; the readings   *)
(* that were done when it began and the wording it began with, which a run   *)
(* that carries on keeps.                                                    *)
Scopes == {"missing", "all"}
Runs == [token : Tokens, status : {"QUEUED", "RUNNING", "PAUSED", "DONE", "FAILED"},
         scope : Scopes, cursor : 0..N, processed : SUBSET Docs,
         due : SUBSET (Docs \X Nat), of : Wordings]
NoRun == [token |-> 0, status |-> "DONE", scope |-> "missing", cursor |-> 0,
          processed |-> {}, due |-> {}, of |-> 0]

(* What a job has in hand: its own copy of the run, the wording it read, the *)
(* rest of the page and which of it to ask.                                  *)
Saving == {"asking", "failing", "create", "createError"}
NoJob == [step |-> "none", run |-> NoRun, wording |-> 0, page |-> {}, todo |-> {}, tries |-> 0]
Queued == [NoJob EXCEPT !.step = "waiting"]
NoLate == [step |-> "none", wording |-> 0, tries |-> 0]
Idle == [step |-> "idle", saw |-> NoRun, scope |-> "missing"]

Done == {d \in Docs : stage[d] = "done"}

(* Read when the run began, and not taken back to be read again since.       *)
Due(r) == {d \in Docs : <<d, reads[d]>> \in r.due}
Fresh(scope, of) ==
  [token |-> runs + 1, status |-> "QUEUED", scope |-> scope, cursor |-> 0,
   processed |-> {}, due |-> {<<d, reads[d]>> : d \in Done}, of |-> of]
-----------------------------------------------------------------------------
Act == acts < MaxActs /\ acts' = acts + 1
MayFault == faults < MaxFaults /\ faults' = faults + 1

(* The column was just added, its run queued; some documents are read.       *)
Init ==
  /\ stage = [d \in Docs |-> IF d \in Unread THEN "reading" ELSE "done"]
  /\ reads = [d \in Docs |-> 0]
  /\ cells = [d \in Docs |-> NoCell]
  /\ question = 1 /\ runs = 1 /\ lost = {}
  /\ run = [Fresh("missing", 1) EXCEPT !.token = 1]
  /\ jobs = [t \in Tokens |-> IF t = 1 THEN Queued ELSE NoJob]
  /\ late = [d \in Docs |-> NoLate]
  /\ reqs = [r \in Requests |-> Idle]
  /\ acts = 0 /\ faults = 0
-----------------------------------------------------------------------------
(* saveAnswer and saveFailure for a cell: an update where the cell is not a  *)
(* person's, and a creation when nothing was updated, which finds a cell     *)
(* there or makes one.  A document with no text, and an answer that cannot   *)
(* be had or written, is a failure.                                          *)
(* The slips: one a person only confirmed is the AI's; a failure is only     *)
(* written over another.                                                     *)
NotGiven(c) == c # NoCell /\ c.by # "user"
Overwritable(c) == c # NoCell /\ ~Personal(c)
FailsSilently(c) == "saved"
FailsNext(c) == IF Overwritable(c) /\ c.error THEN "saved" ELSE "createError"

Writes(step, c, wording) ==
  CASE step = "asking" ->
         {[cell |-> c, step |-> "failing"],
          IF Overwritable(c) THEN [cell |-> Answered(wording), step |-> "saved"]
                             ELSE [cell |-> c, step |-> "create"]}
    [] step = "failing" -> {[cell |-> c, step |-> FailsNext(c)]}
    [] step = "create" ->
         {[cell |-> c, step |-> "failing"],
          [cell |-> IF c = NoCell THEN Answered(wording) ELSE c, step |-> "saved"]}
    [] OTHER -> {[cell |-> IF c = NoCell THEN Failed ELSE c, step |-> "saved"]}
-----------------------------------------------------------------------------
(* answerColumn.  A save lands only while the run is still this job's.  The  *)
(* slip, of the attempts: one too many.                                      *)
Current(t) == run.token = t
Saves(t, r) == run' = IF Current(t) THEN r ELSE run
Ends(t) == jobs' = [jobs EXCEPT ![t] = NoJob]
OneMore(j) == j.tries >= Attempts
LastTry(j) == j.tries + 1 >= Attempts
AtHead(t, d) == d \in jobs[t].page /\ \A e \in jobs[t].page : d <= e

(* A column that went to a newer run is left.  The slip: one whose run was   *)
(* taken up before is left too.                                              *)
NotYetTaken(t) == Current(t) /\ run.status = "QUEUED"
Takes(t) == Current(t)

Take(t) ==
  /\ jobs[t].step = "waiting"
  /\ LET mine == [run EXCEPT !.status = "RUNNING"]
     IN  IF Takes(t)
         THEN /\ run' = mine
              /\ jobs' = [jobs EXCEPT ![t] = [@ EXCEPT !.step = "turn", !.run = mine, !.wording = question]]
         ELSE Ends(t) /\ UNCHANGED run
  /\ UNCHANGED cells

(* The next page of documents, and those of it to ask (questionsToAsk): none *)
(* left ends the run.                                                        *)
Ahead(t) == {d \in Done : d > jobs[t].run.cursor}
Page(S) == {d \in S : Cardinality({e \in S : e < d}) < PageSize}
ToAsk(d, scope) ==
  cells[d] = NoCell \/ (~Personal(cells[d]) /\ (scope = "all" \/ cells[d].error))

ReadPage(t) ==
  /\ jobs[t].step = "turn" /\ jobs[t].page = {}
  /\ IF Ahead(t) = {}
     THEN Saves(t, [jobs[t].run EXCEPT !.status = "DONE"]) /\ Ends(t)
     ELSE /\ jobs' = [jobs EXCEPT ![t] =
               [@ EXCEPT !.page = Page(Ahead(t)),
                         !.todo = {d \in Page(Ahead(t)) : ToAsk(d, jobs[t].run.scope)}]]
          /\ UNCHANGED run
  /\ UNCHANGED cells

Ask(t) ==
  /\ jobs[t].step = "turn"
  /\ \E d \in jobs[t].todo : AtHead(t, d)
  /\ jobs' = [jobs EXCEPT ![t].step = "asking"]
  /\ UNCHANGED <<run, cells>>

Write(t) ==
  /\ jobs[t].step \in Saving
  /\ \E d \in Docs : AtHead(t, d) /\ \E w \in Writes(jobs[t].step, cells[d], jobs[t].wording) :
       /\ cells' = [cells EXCEPT ![d] = w.cell]
       /\ jobs' = [jobs EXCEPT ![t].step = w.step]
  /\ UNCHANGED run

(* Asked or passed over, the document is behind the cursor.                  *)
GoesOn(t, d) ==
  AtHead(t, d) /\ (jobs[t].step = "saved" \/ (jobs[t].step = "turn" /\ d \notin jobs[t].todo))
Advanced(r, d) == [r EXCEPT !.cursor = d, !.processed = @ \cup {d}]

Passed(j, d) ==
  [j EXCEPT !.step = "turn", !.run = Advanced(@, d), !.page = @ \ {d}, !.todo = @ \ {d}]

Move(t) ==
  /\ \E d \in Docs : GoesOn(t, d) /\
       IF Current(t)
       THEN run' = Advanced(jobs[t].run, d) /\ jobs' = [jobs EXCEPT ![t] = Passed(@, d)]
       ELSE Ends(t) /\ UNCHANGED run
  /\ UNCHANGED cells

Work(t) ==
  /\ Take(t) \/ ReadPage(t) \/ Ask(t) \/ Write(t) \/ Move(t)
  /\ UNCHANGED <<Reading, question, runs, late, reqs, lost, Bounds>>

(* The budget is spent: the run stops here.                                  *)
Pause(t) ==
  /\ jobs[t].step = "asking" /\ MayFault
  /\ Saves(t, [jobs[t].run EXCEPT !.status = "PAUSED"]) /\ Ends(t)
  /\ UNCHANGED <<Reading, cells, question, runs, late, reqs, lost, acts>>

(* Anything else throws: the run failed, if that can be saved; the job is    *)
(* run again while it has attempts.                                          *)
InHand(t) ==
  IF \E d \in Docs : GoesOn(t, d)
  THEN {Advanced(jobs[t].run, d) : d \in {e \in Docs : GoesOn(t, e)}} ELSE {jobs[t].run}

Throw(t) ==
  /\ jobs[t].step \in {"waiting", "turn", "failing", "createError", "saved"} /\ MayFault
  /\ \/ jobs[t].step # "waiting" /\ (\E r \in InHand(t) : Saves(t, [r EXCEPT !.status = "FAILED"]))
        /\ lost' = lost
     \/ run' = run /\ lost' = IF LastTry(jobs[t]) THEN lost \cup {t} ELSE lost
  /\ jobs' = [jobs EXCEPT ![t] = IF LastTry(jobs[t]) THEN NoJob ELSE [Queued EXCEPT !.tries = jobs[t].tries + 1]]
  /\ UNCHANGED <<Reading, cells, question, runs, late, reqs, acts>>

(* A worker dies: its job is run again, or stalled once too often.           *)
Die(t) ==
  /\ jobs[t].step # "none" /\ MayFault
  /\ \/ jobs' = [jobs EXCEPT ![t] = [Queued EXCEPT !.tries = jobs[t].tries]] /\ lost' = lost
     \/ Ends(t) /\ lost' = lost \cup {t}
  /\ UNCHANGED <<Reading, cells, question, run, runs, late, reqs, acts>>
-----------------------------------------------------------------------------
(* A document's analysis is saved, then finished; each asks the room's       *)
(* questions of it, under one id: while that job is there, or was given up,  *)
(* another is not.                                                           *)
Analyse(d) ==
  /\ \/ stage[d] = "reading" /\ stage' = [stage EXCEPT ![d] = "indexing"] /\ Act
     \/ stage[d] = "indexing" /\ stage' = [stage EXCEPT ![d] = "done"] /\ acts' = acts
  /\ IF late[d].step = "none"
     THEN \/ late' = [late EXCEPT ![d].step = "waiting"] /\ faults' = faults
          \/ late' = late /\ MayFault
     ELSE late' = late /\ faults' = faults
  /\ UNCHANGED <<reads, cells, question, run, runs, jobs, reqs, lost>>

(* A person has a document analysed again, whatever asks about it: until it  *)
(* is read once more a run does not see it, unless it is on its page.  Its   *)
(* cells and the jobs of it stay.                                            *)
Reanalyse(d) ==
  /\ Act /\ stage[d] # "reading"
  /\ stage' = [stage EXCEPT ![d] = "reading"]
  /\ reads' = [reads EXCEPT ![d] = @ + 1]
  /\ UNCHANGED <<cells, question, run, runs, Jobs, reqs, lost, faults>>

(* answerDocument, of this column: a document that is read, or nearly, is    *)
(* asked unless it holds an answer, in the wording it read.  Its other       *)
(* columns come before it and after it.                                      *)
AskLate(d) ==
  /\ late[d].step = "waiting"
  /\ IF stage[d] # "reading" /\ ToAsk(d, "missing")
     THEN late' = [late EXCEPT ![d].step = "asking", ![d].wording = question]
     ELSE late' = [late EXCEPT ![d].step = "saved"]
  /\ UNCHANGED cells

WriteLate(d) ==
  /\ late[d].step \in Saving
  /\ \E w \in Writes(late[d].step, cells[d], late[d].wording) :
       /\ cells' = [cells EXCEPT ![d] = w.cell]
       /\ late' = [late EXCEPT ![d].step = w.step]

EndLate(d) == late[d].step = "saved" /\ late' = [late EXCEPT ![d] = NoLate] /\ UNCHANGED cells

WorkLate(d) ==
  /\ AskLate(d) \/ WriteLate(d) \/ EndLate(d)
  /\ UNCHANGED <<Reading, question, run, runs, jobs, reqs, lost, Bounds>>

(* The budget is spent: the rest is not asked.                               *)
StopLate(d) ==
  /\ late[d].step = "asking" /\ late' = [late EXCEPT ![d].step = "saved"] /\ MayFault
  /\ UNCHANGED <<Reading, cells, question, run, runs, jobs, reqs, lost, acts>>

(* It throws, or its worker dies: run again, or given up and kept.           *)
ThrowLate(d) ==
  /\ late[d].step \notin {"none", "kept"} /\ MayFault
  /\ late' = [late EXCEPT ![d] =
       IF LastTry(late[d]) THEN [NoLate EXCEPT !.step = "kept"]
       ELSE [NoLate EXCEPT !.step = "waiting", !.tries = late[d].tries + 1]]
  /\ UNCHANGED <<Reading, cells, question, run, runs, jobs, reqs, lost, acts>>
-----------------------------------------------------------------------------
(* People.  setAnswer and checkAnswer.                                       *)
Rest == <<Reading, question, run, runs, Jobs, lost, faults>>

Answer(d) ==
  /\ Act /\ cells' = [cells EXCEPT ![d] = [by |-> "user", checked |-> TRUE, error |-> FALSE, says |-> 0]]
  /\ UNCHANGED <<Rest, reqs>>

Check(d) ==
  /\ Act /\ cells[d] # NoCell /\ ~cells[d].error
  /\ \E c \in BOOLEAN : cells' = [cells EXCEPT ![d].checked = c]
  /\ UNCHANGED <<Rest, reqs>>

(* A request to ask the column again reads its run.                          *)
Read(r) ==
  /\ Act /\ reqs[r].step = "idle"
  /\ \E s \in Scopes : reqs' = [reqs EXCEPT ![r] = [step |-> "run", saw |-> run, scope |-> s]]
  /\ UNCHANGED <<Rest, cells>>

(* A run is written over whatever is there, and its job queued.              *)
Starts(r, new) ==
  /\ runs < MaxRuns /\ runs' = runs + 1 /\ run' = new
  /\ \/ jobs' = [jobs EXCEPT ![runs'] = Queued] /\ UNCHANGED <<lost, faults>>
     \/ jobs' = jobs /\ lost' = lost \cup {runs'} /\ MayFault
  /\ reqs' = [reqs EXCEPT ![r] = Idle]
  /\ UNCHANGED <<Reading, cells, late, acts>>

(* A paused or failed run of that scope is carried on where it stopped.      *)
Resumes(prior, scope) == prior.scope = scope /\ prior.status \in {"PAUSED", "FAILED"}
Resumed(prior) == [prior EXCEPT !.token = runs + 1, !.status = "QUEUED"]

Run(r) ==
  /\ reqs[r].step = "run"
  /\ Starts(r, IF Resumes(reqs[r].saw, reqs[r].scope)
               THEN Resumed(reqs[r].saw) ELSE Fresh(reqs[r].scope, question))
  /\ UNCHANGED question

(* A request to reword the question: answers to the old one go; a person's   *)
(* too when the form of the answer changes.                                  *)
Delete(r, reform) ==
  /\ Act /\ reqs[r].step = "idle"
  /\ cells' = [d \in Docs |-> IF reform \/ ~Personal(cells[d]) THEN NoCell ELSE cells[d]]
  /\ reqs' = [reqs EXCEPT ![r].step = "deleted"]
  /\ UNCHANGED Rest

Reword(r) ==
  /\ reqs[r].step = "deleted"
  /\ question < MaxWordings /\ question' = question + 1
  /\ Starts(r, Fresh("all", question'))

Next ==
  \/ \E t \in Tokens : Work(t) \/ Pause(t) \/ Throw(t) \/ Die(t)
  \/ \E d \in Docs : Analyse(d) \/ Reanalyse(d) \/ WorkLate(d) \/ StopLate(d) \/ ThrowLate(d) \/ Answer(d) \/ Check(d)
  \/ \E r \in Requests : Read(r) \/ Run(r) \/ Reword(r) \/ \E reform \in BOOLEAN : Delete(r, reform)

Spec == Init /\ [][Next]_vars
-----------------------------------------------------------------------------
JobRecords == [step : {"none", "waiting", "turn", "saved"} \cup Saving, run : Runs \cup {NoRun},
               wording : 0..MaxWordings, page : SUBSET Docs, todo : SUBSET Docs, tries : 0..(Attempts - 1)]
TypeOK ==
  /\ stage \in [Docs -> {"reading", "indexing", "done"}] /\ reads \in [Docs -> Nat]
  /\ cells \in [Docs -> Cells]
  /\ question \in Wordings /\ run \in Runs /\ runs \in Tokens
  /\ jobs \in [Tokens -> JobRecords]
  /\ late \in [Docs -> [step : {"none", "waiting", "saved", "kept"} \cup Saving,
                        wording : 0..MaxWordings, tries : 0..(Attempts - 1)]]
  /\ reqs \in [Requests -> [step : {"idle", "run", "deleted"}, saw : Runs \cup {NoRun},
                            scope : Scopes]]
  /\ lost \subseteq Tokens /\ acts \in 0..MaxActs /\ faults \in 0..MaxFaults

(* What a person answered or confirmed is changed only by a person, and goes *)
(* only when the form of the answer changes: a job that asked before the     *)
(* person wrote leaves it, whatever run it belongs to (saveAnswer).          *)
PersonStands ==
  [][\A d \in Docs : Personal(cells[d]) /\ cells'[d] # cells[d] =>
       Answer(d) \/ Check(d) \/ \E r \in Requests : Delete(r, TRUE)]_vars

(* A run that is done has left no document out: every one that was read when *)
(* it began and was not taken back to be read again, and every one it went   *)
(* through, holds an answer or says why not, however often the run was       *)
(* paused, failed, carried on or run twice; unless a request that rewords    *)
(* the question stands between its writes, or one carried on a run of an     *)
(* earlier wording.                                                          *)
Rewording == \E r \in Requests : reqs[r].step = "deleted"
DoneIsAsked ==
  run.status = "DONE" /\ run.of = question /\ ~Rewording =>
    \A d \in Due(run) \cup run.processed : cells[d] # NoCell

(* A run that says it is queued or running has a job that will go on with    *)
(* it, the same one after it threw or its worker died, until another run     *)
(* takes its place: but for a job the queue refused, one that stalled too    *)
(* often, and a last attempt whose failure could not be saved.               *)
RunIsWorked ==
  run.status \in {"QUEUED", "RUNNING"} =>
    jobs[run.token].step # "none" \/ run.token \in lost
=============================================================================
