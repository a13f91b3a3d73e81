-------------------------------- MODULE Analysis --------------------------------
(***************************************************************************)
(* The analysis of one contract's document: the chain of jobs that reads   *)
(* an uploaded version (workers/parse.worker.ts, workers/agent.worker.ts,  *)
(* lib/extraction-job.ts), the checkpoint that analyses an edited one once *)
(* it has been left alone (lib/analysis-trigger.ts, lib/version-refresh.ts,*)
(* lib/clause-carry.ts), the sweep that fails what nothing is working on   *)
(* (lib/stuck-contracts.ts), and the people who upload, edit, ask again    *)
(* and cancel meanwhile (routes/contracts.ts, routes/analysis-health.ts).  *)
(*                                                                         *)
(* A job is queued with the write that announces it, but the queue may     *)
(* refuse it, which is only logged (lib/queue.ts).  Jobs of one contract   *)
(* run side by side.  One that throws waits to be run again while it has   *)
(* attempts left.                                                          *)
(***************************************************************************)
EXTENDS Naturals, FiniteSets

CONSTANTS
  Ids,          \* job ids
  Short,        \* versions whose own words are too few to have clauses
  Attempts,     \* how often a job of each kind is run before it is given up
  MaxVersions,  \* bound: versions made
  MaxAsks,      \* bound: what people do
  MaxFaults     \* bound: attempts that throw, jobs the queue refuses or that go with
                \* their worker, and reads of the queues that fail

DocumentJobs == {"parse", "chunk"}
Checkpoints == {"checkpoint", "later"}  \* the contract's one id, and an id of its own
AgentJobs == {"detect", "classify", "extract"} \cup Checkpoints
Kinds == DocumentJobs \cup AgentJobs
Steps == {"waiting", "reading", "read", "patched", "indexing",
          "same", "incremental", "carry", "full", "point"}
InProgressStatuses == {"PARSING", "CLASSIFYING", "EXTRACTING", "ANALYZING", "INDEXING"}
Statuses == InProgressStatuses \cup {"PENDING", "DONE", "FAILED"}
Versions == 1..MaxVersions

ASSUME ShortAssumption == Short \subseteq Versions
ASSUME AttemptsAssumption == Attempts \in [Kinds -> Nat \ {0}]
ASSUME BoundsAssumption ==
  /\ MaxVersions \in Nat \ {0}
  /\ MaxAsks \in Nat /\ MaxFaults \in Nat

VARIABLES
  status,        \* Contract.analysisStatus
  stamp,         \* the version of metadata._analysis, 0 when there is none
  late,          \* that version had been replaced when it was stamped
  newest,        \* how many versions there are
  current,       \* Contract.currentVersionId
  text,          \* ContractVersion.plainText: the first version with these words,
                 \* 0 when it is not read yet
  files,         \* the versions that are an uploaded file
  clauses,       \* the versions that have clauses
  jobs,          \* the jobs waiting or running
  calls,         \* requests between two of their writes
  sweep,         \* what the sweep has seen
  asks, fails, lost

Document == <<newest, current, text, files>>
Counts == <<asks, fails>>
vars == <<status, stamp, late, Document, clauses, jobs, calls, sweep, Counts, lost>>

Job == [id : Ids, kind : Kinds, version : 0..MaxVersions, step : Steps, tries : Nat]
Calls == [kind : {"edited", "retry"}, version : Versions]

InProgress == status \in InProgressStatuses \cup {"PENDING"}
-----------------------------------------------------------------------------
MayFault == fails + lost < MaxFaults

(* agentQueue.add and documentQueue.add: a job of its own, or none.          *)
FreeId(J, kind) == CHOOSE i \in Ids : \A j \in J : j.kind = kind => j.id # i
NewJobs(J, kind, v) ==
  {[id |-> i, kind |-> kind, version |-> v, step |-> "waiting", tries |-> 0]
     : i \in {x \in Ids : x = FreeId(J, kind)}}

Queue(J, kind, v) ==
  \/ (\E n \in NewJobs(J, kind, v) : jobs' = J \cup {n}) /\ lost' = lost
  \/ MayFault /\ lost' = lost + 1 /\ jobs' = J

At(j, where) == jobs' = (jobs \ {j}) \cup {[j EXCEPT !.step = where]}
Ended(j) == jobs' = jobs \ {j}

(* scheduleCheckpointAnalysis: the waiting checkpoint is pushed back; while  *)
(* it runs, one under an id of its own is queued.                            *)
Waits(j) == j.step = "waiting"
Scheduled(J) ==
  IF \E j \in J : j.kind = "checkpoint" /\ ~Waits(j)
  THEN {J \cup {n} : n \in NewJobs(J, "later", 0)}
  ELSE {{j \in J : j.kind # "checkpoint"} \cup {n} : n \in NewJobs(J, "checkpoint", 0)}

(* carryClauses: a version with text and no clauses takes those of an        *)
(* earlier one, as far as they are found in its words.                       *)
Carry(v) ==
  \/ clauses' = clauses
  \/ v \notin clauses /\ (\E u \in clauses : u < v) /\ clauses' = clauses \cup {v}

(* The words of a version just made or read: those of an earlier one, or     *)
(* words of its own.                                                         *)
Says(v) == \E t \in {u \in 1..v : u = v \/ text[u] = u} : text' = [text EXCEPT ![v] = t]

(* finishAnalysis.  The slip: a document with no clauses is done.            *)
DoneAnyway(v, has) == TRUE
CountsAsDone(v, has) == v \in has \/ text[v] \in Short
Finish(v, has) ==
  IF CountsAsDone(v, has)
  THEN status' = "DONE" /\ stamp' = v /\ late' = (v # current)
  ELSE status' = "FAILED" /\ UNCHANGED <<stamp, late>>

Init ==
  /\ newest = 1 /\ current = 1
  /\ stamp = 0 /\ late = FALSE /\ clauses = {} /\ calls = {} /\ sweep = "idle"
  /\ asks = 0 /\ fails = 0 /\ lost = 0
  /\ \/ /\ files = {1} /\ text = [v \in Versions |-> 0]
        /\ status = "PENDING" /\ \E n \in NewJobs({}, "parse", 1) : jobs = {n}
     \/ /\ files = {} /\ text = [v \in Versions |-> IF v = 1 THEN 1 ELSE 0]
        /\ status = "EXTRACTING" /\ \E n \in NewJobs({}, "extract", 1) : jobs = {n}
-----------------------------------------------------------------------------
(* parse-document: announced if nothing else was; a file with no text fails  *)
(* at once; the text is saved, earlier clauses are carried into it, and the  *)
(* binder detection is queued.                                               *)
Parse(j) ==
  /\ j.kind = "parse"
  /\ \/ /\ Waits(j) /\ At(j, "reading")
        /\ status' = IF status = "PENDING" THEN "PARSING" ELSE status
        /\ UNCHANGED <<text, clauses, lost>>
     \/ /\ j.step = "reading" /\ text[j.version] = 0
        /\ Ended(j) /\ status' = "FAILED"
        /\ UNCHANGED <<text, clauses, lost>>
     \/ /\ j.step = "reading" /\ At(j, "read")
        /\ IF text[j.version] = 0 THEN Says(j.version) ELSE UNCHANGED text
        /\ Carry(j.version)
        /\ UNCHANGED <<status, lost>>
     \/ /\ j.step = "read" /\ status' = "PARSING"
        /\ Queue(jobs \ {j}, "detect", j.version)
        /\ UNCHANGED <<text, clauses>>
  /\ UNCHANGED <<stamp, late>>

(* detect-binder and classify-document: what the model answers is written    *)
(* with the next status, and the next job queued.                            *)
Classify(j) ==
  /\ Waits(j) /\ j.kind \in {"detect", "classify"}
  /\ status' = IF j.kind = "detect" THEN "CLASSIFYING" ELSE "EXTRACTING"
  /\ Queue(jobs \ {j}, IF j.kind = "detect" THEN "classify" ELSE "extract", j.version)
  /\ UNCHANGED <<stamp, late, text, clauses>>

(* extract-ai: the contract's values are saved, DONE among them; the clauses *)
(* if any were found; and the indexing is asked for, whose refusal is only   *)
(* logged.                                                                   *)
Extract(j) ==
  /\ j.kind = "extract"
  /\ \/ /\ Waits(j) /\ status' = "DONE" /\ At(j, "patched")
        /\ UNCHANGED <<text, clauses, lost>>
     \/ /\ j.step = "patched" /\ Queue(jobs \ {j}, "chunk", j.version)
        /\ clauses' \in {clauses, clauses \cup {j.version}}
        /\ UNCHANGED status
  /\ UNCHANGED <<stamp, late, text>>

(* chunk-and-index, which finishes the analysis. *)
Chunk(j) ==
  /\ j.kind = "chunk"
  /\ \/ /\ Waits(j) /\ status' = "INDEXING" /\ At(j, "indexing")
        /\ UNCHANGED <<stamp, late, lost>>
     \/ /\ j.step = "indexing" /\ Finish(j.version, clauses) /\ Ended(j) /\ UNCHANGED lost
  /\ UNCHANGED <<text, clauses>>

(* onVersionCreated: the contract is pointed at the version, and the job     *)
(* that reads it queued.                                                     *)
StartAnalysis(J, v) ==
  /\ current' = v
  /\ IF text[v] = 0
     THEN status' = "PENDING" /\ Queue(J, "parse", v)
     ELSE \/ status' = "EXTRACTING" /\ Queue(J, "extract", v)
          \/ status' = "CLASSIFYING" /\ Queue(J, "classify", v)

(* runCheckpointAnalysis, as it reads the contract: it is analysed already;  *)
(* an analysis is running, and this one waits again; its words are those     *)
(* analysed; it is read from the version analysed; or in full.  The slips:   *)
(* any analysis is taken for this version's; a failed one is waited for.     *)
AnalysedOnce == status = "DONE" /\ stamp # 0
AnalysedAlready == status = "DONE" /\ stamp = current
RunningOrFailed == InProgress \/ status = "FAILED"
StillRunning == InProgress

Running(j) == [j EXCEPT !.step = "read"]
Fires(j) ==
  /\ Waits(j)
  /\ \/ AnalysedAlready /\ Ended(j)
     \/ ~AnalysedAlready /\ StillRunning
        /\ \E J \in Scheduled((jobs \ {j}) \cup {Running(j)}) : jobs' = J \ {Running(j)}
     \/ /\ ~AnalysedAlready /\ ~StillRunning
        /\ \E how \in {"same", "incremental", "full"} :
             /\ how # "full" => status = "DONE" /\ stamp # 0
             /\ how = "same" <=> status = "DONE" /\ stamp # 0 /\ text[current] # 0 /\ text[current] = text[stamp]
             /\ how = "incremental" => text[current] # 0
             /\ jobs' = (jobs \ {j}) \cup {[j EXCEPT !.step = how, !.version = current]}
  /\ UNCHANGED <<status, stamp, late, clauses, current, lost>>

(* What it read is written: the stamp moved; or ANALYZING, the clauses       *)
(* followed into the edit and the stamp set, and when they could not be, a   *)
(* full analysis, which looks again whether the contract still stands there. *)
Analyses(j) ==
  \/ /\ j.step = "same" /\ stamp' = j.version /\ late' = (j.version # current) /\ Ended(j)
     /\ UNCHANGED <<status, clauses, current, lost>>
  \/ /\ j.step = "incremental" /\ status' = "ANALYZING" /\ At(j, "carry")
     /\ UNCHANGED <<stamp, late, clauses, current, lost>>
  \/ /\ j.step = "carry" /\ Carry(j.version)
     /\ IF j.version \in clauses'
        THEN Finish(j.version, clauses') /\ Ended(j)
        ELSE At(j, "full") /\ UNCHANGED <<status, stamp, late>>
     /\ UNCHANGED <<current, lost>>
  \/ /\ j.step = "full"
     /\ IF current = j.version THEN At(j, "point") ELSE Ended(j)
     /\ UNCHANGED <<status, stamp, late, clauses, current, lost>>
  \/ /\ j.step = "point" /\ StartAnalysis(jobs \ {j}, j.version)
     /\ UNCHANGED <<stamp, late, clauses>>

Checkpoint(j) ==
  /\ j.kind \in Checkpoints /\ (Fires(j) \/ Analyses(j))
  /\ UNCHANGED text

Work(j) ==
  /\ \/ (Parse(j) \/ Classify(j) \/ Extract(j) \/ Chunk(j)) /\ UNCHANGED current
     \/ Checkpoint(j)
  /\ UNCHANGED <<newest, files, calls, sweep, Counts>>

(* An attempt throws: the job waits for the next, or has none left and its   *)
(* contract's analysis failed.  The slips: one attempt too many, and an      *)
(* indexing whose handler says nothing.                                      *)
OneMore(j) == j.tries >= Attempts[j.kind]
Exhausted(j) == j.tries + 1 >= Attempts[j.kind]
SaidButIndexing(j) == Exhausted(j) /\ j.kind # "chunk"
Said(j) == Exhausted(j)

Throws(j) ==
  /\ MayFault /\ fails' = fails + 1
  /\ jobs' = IF Exhausted(j) THEN jobs \ {j}
             ELSE (jobs \ {j}) \cup {[j EXCEPT !.step = "waiting", !.tries = j.tries + 1]}
  /\ status' = IF Said(j) THEN "FAILED" ELSE status
  /\ UNCHANGED <<stamp, late, Document, clauses, calls, sweep, asks, lost>>

(* Clauses that are stored or indexed are embedded by a job that names no    *)
(* contract; each attempt of it that fails says the analysis did.            *)
EmbedThrows ==
  /\ clauses # {} /\ MayFault /\ fails' = fails + 1 /\ status' = "FAILED"
  /\ UNCHANGED <<stamp, late, Document, clauses, jobs, calls, sweep, asks, lost>>

(* A worker dies, and its job with it: stalled once too often, a job is      *)
(* dropped without the handler that would have said so.                      *)
Dies(j) ==
  /\ MayFault /\ lost' = lost + 1 /\ Ended(j)
  /\ UNCHANGED <<status, stamp, late, Document, clauses, calls, sweep, Counts>>
-----------------------------------------------------------------------------
(* People.  A new file is the current version, to be read. *)
Asked == asks < MaxAsks /\ asks' = asks + 1

Upload ==
  /\ Asked /\ newest < MaxVersions /\ newest' = newest + 1 /\ current' = newest'
  /\ files' = files \cup {newest'}
  /\ status' = "PENDING" /\ Queue(jobs, "parse", newest')
  /\ UNCHANGED <<stamp, late, text, clauses, calls, sweep, fails>>

(* createHtmlVersion: the edit is the current version; its clauses and its   *)
(* checkpoint follow (afterEdit), unless the queue refuses.                  *)
Edit ==
  /\ Asked /\ text[current] # 0
  /\ newest < MaxVersions /\ newest' = newest + 1 /\ current' = newest'
  /\ Says(newest')
  /\ calls' = calls \cup {[kind |-> "edited", version |-> newest']}
  /\ UNCHANGED <<status, stamp, late, files, clauses, jobs, sweep, fails, lost>>

AfterEdit(c) ==
  /\ c.kind = "edited" /\ calls' = calls \ {c}
  /\ Carry(c.version)
  /\ \/ jobs' \in Scheduled(jobs) /\ lost' = lost
     \/ MayFault /\ lost' = lost + 1 /\ jobs' = jobs
  /\ UNCHANGED <<status, stamp, late, Document, sweep, Counts>>

(* Re-analyse: from the file again, or from its text. *)
Reanalyse ==
  /\ Asked
  /\ \/ current \in files /\ status' = "PENDING" /\ Queue(jobs, "parse", current)
     \/ text[current] # 0 /\ status' = "CLASSIFYING" /\ Queue(jobs, "classify", current)
  /\ UNCHANGED <<stamp, late, Document, clauses, calls, sweep, fails>>

(* Cancel: the page says so; the jobs go on. *)
Cancel ==
  /\ Asked /\ status' = "FAILED"
  /\ UNCHANGED <<stamp, late, Document, clauses, jobs, calls, sweep, fails, lost>>

(* Retry of a run that is not done, the contract's last or an earlier one    *)
(* (the rows of analysis_runs are not modelled: there may be one at any      *)
(* time): the version the contract stands on is read, then its analysis      *)
(* started.                                                                  *)
Retry ==
  /\ Asked
  /\ calls' = calls \cup {[kind |-> "retry", version |-> current]}
  /\ UNCHANGED <<status, stamp, late, Document, clauses, jobs, sweep, fails, lost>>

RetryStarts(c) ==
  /\ c.kind = "retry" /\ calls' = calls \ {c} /\ StartAnalysis(jobs, c.version)
  /\ UNCHANGED <<stamp, late, newest, text, files, clauses, sweep, Counts>>
-----------------------------------------------------------------------------
(* The statuses the sweep looks for.  The slip: the last one is not listed.  *)
SweptButIndexing == InProgressStatuses \ {"INDEXING"}
SweptStatuses == InProgressStatuses

(* recoverStuckContracts, of this contract: it has been in progress for      *)
(* long; the jobs of one queue are listed, then of the other; when there is  *)
(* none it is failed, if still in progress.  A queue that cannot be read     *)
(* leaves it to the time alone.  An upload nobody read is failed when no     *)
(* parse job is queued.                                                      *)
Listed(kinds) == \E j \in jobs : j.kind \in kinds
Looks ==
  /\ sweep = "idle"
  /\ \/ /\ status \in SweptStatuses /\ ~Listed(DocumentJobs)
        /\ sweep' = "listing" /\ UNCHANGED lost
     \/ /\ status \in SweptStatuses /\ MayFault
        /\ sweep' = "dead" /\ lost' = lost + 1
     \/ /\ status = "PENDING" /\ text[current] = 0 /\ ~Listed({"parse"})
        /\ sweep' = "unqueued" /\ UNCHANGED lost
  /\ UNCHANGED status

Lists ==
  /\ sweep = "listing" /\ sweep' = IF Listed(AgentJobs) THEN "idle" ELSE "dead"
  /\ UNCHANGED <<status, lost>>

StillStuck == IF sweep = "dead" THEN SweptStatuses ELSE {"PENDING"}
Gives ==
  /\ sweep \in {"dead", "unqueued"} /\ sweep' = "idle"
  /\ status' = IF status \in StillStuck THEN "FAILED" ELSE status
  /\ UNCHANGED lost

Sweep ==
  /\ Looks \/ Lists \/ Gives
  /\ UNCHANGED <<stamp, late, Document, clauses, jobs, calls, Counts>>

Next ==
  \/ \E j \in jobs : Work(j) \/ Throws(j) \/ Dies(j)
  \/ \E c \in calls : AfterEdit(c) \/ RetryStarts(c)
  \/ EmbedThrows
  \/ Upload \/ Edit \/ Reanalyse \/ Cancel \/ Retry
  \/ Sweep

(* The workers run what is queued, a request goes on, and the sweep runs     *)
(* every five minutes.  Nobody has to act, nothing has to fail.              *)
Spec == Init /\ [][Next]_vars
FairSpec ==
  /\ Spec
  /\ WF_vars(\E j \in jobs : j.kind \notin Checkpoints /\ Work(j))
  /\ WF_vars(\E j \in jobs : j.kind \in Checkpoints /\ Work(j))
  /\ WF_vars(\E c \in calls : AfterEdit(c) \/ RetryStarts(c))
  /\ WF_vars(Sweep)
-----------------------------------------------------------------------------
(* Statuses, versions and jobs are what the tables and the queues may hold:  *)
(* what is stamped and stood on was made, and no job is run more often than  *)
(* its attempts.                                                             *)
TypeOK ==
  /\ status \in Statuses /\ late \in BOOLEAN
  /\ newest \in Versions /\ current \in 1..newest /\ stamp \in 0..newest
  /\ text \in [Versions -> 0..newest]
  /\ files \subseteq 1..newest /\ clauses \subseteq 1..newest
  /\ jobs \subseteq Job /\ \A j \in jobs : j.version <= newest /\ j.tries < Attempts[j.kind]
  /\ calls \subseteq Calls /\ \A c \in calls : c.version <= newest
  /\ sweep \in {"idle", "listing", "dead", "unqueued"}
  /\ asks \in 0..MaxAsks /\ fails \in 0..MaxFaults /\ lost \in 0..MaxFaults

Faultless == lost = 0
Reads(j) == j.kind \notin Checkpoints

(* While the page says an analysis is under way, a job of one is: however    *)
(* uploads, edits, retries and late jobs cross, the status is only left      *)
(* behind when the queue lost a job (ANALYSIS_IN_PROGRESS,                   *)
(* packages/types/src/analysis.ts).  ANALYZING is the exception: a           *)
(* checkpoint whose clauses cannot be followed, and that then finds the      *)
(* contract on another version, leaves it there (analysis-trigger.ts:85).    *)
InProgressIsQueued ==
  InProgress /\ Faultless /\ status # "ANALYZING" => \E j \in jobs : Reads(j)

(* What the page calls analysed was read: the version stamped, or one with   *)
(* the same words, has clauses, or is too short to have any (finishAnalysis: *)
(* "an empty success is what made unread contracts look clean").             *)
StampIsRead ==
  stamp # 0 => text[stamp] \in Short \/ \E v \in clauses : text[v] = text[stamp]

(* An edit is not forgotten: once everything has run, the page only goes on  *)
(* saying that the analysis is of an earlier version when a job of that      *)
(* version came in last (scheduleCheckpointAnalysis, runCheckpointAnalysis). *)
Stale == status = "DONE" /\ stamp \notin {0, current}
EditNotForgotten ==
  Stale /\ Faultless /\ calls = {} /\ jobs = {} => late

(* No contract stays in progress: the chain of jobs ends it, and what was    *)
(* lost the sweep fails (recoverStuckContracts).  Two things are never       *)
(* swept: a contract with a checkpoint, which counts as its live job and     *)
(* waits for the analysis to end; and a file asked to be read again, which   *)
(* has its text.                                                             *)
InProgressEnds ==
  []<>(\/ ~InProgress \/ \E j \in jobs : j.kind \in Checkpoints
       \/ status = "PENDING" /\ text[current] # 0)

(* The queues run empty: a checkpoint that waits for an analysis to end does *)
(* not wait for ever (runCheckpointAnalysis: "then try again after another   *)
(* delay, so the edit isn't lost"), unless a job was lost or a checkpoint    *)
(* left the contract ANALYZING.                                              *)
QuietAtLast ==
  \/ <>[](jobs = {})
  \/ <>~Faultless
  \/ <>[](status = "ANALYZING" /\ \A j \in jobs : j.kind \in Checkpoints)
=============================================================================
