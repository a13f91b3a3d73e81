---------------------------- MODULE Analysis_proofs ----------------------------
(***************************************************************************)
(* Proofs about Analysis, for any number of versions, faults and requests: *)
(* its types, and that it leaves no contract in progress without a job,    *)
(* stamps only what was read and forgets no edit.                          *)
(*                                                                         *)
(* The inductive invariant says of every job what it relies on: a job that *)
(* reads has a version, made and (after the parse) with text; a checkpoint *)
(* that is about to move the stamp has found the same words analysed.      *)
(***************************************************************************)
EXTENDS Analysis, TLAPS

WasRead(v) == text[v] \in Short \/ \E u \in clauses : text[u] = text[v]

NeedsText(j) ==
  \/ Reads(j) /\ (j.kind # "parse" \/ j.step = "read")
  \/ j.step \in {"incremental", "carry"}

JobOK(j) ==
  /\ j \in Job /\ j.version <= newest /\ j.tries < Attempts[j.kind]
  /\ Reads(j) \/ ~Waits(j) => j.version >= 1
  /\ NeedsText(j) => text[j.version] # 0
  /\ j.step = "same" => WasRead(j.version)
JobsOK == \A j \in jobs : JobOK(j)

Basics ==
  /\ status \in Statuses /\ late \in BOOLEAN
  /\ newest \in Versions /\ current \in 1..newest /\ stamp \in 0..newest
  /\ text \in [Versions -> 0..newest]
  /\ files \subseteq 1..newest /\ clauses \subseteq 1..newest
  /\ calls \subseteq Calls /\ \A c \in calls : c.version <= newest
  /\ sweep \in {"idle", "listing", "dead", "unqueued"}
  /\ asks \in 0..MaxAsks /\ fails \in 0..MaxFaults /\ lost \in 0..MaxFaults

TextOK ==
  /\ \A v \in clauses : text[v] # 0
  /\ \A c \in calls : c.kind = "edited" => text[c.version] # 0

(* An edit that is not analysed yet has something coming for it.             *)
Comes(j) == Reads(j) \/ Waits(j) \/ j.version = current
Coming == Stale /\ Faultless /\ ~late => calls # {} \/ \E j \in jobs : Comes(j)

Inv == Basics /\ JobsOK /\ TextOK /\ InProgressIsQueued /\ StampIsRead /\ Coming
-----------------------------------------------------------------------------
(* What a step may do to the document and its clauses. *)
Grows ==
  /\ newest' \in Versions /\ newest <= newest'
  /\ clauses \subseteq clauses' /\ clauses' \subseteq 1..newest'
  /\ text' \in [Versions -> 0..newest']
  /\ \A v \in 1..newest : text[v] # 0 => text'[v] = text[v]
  /\ \A v \in clauses' : text'[v] # 0

Fresh(n, kind, v) ==
  n \in Job /\ n.kind = kind /\ n.version = v /\ n.step = "waiting" /\ n.tries = 0

LEMMA SameGrows ==
  ASSUME Basics, TextOK, UNCHANGED <<newest, text, clauses>>
  PROVE  Grows
BY BoundsAssumption DEF Basics, TextOK, Grows, Versions

(* What was read stays read. *)
LEMMA StillRead ==
  ASSUME Basics, TextOK, Grows, NEW v \in 1..newest, WasRead(v)
  PROVE  WasRead(v)'
<1> USE ShortAssumption, BoundsAssumption DEF Basics, TextOK, Grows, WasRead, Versions
<1>1. text[v] # 0 /\ text'[v] = text[v]
  OBVIOUS
<1>2. CASE text[v] \in Short
  BY <1>1, <1>2
<1>3. CASE \E u \in clauses : text[u] = text[v]
  <2>1. PICK u \in clauses : text[u] = text[v]
    BY <1>3
  <2>2. u \in 1..newest /\ text[u] # 0 /\ text'[u] = text[u] /\ u \in clauses'
    BY <2>1
  <2> QED
    BY <1>1, <2>1, <2>2
<1> QED
  BY <1>2, <1>3

(* A job that was in order stays so. *)
LEMMA StaysOK ==
  ASSUME Basics, TextOK, Grows, NEW j, JobOK(j)
  PROVE  JobOK(j)'
<1>1. j \in Job /\ j.version \in 0..MaxVersions /\ newest \in Nat /\ newest' \in Nat /\ newest <= newest'
  BY BoundsAssumption DEF JobOK, Job, Basics, Grows, Versions
<1>2. j.version <= newest' /\ j.tries < Attempts[j.kind] /\ (Reads(j) \/ ~Waits(j) => j.version >= 1)
  BY <1>1 DEF JobOK
<1>3. ASSUME NeedsText(j) PROVE text'[j.version] # 0
  <2>1. j.version \in 1..newest /\ text[j.version] # 0
    BY <1>1, <1>3 DEF JobOK, NeedsText, Waits
  <2> QED
    BY <2>1 DEF Grows
<1>4. ASSUME j.step = "same" PROVE WasRead(j.version)'
  <2>1. j.version \in 1..newest /\ WasRead(j.version)
    BY <1>1, <1>4 DEF JobOK, Waits
  <2> QED
    BY <2>1, StillRead
<1> QED
  BY <1>1, <1>2, <1>3, <1>4 DEF JobOK, NeedsText, Reads, Waits

LEMMA FreshOK ==
  ASSUME Grows, NEW n, NEW kind \in Kinds, NEW v \in 0..newest', Fresh(n, kind, v),
         kind \notin Checkpoints => v >= 1,
         kind \notin Checkpoints \cup {"parse"} => text'[v] # 0
  PROVE  JobOK(n)'
BY AttemptsAssumption DEF JobOK, Fresh, NeedsText, Reads, Waits, Checkpoints, Grows

LEMMA QueueDoes ==
  ASSUME NEW J, NEW kind \in Kinds, NEW v \in 0..MaxVersions, Queue(J, kind, v)
  PROVE  \/ lost' = lost /\ \E n : Fresh(n, kind, v) /\ jobs' = J \cup {n}
         \/ MayFault /\ lost' = lost + 1 /\ jobs' = J
<1>1. ASSUME NEW n \in NewJobs(J, kind, v) PROVE Fresh(n, kind, v)
  BY <1>1 DEF NewJobs, Fresh, Job, Steps
<1> QED
  BY <1>1 DEF Queue

LEMMA ScheduledDoes ==
  ASSUME NEW J, NEW K \in Scheduled(J)
  PROVE  \E n : /\ \E kind \in Checkpoints : Fresh(n, kind, 0)
                /\ n \in K /\ K \subseteq J \cup {n}
                /\ \A j \in J : Reads(j) => j \in K
<1>1. ASSUME NEW kind \in Kinds, NEW n \in NewJobs(J, kind, 0) PROVE Fresh(n, kind, 0)
  BY <1>1, BoundsAssumption DEF NewJobs, Fresh, Job, Steps
<1>2. {"checkpoint", "later"} \subseteq Kinds \cap Checkpoints
  BY DEF Kinds, AgentJobs, Checkpoints
<1>3. CASE \E j \in J : j.kind = "checkpoint" /\ ~Waits(j)
  <2>1. PICK n \in NewJobs(J, "later", 0) : K = J \cup {n}
    BY <1>3 DEF Scheduled
  <2> QED
    BY <2>1, <1>1, <1>2
<1>4. CASE ~\E j \in J : j.kind = "checkpoint" /\ ~Waits(j)
  <2>1. PICK n \in NewJobs(J, "checkpoint", 0) : K = {j \in J : j.kind # "checkpoint"} \cup {n}
    BY <1>4 DEF Scheduled
  <2> QED
    BY <2>1, <1>1, <1>2 DEF Reads, Checkpoints
<1> QED
  BY <1>3, <1>4

LEMMA StampStays ==
  ASSUME Basics, TextOK, StampIsRead, Grows, stamp' = stamp
  PROVE  StampIsRead'
<1>1. CASE stamp = 0
  BY <1>1 DEF StampIsRead
<1>2. CASE stamp # 0
  BY <1>2, StillRead DEF StampIsRead, WasRead, Basics
<1> QED
  BY <1>1, <1>2

(* A step that queues a job that reads: the queue takes it, or it is lost.   *)
LEMMA Queues ==
  ASSUME Inv, Grows, NEW J, J \subseteq jobs, NEW kind \in Kinds, kind \notin Checkpoints,
         NEW v \in 1..newest', Queue(J, kind, v), kind # "parse" => text'[v] # 0
  PROVE  /\ lost' \in 0..MaxFaults
         /\ JobsOK'
         /\ Faultless' => \E j \in jobs' : Reads(j)
<1>1. v \in 0..MaxVersions /\ v \in 0..newest' /\ v >= 1
  BY BoundsAssumption DEF Grows, Versions
<1>2. CASE lost' = lost /\ \E n : Fresh(n, kind, v) /\ jobs' = J \cup {n}
  <2>1. PICK n : Fresh(n, kind, v) /\ jobs' = J \cup {n}
    BY <1>2
  <2>2. JobOK(n)'
    BY <1>1, <2>1, FreshOK
  <2>3. JobsOK'
    BY <2>1, <2>2, StaysOK DEF Inv, JobsOK
  <2>4. Reads(n)
    BY <2>1 DEF Fresh, Reads
  <2> QED
    BY <1>2, <2>1, <2>3, <2>4 DEF Inv, Basics
<1>3. CASE MayFault /\ lost' = lost + 1 /\ jobs' = J
  <2>1. lost' \in 0..MaxFaults /\ lost' # 0
    BY <1>3, BoundsAssumption DEF Inv, Basics, MayFault
  <2>2. JobsOK'
    BY <1>3, StaysOK DEF Inv, JobsOK
  <2> QED
    BY <2>1, <2>2 DEF Faultless
<1> QED
  BY <1>1, <1>2, <1>3, QueueDoes

(* A job goes on to its next step, or ends. *)
LEMMA GoesOn ==
  ASSUME Inv, Grows, NEW j \in jobs, NEW where \in Steps, At(j, where),
         Reads(j) \/ j.version >= 1,
         NeedsText([j EXCEPT !.step = where]) => text'[j.version] # 0,
         where # "same"
  PROVE  /\ JobsOK' /\ [j EXCEPT !.step = where] \in jobs'
         /\ jobs \ {j} \subseteq jobs'
         /\ Reads(j) => Reads([j EXCEPT !.step = where])
<1> DEFINE n == [j EXCEPT !.step = where]
<1>1. JobOK(j) /\ j \in Job
  BY DEF Inv, JobsOK, JobOK
<1>2. n \in Job /\ n.kind = j.kind /\ n.version = j.version /\ n.tries = j.tries /\ n.step = where
  BY <1>1 DEF Job
<1>3. JobOK(n)'
  <2>1. JobOK(j)'
    BY <1>1, StaysOK DEF Inv
  <2>2. n.version >= 1
    BY <1>1, <1>2 DEF JobOK
  <2>3. NeedsText(n)' => text'[n.version] # 0
    BY <1>2 DEF NeedsText, Reads
  <2>4. n.version <= newest' /\ n.tries < Attempts[n.kind]
    BY <1>2, <2>1 DEF JobOK
  <2> HIDE DEF n
  <2> QED
    BY <1>2, <2>2, <2>3, <2>4 DEF JobOK
<1>4. jobs' = (jobs \ {j}) \cup {n}
  BY DEF At
<1>5. JobsOK'
  <2> HIDE DEF n
  <2> QED
    BY <1>3, <1>4, StaysOK DEF Inv, JobsOK
<1> QED
  BY <1>2, <1>4, <1>5 DEF Reads

LEMMA Ends ==
  ASSUME Inv, Grows, NEW j, Ended(j)
  PROVE  JobsOK' /\ jobs' = jobs \ {j}
BY StaysOK DEF Ended, Inv, JobsOK

(* Calls that were announced keep their text. *)
LEMMA TextStays ==
  ASSUME Inv, Grows, calls' \subseteq calls
  PROVE  TextOK'
<1>1. ASSUME NEW c \in calls', c.kind = "edited" PROVE text'[c.version] # 0
  <2>1. c \in calls /\ c.version \in 1..newest /\ text[c.version] # 0
    BY <1>1, BoundsAssumption DEF Inv, Basics, TextOK, Calls, Versions
  <2> QED
    BY <2>1 DEF Grows
<1> QED
  BY <1>1 DEF TextOK, Grows

(* The three ways a step leaves the contract in order: a job that reads is   *)
(* there, the analysis failed, or what was under way still is.               *)
LEMMA ReadingInv ==
  ASSUME Basics', JobsOK', TextOK', StampIsRead', Faultless' => \E j \in jobs' : Reads(j)
  PROVE  Inv'
BY DEF Inv, InProgressIsQueued, Coming, Comes, Reads

LEMMA FailedInv ==
  ASSUME Basics', JobsOK', TextOK', StampIsRead', status' = "FAILED"
  PROVE  Inv'
BY DEF Inv, InProgressIsQueued, Coming, Stale, InProgress, InProgressStatuses

LEMMA OnInv ==
  ASSUME Inv, Basics', JobsOK', TextOK', StampIsRead', UNCHANGED <<status, lost>>,
         \A j \in jobs : Reads(j) => \E k \in jobs' : Reads(k),
         Coming'
  PROVE  Inv'
BY DEF Inv, InProgressIsQueued, InProgress, Faultless

(* The work of the jobs, kind by kind. *)
Others == UNCHANGED <<newest, files, calls, sweep, Counts>>

LEMMA SaysGrows ==
  ASSUME Inv, NEW v \in Versions, text[v] = 0, v <= newest', Says(v), newest <= newest', newest' \in Versions
  PROVE  /\ text' \in [Versions -> 0..newest'] /\ text'[v] # 0
         /\ \A u \in Versions : u # v => text'[u] = text[u]
<1>1. PICK t \in 1..v : text' = [text EXCEPT ![v] = t]
  BY DEF Says
<1> QED
  BY <1>1, BoundsAssumption DEF Inv, Basics, Versions

LEMMA CarryGrows ==
  ASSUME Inv, NEW v \in 1..newest, Carry(v)
  PROVE  /\ clauses \subseteq clauses' /\ clauses' \subseteq 1..newest
         /\ clauses' \subseteq clauses \cup {v}
BY DEF Carry, Inv, Basics

LEMMA ParseStep ==
  ASSUME Inv, NEW j \in jobs, Parse(j), UNCHANGED current, Others
  PROVE  Inv'
<1> USE DEF Others, Counts
<1>1. /\ JobOK(j) /\ j.version \in 1..newest /\ j.version \in Versions /\ Reads(j) /\ newest \in Versions
      /\ j.kind = "parse" /\ stamp' = stamp /\ late' = late
  BY BoundsAssumption DEF Inv, Basics, JobsOK, JobOK, Job, Parse, Reads, Checkpoints, Versions
<1>2. CASE Waits(j) /\ At(j, "reading") /\ status' \in {status, "PARSING"} /\ UNCHANGED <<text, clauses, lost>>
  <2>1. Grows
    BY <1>2, SameGrows DEF Inv
  <2>2. ~NeedsText([j EXCEPT !.step = "reading"])
    BY <1>1 DEF NeedsText, JobOK, Job
  <2>3. JobsOK' /\ \E k \in jobs' : Reads(k)
    BY <1>1, <1>2, <2>1, <2>2, GoesOn DEF Steps
  <2>4. Basics'
    BY <1>1, <1>2 DEF Inv, Basics, Statuses, InProgressStatuses
  <2> QED
    BY <1>1, <2>1, <2>3, <2>4, TextStays, StampStays, ReadingInv DEF Inv
<1>3. CASE Ended(j) /\ status' = "FAILED" /\ UNCHANGED <<text, clauses, lost>>
  <2>1. Grows
    BY <1>3, SameGrows DEF Inv
  <2>2. JobsOK'
    BY <1>3, <2>1, Ends
  <2>3. Basics'
    BY <1>1, <1>3 DEF Inv, Basics, Statuses
  <2> QED
    BY <1>1, <1>3, <2>1, <2>2, <2>3, TextStays, StampStays, FailedInv DEF Inv
<1>4. CASE /\ At(j, "read") /\ Carry(j.version) /\ UNCHANGED <<status, lost>>
           /\ IF text[j.version] = 0 THEN Says(j.version) ELSE UNCHANGED text
  <2>1. /\ text' \in [Versions -> 0..newest'] /\ text'[j.version] # 0
        /\ \A u \in 1..newest : text[u] # 0 => text'[u] = text[u]
    <3>1. CASE text[j.version] = 0
      BY <1>1, <1>4, <3>1, SaysGrows, BoundsAssumption DEF Versions
    <3>2. CASE text[j.version] # 0
      BY <1>1, <1>4, <3>2 DEF Inv, Basics
    <3> QED
      BY <3>1, <3>2
  <2>2. Grows
    BY <1>1, <1>4, <2>1, CarryGrows DEF Grows, Inv, Basics, TextOK, Versions
  <2>3. JobsOK' /\ \E k \in jobs' : Reads(k)
    BY <1>1, <1>4, <2>1, <2>2, GoesOn DEF Steps
  <2>4. Basics'
    BY <1>1, <1>4, <2>2 DEF Inv, Basics, Grows
  <2> QED
    BY <1>1, <2>2, <2>3, <2>4, TextStays, StampStays, ReadingInv DEF Inv
<1>5. CASE j.step = "read" /\ status' = "PARSING" /\ Queue(jobs \ {j}, "detect", j.version)
           /\ UNCHANGED <<text, clauses>>
  <2>1. Grows
    BY <1>5, SameGrows DEF Inv
  <2>2. text'[j.version] # 0
    BY <1>1, <1>5 DEF JobOK, NeedsText
  <2>3. /\ lost' \in 0..MaxFaults /\ JobsOK'
        /\ Faultless' => \E k \in jobs' : Reads(k)
    BY <1>1, <1>5, <2>1, <2>2, Queues DEF Kinds, AgentJobs, Checkpoints
  <2>4. Basics'
    BY <1>1, <1>5, <2>3 DEF Inv, Basics, Statuses, InProgressStatuses
  <2> QED
    BY <1>1, <2>1, <2>3, <2>4, TextStays, StampStays, ReadingInv DEF Inv
<1> QED
  BY <1>2, <1>3, <1>4, <1>5 DEF Parse

LEMMA ClassifyStep ==
  ASSUME Inv, NEW j \in jobs, Classify(j), UNCHANGED current, Others
  PROVE  Inv'
<1> USE DEF Others, Counts
<1>1. /\ j.version \in 1..newest /\ text[j.version] # 0 /\ stamp' = stamp
      /\ UNCHANGED <<text, clauses>>
  BY BoundsAssumption
     DEF Inv, Basics, JobsOK, JobOK, Job, Classify, Reads, Checkpoints, Versions, NeedsText
<1>2. Grows
  BY <1>1, SameGrows DEF Inv
<1>3. PICK kind \in {"classify", "extract"} : Queue(jobs \ {j}, kind, j.version)
  BY DEF Classify
<1>4. /\ lost' \in 0..MaxFaults /\ JobsOK'
      /\ Faultless' => \E k \in jobs' : Reads(k)
  BY <1>1, <1>2, <1>3, Queues DEF Kinds, AgentJobs, Checkpoints
<1>5. Basics'
  BY <1>1, <1>4 DEF Classify, Inv, Basics, Statuses, InProgressStatuses
<1> QED
  BY <1>1, <1>2, <1>4, <1>5, TextStays, StampStays, ReadingInv DEF Inv

LEMMA ExtractStep ==
  ASSUME Inv, NEW j \in jobs, Extract(j), UNCHANGED current, Others
  PROVE  Inv'
<1> USE DEF Others, Counts
<1>1. /\ j.version \in 1..newest /\ text[j.version] # 0 /\ UNCHANGED <<stamp, late, text>>
      /\ Reads(j) /\ JobOK(j)
  BY BoundsAssumption
     DEF Inv, Basics, JobsOK, JobOK, Job, Extract, Reads, Checkpoints, Versions, NeedsText
<1>2. CASE status' = "DONE" /\ At(j, "patched") /\ UNCHANGED <<clauses, lost>>
  <2>1. Grows
    BY <1>1, <1>2, SameGrows DEF Inv
  <2>2. JobsOK' /\ \E k \in jobs' : Reads(k)
    BY <1>1, <1>2, <2>1, GoesOn DEF Steps
  <2>3. Basics'
    BY <1>1, <1>2 DEF Inv, Basics, Statuses
  <2> QED
    BY <1>1, <2>1, <2>2, <2>3, TextStays, StampStays, ReadingInv DEF Inv
<1>3. CASE /\ Queue(jobs \ {j}, "chunk", j.version) /\ UNCHANGED status
           /\ clauses' \in {clauses, clauses \cup {j.version}}
  <2>1. /\ clauses \subseteq clauses' /\ clauses' \subseteq clauses \cup {j.version}
        /\ clauses' \subseteq 1..newest
    BY <1>1, <1>3 DEF Inv, Basics
  <2>2. \A v \in clauses' : text'[v] # 0
    BY <1>1, <2>1 DEF Inv, TextOK
  <2>3. newest' = newest /\ newest \in Versions /\ text \in [Versions -> 0..newest]
    BY DEF Inv, Basics
  <2>4. Grows
    BY <1>1, <2>1, <2>2, <2>3, BoundsAssumption DEF Grows, Versions
  <2>5. /\ lost' \in 0..MaxFaults /\ JobsOK'
        /\ Faultless' => \E k \in jobs' : Reads(k)
    BY <1>1, <1>3, <2>4, Queues DEF Kinds, DocumentJobs, Checkpoints
  <2>6. Basics'
    BY <1>1, <1>3, <2>4, <2>5 DEF Inv, Basics, Grows
  <2> QED
    BY <1>1, <2>4, <2>5, <2>6, TextStays, StampStays, ReadingInv DEF Inv
<1> QED
  BY <1>2, <1>3 DEF Extract

(* What finishes an analysis stamps a version that has clauses or is short.  *)
LEMMA Finished ==
  ASSUME Inv, NEW v \in 1..newest, UNCHANGED <<text, current, newest>>, Finish(v, clauses')
  PROVE  /\ stamp' \in 0..newest /\ late' \in BOOLEAN /\ status' \in {"DONE", "FAILED"}
         /\ status' = "FAILED" => stamp' = stamp
         /\ status' = "DONE" => stamp' = v /\ StampIsRead' /\ Coming'
<1>1. CASE CountsAsDone(v, clauses')
  <2>1. status' = "DONE" /\ stamp' = v /\ late' = (v # current)
    BY <1>1 DEF Finish
  <2>2. StampIsRead'
    BY <1>1, <2>1 DEF StampIsRead, CountsAsDone
  <2>3. Coming'
    BY <2>1 DEF Coming, Stale
  <2> QED
    BY <2>1, <2>2, <2>3 DEF Inv, Basics
<1>2. CASE ~CountsAsDone(v, clauses')
  BY <1>2 DEF Finish, Inv, Basics
<1> QED
  BY <1>1, <1>2

LEMMA FinishedInv ==
  ASSUME Inv, Grows, NEW v \in 1..newest, UNCHANGED <<text, current, lost>>, Others,
         Finish(v, clauses'), JobsOK'
  PROVE  Inv'
<1> USE DEF Others, Counts
<1>1. /\ stamp' \in 0..newest /\ late' \in BOOLEAN /\ status' \in {"DONE", "FAILED"}
      /\ status' = "FAILED" => stamp' = stamp
      /\ status' = "DONE" => stamp' = v /\ StampIsRead' /\ Coming'
  BY Finished
<1>2. Basics'
  BY <1>1 DEF Inv, Basics, Statuses, Grows
<1>3. TextOK'
  BY TextStays
<1>4. CASE status' = "FAILED"
  BY <1>1, <1>2, <1>3, <1>4, StampStays, FailedInv DEF Inv
<1>5. CASE status' = "DONE"
  BY <1>1, <1>2, <1>3, <1>5 DEF Inv, InProgressIsQueued, InProgress, InProgressStatuses
<1> QED
  BY <1>1, <1>4, <1>5

LEMMA ChunkStep ==
  ASSUME Inv, NEW j \in jobs, Chunk(j), UNCHANGED current, Others
  PROVE  Inv'
<1> USE DEF Others, Counts
<1>1. /\ j.version \in 1..newest /\ text[j.version] # 0 /\ UNCHANGED <<text, clauses, lost>>
      /\ Reads(j) /\ JobOK(j)
  BY BoundsAssumption
     DEF Inv, Basics, JobsOK, JobOK, Job, Chunk, Reads, Checkpoints, Versions, NeedsText
<1>2. Grows
  BY <1>1, SameGrows DEF Inv
<1>3. CASE status' = "INDEXING" /\ At(j, "indexing") /\ UNCHANGED <<stamp, late>>
  <2>1. JobsOK' /\ \E k \in jobs' : Reads(k)
    BY <1>1, <1>2, <1>3, GoesOn DEF Steps
  <2>2. Basics'
    BY <1>1, <1>3 DEF Inv, Basics, Statuses, InProgressStatuses
  <2> QED
    BY <1>1, <1>2, <1>3, <2>1, <2>2, TextStays, StampStays, ReadingInv DEF Inv
<1>4. CASE Finish(j.version, clauses) /\ Ended(j)
  BY <1>1, <1>2, <1>4, Ends, FinishedInv
<1> QED
  BY <1>1, <1>3, <1>4 DEF Chunk

LEMMA FiresStep ==
  ASSUME Inv, NEW j \in jobs, j.kind \in Checkpoints, Fires(j), UNCHANGED text, Others
  PROVE  Inv'
<1> USE DEF Others, Counts
<1>1. /\ JobOK(j) /\ ~Reads(j) /\ UNCHANGED <<status, stamp, late, clauses, current, lost>>
      /\ newest' = newest /\ current \in 1..newest /\ newest \in Versions
  BY DEF Inv, Basics, JobsOK, Fires, Reads
<1>2. Grows
  BY <1>1, SameGrows DEF Inv
<1>3. Basics' /\ TextOK' /\ StampIsRead'
  BY <1>1, <1>2, TextStays, StampStays DEF Inv, Basics
<1>4. CASE AnalysedAlready /\ Ended(j)
  <2>1. JobsOK' /\ \A k \in jobs : Reads(k) => k \in jobs'
    BY <1>1, <1>2, <1>4, Ends DEF Ended
  <2>2. Coming'
    BY <1>1, <1>4 DEF Coming, Stale, AnalysedAlready
  <2> QED
    BY <1>1, <1>3, <2>1, <2>2, OnInv
<1>5. CASE /\ StillRunning
           /\ \E J \in Scheduled((jobs \ {j}) \cup {Running(j)}) : jobs' = J \ {Running(j)}
  <2> DEFINE J0 == (jobs \ {j}) \cup {Running(j)}
  <2>1. PICK J \in Scheduled(J0) : jobs' = J \ {Running(j)}
    BY <1>5
  <2>2. ~Reads(Running(j)) /\ Running(j).kind = j.kind
    BY <1>1 DEF Running, Reads, JobOK, Job
  <2>3. PICK n : /\ \E kind \in Checkpoints : Fresh(n, kind, 0)
                 /\ n \in J /\ J \subseteq J0 \cup {n} /\ \A k \in J0 : Reads(k) => k \in J
    BY <2>1, ScheduledDoes
  <2>4. JobOK(n)'
    <3>1. 0 \in 0..newest' /\ Checkpoints \subseteq Kinds
      BY <1>2, BoundsAssumption DEF Grows, Versions, Kinds, AgentJobs
    <3> QED
      BY <1>2, <2>3, <3>1, FreshOK
  <2>5. jobs' \subseteq (jobs \ {j}) \cup {n}
    BY <2>1, <2>3
  <2>6. JobsOK'
    BY <1>2, <2>4, <2>5, StaysOK DEF Inv, JobsOK
  <2>7. \A k \in jobs : Reads(k) => k \in jobs'
    BY <1>1, <2>1, <2>2, <2>3
  <2>8. Coming'
    BY <1>1, <1>5 DEF Coming, Stale, StillRunning, InProgress, InProgressStatuses
  <2> QED
    BY <1>1, <1>3, <2>6, <2>7, <2>8, OnInv
<1>6. CASE /\ ~AnalysedAlready /\ ~StillRunning
           /\ \E how \in {"same", "incremental", "full"} :
                /\ how = "same" => stamp # 0 /\ text[current] # 0 /\ text[current] = text[stamp]
                /\ how = "incremental" => text[current] # 0
                /\ jobs' = (jobs \ {j}) \cup {[j EXCEPT !.step = how, !.version = current]}
  <2>1. PICK how \in {"same", "incremental", "full"} :
          /\ how = "same" => stamp # 0 /\ text[current] # 0 /\ text[current] = text[stamp]
          /\ how = "incremental" => text[current] # 0
          /\ jobs' = (jobs \ {j}) \cup {[j EXCEPT !.step = how, !.version = current]}
    BY <1>6
  <2>0. PICK n : n = [j EXCEPT !.step = how, !.version = current]
    OBVIOUS
  <2>2. n \in Job /\ n.step = how /\ n.version = current /\ n.kind = j.kind /\ n.tries = j.tries
    <3>1. how \in Steps /\ current \in 0..MaxVersions /\ j \in Job
      BY <1>1, BoundsAssumption DEF JobOK, Steps, Versions
    <3> QED
      BY <2>0, <3>1 DEF Job
  <2>3. jobs' = (jobs \ {j}) \cup {n}
    BY <2>0, <2>1
  <2>4. how = "same" => WasRead(current)
    BY <2>1 DEF Inv, StampIsRead, WasRead
  <2>5. WasRead(current) => WasRead(current)'
    BY <1>1, <1>2, StillRead DEF Inv
  <2>6. JobOK(n)'
    <3>1. n.version <= newest' /\ n.version >= 1 /\ n.tries < Attempts[n.kind] /\ ~Reads(n)
      BY <1>1, <2>2, BoundsAssumption DEF JobOK, Reads, Versions
    <3>2. NeedsText(n)' => text'[n.version] # 0
      BY <1>1, <2>1, <2>2, <3>1 DEF NeedsText, Reads
    <3>3. (n.step = "same" => WasRead(n.version))'
      BY <1>1, <2>2, <2>4, <2>5 DEF WasRead
    <3> QED
      BY <2>2, <3>1, <3>2, <3>3 DEF JobOK
  <2>7. JobsOK' /\ \A k \in jobs : Reads(k) => k \in jobs'
    BY <1>1, <1>2, <2>3, <2>6, StaysOK DEF Inv, JobsOK
  <2>8. Coming'
    BY <1>1, <2>2, <2>3 DEF Coming, Comes
  <2> QED
    BY <1>1, <1>3, <2>7, <2>8, OnInv
<1> QED
  BY <1>4, <1>5, <1>6 DEF Fires

(* A version whose reading starts has a job that reads it, or the queue lost *)
(* the one it was given.                                                     *)
LEMMA Starts ==
  ASSUME Inv, Grows, NEW J, J \subseteq jobs, NEW v \in 1..newest, StartAnalysis(J, v),
         UNCHANGED <<text, newest>>
  PROVE  /\ lost' \in 0..MaxFaults /\ JobsOK' /\ status' \in Statuses /\ current' = v
         /\ Faultless' => \E j \in jobs' : Reads(j)
<1>1. PICK kind \in {"parse", "extract", "classify"} :
        Queue(J, kind, v) /\ (kind # "parse" => text[v] # 0)
  BY DEF StartAnalysis
<1>2. kind \in Kinds /\ kind \notin Checkpoints
  BY DEF Kinds, DocumentJobs, AgentJobs, Checkpoints
<1>3. status' \in Statuses /\ current' = v
  BY DEF StartAnalysis, Statuses, InProgressStatuses
<1> QED
  BY <1>1, <1>2, <1>3, Queues

LEMMA AnalysesStep ==
  ASSUME Inv, NEW j \in jobs, j.kind \in Checkpoints, Analyses(j), UNCHANGED text, Others
  PROVE  Inv'
<1> USE DEF Others, Counts
<1>1. /\ JobOK(j) /\ ~Reads(j) /\ ~Waits(j) /\ j.version \in 1..newest /\ UNCHANGED <<newest, text>>
      /\ newest \in Versions /\ j.version >= 1
  BY BoundsAssumption
     DEF Inv, Basics, JobsOK, JobOK, Job, Analyses, Reads, Waits, Versions
<1>2. ASSUME UNCHANGED clauses PROVE Grows /\ TextOK' /\ (stamp' = stamp => StampIsRead')
  BY <1>1, <1>2, SameGrows, TextStays, StampStays DEF Inv
<1>3. CASE /\ j.step = "same" /\ stamp' = j.version /\ late' = (j.version # current) /\ Ended(j)
           /\ UNCHANGED <<status, clauses, current, lost>>
  <2>1. JobsOK' /\ \A k \in jobs : Reads(k) => k \in jobs'
    BY <1>1, <1>2, <1>3, Ends DEF Ended
  <2>2. StampIsRead'
    BY <1>1, <1>3 DEF JobOK, WasRead, StampIsRead
  <2>3. Coming'
    BY <1>1, <1>3 DEF Coming, Stale
  <2>4. stamp' \in 0..newest' /\ late' \in BOOLEAN
    BY <1>1, <1>3
  <2>5. Basics'
    BY <1>1, <1>3, <2>4 DEF Inv, Basics
  <2> QED
    BY <1>2, <1>3, <2>1, <2>2, <2>3, <2>5, OnInv
<1>4. CASE /\ j.step = "incremental" /\ status' = "ANALYZING" /\ At(j, "carry")
           /\ UNCHANGED <<stamp, late, clauses, current, lost>>
  <2>1. text'[j.version] # 0
    BY <1>1, <1>4 DEF JobOK, NeedsText
  <2>2. JobsOK'
    <3>1. "carry" \in Steps /\ "carry" # "same" /\ Grows /\ At(j, "carry")
      BY <1>2, <1>4 DEF Steps
    <3> QED
      BY <1>1, <2>1, <3>1, GoesOn
  <2>3. Basics'
    BY <1>1, <1>4 DEF Inv, Basics, Statuses, InProgressStatuses
  <2> QED
    BY <1>2, <1>4, <2>2, <2>3
       DEF Inv, InProgressIsQueued, Coming, Stale
<1>5. CASE /\ j.step = "carry" /\ Carry(j.version) /\ UNCHANGED <<current, lost>>
           /\ IF j.version \in clauses'
              THEN Finish(j.version, clauses') /\ Ended(j)
              ELSE At(j, "full") /\ UNCHANGED <<status, stamp, late>>
  <2>1. text[j.version] # 0
    BY <1>1, <1>5 DEF JobOK, NeedsText
  <2>2. /\ clauses \subseteq clauses' /\ clauses' \subseteq 1..newest
        /\ \A v \in clauses' : text'[v] # 0
    BY <1>1, <1>5, <2>1, CarryGrows DEF Inv, TextOK
  <2>3. Grows
    BY <1>1, <2>2 DEF Grows, Inv, Basics, Versions
  <2>4. CASE j.version \in clauses'
    BY <1>1, <1>5, <2>3, <2>4, Ends, FinishedInv
  <2>5. CASE j.version \notin clauses'
    <3>1. At(j, "full") /\ UNCHANGED <<status, stamp, late>>
      BY <1>5, <2>5
    <3> DEFINE n == [j EXCEPT !.step = "full"]
    <3>2. n.version = j.version
      BY <1>1 DEF JobOK, Job
    <3>3. JobsOK' /\ n \in jobs' /\ jobs \ {j} \subseteq jobs'
      <4>1. "full" \in Steps /\ "full" # "same" /\ text'[j.version] # 0
        BY <1>1, <2>1 DEF Steps
      <4> QED
        BY <1>1, <2>3, <3>1, <4>1, GoesOn
    <3>4. Coming'
      <4> SUFFICES ASSUME Stale', Faultless', ~late' PROVE calls' # {} \/ \E k \in jobs' : Comes(k)'
        BY DEF Coming
      <4>1. CASE calls # {}
        BY <4>1
      <4>2. CASE calls = {}
        <5>1. PICK k \in jobs : Comes(k)
          BY <1>5, <3>1, <4>2 DEF Inv, Coming, Stale, Faultless
        <5>2. CASE k # j
          BY <1>5, <3>3, <5>1, <5>2 DEF Comes, Reads, Waits
        <5>3. CASE k = j
          <6> HIDE DEF n
          <6> QED
            BY <1>1, <1>5, <3>2, <3>3, <5>1, <5>3 DEF Comes
        <5> QED
          BY <5>2, <5>3
      <4> QED
        BY <4>1, <4>2
    <3>5. Basics' /\ TextOK' /\ StampIsRead'
      BY <1>1, <1>5, <2>2, <2>3, <3>1, TextStays, StampStays DEF Inv, Basics
    <3> HIDE DEF n
    <3>6. \A k \in jobs : Reads(k) => k \in jobs'
      BY <1>1, <3>3
    <3> QED
      BY <1>5, <3>1, <3>3, <3>4, <3>5, <3>6, OnInv
  <2> QED
    BY <2>4, <2>5
<1>6. CASE /\ j.step = "full" /\ IF current = j.version THEN At(j, "point") ELSE Ended(j)
           /\ UNCHANGED <<status, stamp, late, clauses, current, lost>>
  <2>1. Basics'
    BY <1>1, <1>6 DEF Inv, Basics
  <2>2. CASE current = j.version
    <3> DEFINE n == [j EXCEPT !.step = "point"]
    <3>1. n.version = j.version /\ ~NeedsText(n)
      BY <1>1 DEF JobOK, Job, NeedsText, Reads
    <3>2. JobsOK' /\ n \in jobs' /\ jobs \ {j} \subseteq jobs'
      <4>1. "point" \in Steps /\ "point" # "same" /\ Grows /\ At(j, "point")
        BY <1>2, <1>6, <2>2 DEF Steps
      <4> QED
        BY <1>1, <3>1, <4>1, GoesOn
    <3> HIDE DEF n
    <3>3. Coming'
      BY <1>6, <2>2, <3>1, <3>2 DEF Coming, Comes
    <3>4. \A k \in jobs : Reads(k) => k \in jobs'
      BY <1>1, <3>2
    <3> QED
      BY <1>2, <1>6, <2>1, <3>2, <3>3, <3>4, OnInv
  <2>3. CASE current # j.version
    <3>1. JobsOK' /\ jobs' = jobs \ {j}
      BY <1>2, <1>6, <2>3, Ends
    <3>2. ~Comes(j)
      BY <1>1, <2>3 DEF Comes
    <3>3. Coming'
      BY <1>6, <3>1, <3>2 DEF Inv, Coming, Comes, Reads, Waits, Stale, Faultless
    <3>4. \A k \in jobs : Reads(k) => k \in jobs'
      BY <1>1, <3>1
    <3> QED
      BY <1>2, <1>6, <2>1, <3>1, <3>3, <3>4, OnInv
  <2> QED
    BY <2>2, <2>3
<1>7. CASE /\ j.step = "point" /\ StartAnalysis(jobs \ {j}, j.version)
           /\ UNCHANGED <<stamp, late, clauses>>
  <2>1. /\ lost' \in 0..MaxFaults /\ JobsOK' /\ status' \in Statuses /\ current' = j.version
        /\ Faultless' => \E k \in jobs' : Reads(k)
    BY <1>1, <1>2, <1>7, Starts
  <2>2. Basics'
    BY <1>1, <1>7, <2>1 DEF Inv, Basics
  <2> QED
    BY <1>2, <1>7, <2>1, <2>2, ReadingInv
<1> QED
  BY <1>3, <1>4, <1>5, <1>6, <1>7 DEF Analyses
-----------------------------------------------------------------------------
(* Attempts that throw, jobs that go with their worker, embeddings.          *)
LEMMA ThrowsStep ==
  ASSUME Inv, NEW j \in jobs, Throws(j)
  PROVE  Inv'
<1>1. JobOK(j) /\ j \in Job /\ UNCHANGED <<stamp, late, Document, clauses, calls, sweep, asks, lost>>
  BY DEF Inv, JobsOK, JobOK, Throws
<1>2. Grows /\ TextOK' /\ StampIsRead'
  BY <1>1, SameGrows, TextStays, StampStays DEF Inv, Document
<1>3. fails' \in 0..MaxFaults
  BY BoundsAssumption DEF Inv, Basics, Throws, MayFault
<1>4. Basics'
  BY <1>1, <1>3 DEF Inv, Basics, Throws, Document, Statuses
<1>5. CASE Exhausted(j)
  <2>1. JobsOK'
    BY <1>2, <1>5, StaysOK DEF Throws, Inv, JobsOK
  <2> QED
    BY <1>2, <1>4, <1>5, <2>1, FailedInv DEF Throws, Said
<1>6. CASE ~Exhausted(j)
  <2>1. PICK n : n = [j EXCEPT !.step = "waiting", !.tries = j.tries + 1]
    OBVIOUS
  <2>2. jobs' = (jobs \ {j}) \cup {n} /\ status' = status
    BY <1>6, <2>1 DEF Throws, Said
  <2>3. /\ n \in Job /\ n.step = "waiting" /\ n.tries = j.tries + 1
        /\ n.kind = j.kind /\ n.version = j.version
    <3>1. j.tries + 1 \in Nat /\ "waiting" \in Steps
      BY <1>1 DEF Job, Steps
    <3> DEFINE t == j.tries + 1
    <3> HIDE DEF t
    <3>2. n = [j EXCEPT !.step = "waiting", !.tries = t] /\ t \in Nat /\ t = j.tries + 1
      BY <2>1, <3>1 DEF t
    <3> QED
      BY <1>1, <3>1, <3>2 DEF Job
  <2>4. n.tries < Attempts[n.kind]
    <3>1. Attempts[j.kind] \in Nat /\ j.tries \in Nat
      BY <1>1, AttemptsAssumption DEF Job
    <3> QED
      BY <1>6, <2>3, <3>1 DEF Exhausted
  <2>5. JobOK(n)'
    <3>1. JobOK(j)'
      BY <1>1, <1>2, StaysOK DEF Inv
    <3> QED
      BY <2>3, <2>4, <3>1 DEF JobOK, NeedsText, Reads, Waits
  <2>6. JobsOK'
    BY <1>2, <2>2, <2>5, StaysOK DEF Inv, JobsOK
  <2>7. \A k \in jobs : Reads(k) => \E i \in jobs' : Reads(i)
    BY <2>2, <2>3 DEF Reads
  <2>8. Coming'
    BY <1>1, <2>2, <2>3 DEF Inv, Coming, Comes, Reads, Waits, Stale, Faultless, Document
  <2> QED
    BY <1>1, <1>2, <1>4, <2>2, <2>6, <2>7, <2>8, OnInv
<1> QED
  BY <1>5, <1>6

LEMMA DiesStep ==
  ASSUME Inv, NEW j \in jobs, Dies(j)
  PROVE  Inv'
<1>1. UNCHANGED <<status, stamp, late, Document, clauses, calls, sweep, Counts>>
  BY DEF Dies
<1>2. Grows /\ TextOK' /\ StampIsRead'
  BY <1>1, SameGrows, TextStays, StampStays DEF Inv, Document
<1>3. lost' \in 0..MaxFaults /\ lost' # 0
  BY BoundsAssumption DEF Inv, Basics, Dies, MayFault
<1>4. Basics'
  BY <1>1, <1>3 DEF Inv, Basics, Document, Counts
<1>5. JobsOK'
  BY <1>2, Ends DEF Dies
<1> QED
  BY <1>2, <1>3, <1>4, <1>5, ReadingInv DEF Faultless

LEMMA EmbedThrowsStep ==
  ASSUME Inv, EmbedThrows
  PROVE  Inv'
<1>1. UNCHANGED <<stamp, late, Document, clauses, jobs, calls, sweep, asks, lost>> /\ status' = "FAILED"
  BY DEF EmbedThrows
<1>2. Grows /\ TextOK' /\ StampIsRead'
  BY <1>1, SameGrows, TextStays, StampStays DEF Inv, Document
<1>3. fails' \in 0..MaxFaults
  BY BoundsAssumption DEF Inv, Basics, EmbedThrows, MayFault
<1>4. Basics'
  BY <1>1, <1>3 DEF Inv, Basics, Document, Statuses
<1>5. JobsOK'
  BY <1>1, <1>2, StaysOK DEF Inv, JobsOK
<1> QED
  BY <1>1, <1>2, <1>4, <1>5, FailedInv

(* What people do. *)
LEMMA AskedOK ==
  ASSUME Inv, Asked
  PROVE  asks' \in 0..MaxAsks
BY BoundsAssumption DEF Inv, Basics, Asked

LEMMA UploadStep ==
  ASSUME Inv, Upload
  PROVE  Inv'
<1>1. /\ newest' = newest + 1 /\ current' = newest' /\ files' = files \cup {newest'} /\ status' = "PENDING"
      /\ UNCHANGED <<stamp, late, text, clauses, calls, sweep, fails>> /\ Queue(jobs, "parse", newest')
  BY DEF Upload
<1>2. newest \in Nat /\ newest >= 1 /\ newest' \in Versions /\ newest' \in 1..newest'
  BY <1>1, BoundsAssumption DEF Upload, Inv, Basics, Versions
<1>3. Grows
  BY <1>1, <1>2 DEF Inv, Basics, TextOK, Grows
<1>4. lost' \in 0..MaxFaults /\ JobsOK' /\ (Faultless' => \E j \in jobs' : Reads(j))
  BY <1>1, <1>2, <1>3, Queues DEF Kinds, DocumentJobs, Checkpoints
<1>5. asks' \in 0..MaxAsks
  BY AskedOK DEF Upload
<1>6. calls' \subseteq Calls /\ \A c \in calls' : c.version <= newest'
  BY <1>1, <1>2, BoundsAssumption DEF Inv, Basics, Calls, Versions
<1>7. stamp' \in 0..newest' /\ files' \subseteq 1..newest'
  BY <1>1, <1>2 DEF Inv, Basics
<1>8. Basics'
  BY <1>1, <1>2, <1>3, <1>4, <1>5, <1>6, <1>7 DEF Inv, Basics, Grows, Statuses
<1> QED
  BY <1>1, <1>3, <1>4, <1>8, TextStays, StampStays, ReadingInv DEF Inv

LEMMA EditStep ==
  ASSUME Inv, Edit
  PROVE  Inv'
<1> DEFINE c == [kind |-> "edited", version |-> newest']
<1>1. /\ newest' = newest + 1 /\ current' = newest' /\ Says(newest') /\ calls' = calls \cup {c}
      /\ UNCHANGED <<status, stamp, late, files, clauses, jobs, sweep, fails, lost>>
  BY DEF Edit
<1>2. newest \in Nat /\ newest >= 1 /\ newest' \in Versions /\ newest' \in 1..newest'
  BY <1>1, BoundsAssumption DEF Edit, Inv, Basics, Versions
<1>3. /\ text' \in [Versions -> 0..newest'] /\ text'[newest'] # 0
      /\ \A u \in Versions : u # newest' => text'[u] = text[u]
  <2>1. PICK t \in 1..newest' : text' = [text EXCEPT ![newest'] = t]
    BY <1>1 DEF Says
  <2> QED
    BY <1>1, <1>2, <2>1, BoundsAssumption DEF Inv, Basics, Versions
<1>4. \A u \in 1..newest : text'[u] = text[u]
  BY <1>1, <1>2, <1>3, BoundsAssumption DEF Versions
<1>5. Grows
  BY <1>1, <1>2, <1>3, <1>4 DEF Inv, Basics, TextOK, Grows
<1>6. c \in Calls /\ c.version = newest'
  BY <1>2 DEF Calls
<1>7. TextOK'
  <2> HIDE DEF c
  <2>1. ASSUME NEW d \in calls', d.kind = "edited" PROVE text'[d.version] # 0
    <3>1. CASE d \in calls
      <4>1. d.version \in 1..newest /\ text[d.version] # 0
        BY <2>1, <3>1, BoundsAssumption DEF Inv, Basics, TextOK, Calls, Versions
      <4> QED
        BY <1>4, <4>1
    <3>2. CASE d = c
      BY <1>3, <1>6, <3>2
    <3> QED
      BY <1>1, <3>1, <3>2
  <2> QED
    BY <1>5, <2>1 DEF TextOK, Grows
<1>8. asks' \in 0..MaxAsks
  BY AskedOK DEF Edit
<1>9. Basics'
  <2> HIDE DEF c
  <2>1. calls' \subseteq Calls /\ \A d \in calls' : d.version <= newest'
    BY <1>1, <1>2, <1>6, BoundsAssumption DEF Inv, Basics, Calls, Versions
  <2> QED
    BY <1>1, <1>2, <1>3, <1>8, <2>1 DEF Inv, Basics
<1>10. JobsOK'
  BY <1>1, <1>5, StaysOK DEF Inv, JobsOK
<1>11. calls' # {}
  BY <1>1
<1> QED
  BY <1>1, <1>5, <1>7, <1>9, <1>10, <1>11, StampStays, OnInv DEF Inv, Coming

LEMMA AfterEditStep ==
  ASSUME Inv, NEW c \in calls, AfterEdit(c)
  PROVE  Inv'
<1>1. /\ calls' = calls \ {c} /\ Carry(c.version) /\ UNCHANGED <<status, stamp, late, Document, sweep, Counts>>
      /\ c.version \in 1..newest /\ text[c.version] # 0
  BY BoundsAssumption DEF AfterEdit, Inv, Basics, TextOK, Calls, Versions
<1>2. /\ clauses \subseteq clauses' /\ clauses' \subseteq 1..newest
      /\ \A v \in clauses' : text'[v] # 0
  BY <1>1, CarryGrows DEF Inv, TextOK, Document
<1>3. Grows
  BY <1>1, <1>2, BoundsAssumption DEF Grows, Inv, Basics, Versions, Document
<1>4. TextOK' /\ StampIsRead'
  BY <1>1, <1>3, TextStays, StampStays DEF Inv
<1>5. CASE jobs' \in Scheduled(jobs) /\ lost' = lost
  <2>1. PICK n : /\ \E kind \in Checkpoints : Fresh(n, kind, 0)
                 /\ n \in jobs' /\ jobs' \subseteq jobs \cup {n} /\ \A k \in jobs : Reads(k) => k \in jobs'
    BY <1>5, ScheduledDoes
  <2>2. JobOK(n)'
    <3>1. 0 \in 0..newest' /\ Checkpoints \subseteq Kinds
      BY <1>3, BoundsAssumption DEF Grows, Versions, Kinds, AgentJobs
    <3> QED
      BY <1>3, <2>1, <3>1, FreshOK
  <2>3. JobsOK'
    BY <1>3, <2>1, <2>2, StaysOK DEF Inv, JobsOK
  <2>4. Comes(n)'
    BY <2>1 DEF Comes, Waits, Fresh
  <2>5. Coming'
    BY <2>1, <2>4 DEF Coming
  <2>6. Basics'
    BY <1>1, <1>2, <1>5 DEF Inv, Basics, Document, Counts
  <2> QED
    BY <1>1, <1>4, <1>5, <2>1, <2>3, <2>5, <2>6, OnInv
<1>6. CASE MayFault /\ lost' = lost + 1 /\ jobs' = jobs
  <2>1. lost' \in 0..MaxFaults /\ lost' # 0
    BY <1>6, BoundsAssumption DEF Inv, Basics, MayFault
  <2>2. JobsOK'
    BY <1>3, <1>6, StaysOK DEF Inv, JobsOK
  <2>3. Basics'
    BY <1>1, <1>2, <2>1 DEF Inv, Basics, Document, Counts
  <2> QED
    BY <1>4, <2>1, <2>2, <2>3, ReadingInv DEF Faultless
<1> QED
  BY <1>5, <1>6 DEF AfterEdit

LEMMA ReanalyseStep ==
  ASSUME Inv, Reanalyse
  PROVE  Inv'
<1>1. UNCHANGED <<stamp, late, Document, clauses, calls, sweep, fails>> /\ current \in 1..newest
  BY DEF Reanalyse, Inv, Basics
<1>2. Grows /\ TextOK' /\ StampIsRead'
  BY <1>1, SameGrows, TextStays, StampStays DEF Inv, Document
<1>3. PICK kind \in {"parse", "classify"} :
        Queue(jobs, kind, current) /\ (kind # "parse" => text[current] # 0)
  BY DEF Reanalyse
<1>4. lost' \in 0..MaxFaults /\ JobsOK' /\ (Faultless' => \E j \in jobs' : Reads(j))
  <2>1. kind \in Kinds /\ kind \notin Checkpoints
    BY DEF Kinds, DocumentJobs, AgentJobs, Checkpoints
  <2>2. current \in 1..newest' /\ (kind # "parse" => text'[current] # 0)
    BY <1>1, <1>3 DEF Document
  <2> QED
    BY <1>2, <1>3, <2>1, <2>2, Queues
<1>5. asks' \in 0..MaxAsks /\ status' \in Statuses
  BY AskedOK DEF Reanalyse, Statuses, InProgressStatuses
<1>6. Basics'
  BY <1>1, <1>4, <1>5 DEF Inv, Basics, Document
<1> QED
  BY <1>2, <1>4, <1>6, ReadingInv

LEMMA CancelStep ==
  ASSUME Inv, Cancel
  PROVE  Inv'
<1>1. UNCHANGED <<stamp, late, Document, clauses, jobs, calls, sweep, fails, lost>> /\ status' = "FAILED"
  BY DEF Cancel
<1>2. Grows /\ TextOK' /\ StampIsRead'
  BY <1>1, SameGrows, TextStays, StampStays DEF Inv, Document
<1>3. asks' \in 0..MaxAsks
  BY AskedOK DEF Cancel
<1>4. Basics' /\ JobsOK'
  BY <1>1, <1>2, <1>3, StaysOK DEF Inv, Basics, JobsOK, Document, Statuses
<1> QED
  BY <1>1, <1>2, <1>4, FailedInv

LEMMA RetryStep ==
  ASSUME Inv, Retry
  PROVE  Inv'
<1> DEFINE c == [kind |-> "retry", version |-> current]
<1>1. /\ UNCHANGED <<status, stamp, late, Document, clauses, jobs, sweep, fails, lost>>
      /\ calls' = calls \cup {c}
  BY DEF Retry
<1>2. Grows /\ StampIsRead'
  BY <1>1, SameGrows, StampStays DEF Inv, Document
<1>3. asks' \in 0..MaxAsks
  BY AskedOK DEF Retry
<1>4. c \in Calls /\ c.version <= newest /\ c.kind # "edited"
  BY BoundsAssumption DEF Calls, Inv, Basics, Versions
<1> HIDE DEF c
<1>5. Basics'
  BY <1>1, <1>3, <1>4 DEF Inv, Basics, Document
<1>6. JobsOK'
  BY <1>1, <1>2, StaysOK DEF Inv, JobsOK
<1>7. TextOK'
  BY <1>1, <1>4 DEF Inv, TextOK, Document
<1>8. Coming'
  BY <1>1 DEF Coming
<1> QED
  BY <1>1, <1>2, <1>5, <1>6, <1>7, <1>8, OnInv

LEMMA RetryStartsStep ==
  ASSUME Inv, NEW c \in calls, RetryStarts(c)
  PROVE  Inv'
<1>1. /\ calls' = calls \ {c} /\ StartAnalysis(jobs, c.version) /\ c.version \in 1..newest
      /\ UNCHANGED <<stamp, late, newest, text, files, clauses, sweep, Counts>>
  BY BoundsAssumption DEF RetryStarts, Inv, Basics, Calls, Versions
<1>2. Grows /\ TextOK' /\ StampIsRead'
  BY <1>1, SameGrows, TextStays, StampStays DEF Inv
<1>3. /\ lost' \in 0..MaxFaults /\ JobsOK' /\ status' \in Statuses /\ current' = c.version
      /\ Faultless' => \E j \in jobs' : Reads(j)
  BY <1>1, <1>2, Starts
<1>4. Basics'
  BY <1>1, <1>3 DEF Inv, Basics, Counts
<1> QED
  BY <1>2, <1>3, <1>4, ReadingInv

(* The sweep fails a contract or leaves its status alone. *)
LEMMA SweepStep ==
  ASSUME Inv, Sweep
  PROVE  Inv'
<1>1. UNCHANGED <<stamp, late, Document, clauses, jobs, calls, Counts>>
  BY DEF Sweep
<1>2. Grows /\ TextOK' /\ StampIsRead'
  BY <1>1, SameGrows, TextStays, StampStays DEF Inv, Document
<1>3. /\ lost' \in 0..MaxFaults /\ lost' \in {lost, lost + 1}
      /\ sweep' \in {"idle", "listing", "dead", "unqueued"}
  BY BoundsAssumption DEF Inv, Basics, Sweep, Looks, Lists, Gives, MayFault
<1>4. status' \in {status, "FAILED"}
  BY DEF Sweep, Looks, Lists, Gives
<1>5. Basics' /\ JobsOK'
  BY <1>1, <1>2, <1>3, <1>4, StaysOK DEF Inv, Basics, JobsOK, Document, Counts, Statuses
<1>6. CASE status' = "FAILED"
  BY <1>2, <1>5, <1>6, FailedInv
<1>7. CASE status' = status /\ lost' = lost
  BY <1>1, <1>2, <1>5, <1>7, OnInv DEF Inv, Coming, Comes, Stale, Faultless, Document
<1>8. CASE status' = status /\ lost' = lost + 1
  <2>1. lost' # 0
    BY <1>8, BoundsAssumption DEF Inv, Basics
  <2> QED
    BY <1>2, <1>5, <2>1, ReadingInv DEF Faultless
<1> QED
  BY <1>3, <1>4, <1>6, <1>7, <1>8
-----------------------------------------------------------------------------
LEMMA InitInv ==
  ASSUME Init
  PROVE  Inv
<1> USE BoundsAssumption
<1>1. ASSUME NEW kind \in Kinds, NEW n \in NewJobs({}, kind, 1) PROVE Fresh(n, kind, 1)
  BY <1>1 DEF NewJobs, Fresh, Job, Steps
<1>2. PICK kind \in {"parse", "extract"} :
        /\ kind # "parse" => text[1] # 0
        /\ \E n \in NewJobs({}, kind, 1) : jobs = {n}
  BY DEF Init, Versions
<1>3. kind \in Kinds /\ kind \notin Checkpoints
  BY DEF Kinds, DocumentJobs, AgentJobs, Checkpoints
<1>4. PICK n : Fresh(n, kind, 1) /\ jobs = {n}
  BY <1>1, <1>2, <1>3
<1>5. /\ newest = 1 /\ current = 1 /\ stamp = 0 /\ late = FALSE /\ clauses = {} /\ calls = {}
      /\ sweep = "idle" /\ asks = 0 /\ fails = 0 /\ lost = 0 /\ files \subseteq {1}
      /\ text \in [Versions -> 0..1] /\ status \in Statuses
  BY DEF Init, Statuses, InProgressStatuses
<1>6. Basics
  <2>1. newest \in Versions /\ current \in 1..newest /\ stamp \in 0..newest
    BY <1>5 DEF Versions
  <2>2. late \in BOOLEAN
    BY <1>5
  <2>3. text \in [Versions -> 0..newest] /\ files \subseteq 1..newest /\ clauses \subseteq 1..newest
    BY <1>5
  <2>4. asks \in 0..MaxAsks /\ fails \in 0..MaxFaults /\ lost \in 0..MaxFaults
    BY <1>5
  <2> QED
    BY <1>5, <2>1, <2>2, <2>3, <2>4 DEF Basics
<1>7. JobOK(n)
  BY <1>2, <1>3, <1>4, <1>5, AttemptsAssumption DEF JobOK, Fresh, NeedsText, Reads, Waits, Checkpoints
<1>8. Reads(n)
  BY <1>3, <1>4 DEF Reads, Fresh
<1>9. JobsOK /\ TextOK /\ StampIsRead /\ InProgressIsQueued /\ Coming
  BY <1>4, <1>5, <1>7, <1>8 DEF JobsOK, TextOK, StampIsRead, InProgressIsQueued, Coming, Comes, Stale
<1> QED
  BY <1>6, <1>9 DEF Inv

LEMMA NextInv ==
  ASSUME Inv, [Next]_vars
  PROVE  Inv'
<1>1. ASSUME NEW j \in jobs, Work(j) PROVE Inv'
  <2>1. Others
    BY <1>1 DEF Work, Others
  <2> QED
    BY <1>1, <2>1, ParseStep, ClassifyStep, ExtractStep, ChunkStep, FiresStep, AnalysesStep
       DEF Work, Checkpoint
<1>2. CASE UNCHANGED vars
  <2>1. UNCHANGED <<status, stamp, late, newest, current, text, files, clauses, jobs, calls, sweep, asks, fails, lost>>
    BY <1>2 DEF vars, Document, Counts
  <2>2. Grows
    BY <2>1, SameGrows DEF Inv
  <2>3. Basics' /\ TextOK' /\ StampIsRead'
    BY <2>1, <2>2, TextStays, StampStays DEF Inv, Basics
  <2>4. JobsOK'
    BY <2>1, <2>2, StaysOK DEF Inv, JobsOK
  <2>5. Coming'
    BY <2>1 DEF Inv, Coming, Comes, Reads, Waits, Stale, Faultless
  <2> QED
    BY <2>1, <2>3, <2>4, <2>5, OnInv
<1> QED
  BY <1>1, <1>2, ThrowsStep, DiesStep, EmbedThrowsStep, UploadStep, EditStep, AfterEditStep,
     ReanalyseStep, CancelStep, RetryStep, RetryStartsStep, SweepStep
     DEF Next

(* The invariant holds in every state of every behaviour. *)
THEOREM AlwaysInv == Spec => []Inv
<1>1. Init => Inv
  BY InitInv
<1>2. Inv /\ [Next]_vars => Inv'
  BY NextInv
<1> QED
  BY <1>1, <1>2, PTL DEF Spec

(* What the tables and the queues hold: versions that were made, jobs that   *)
(* have attempts left.                                                       *)
THEOREM AnalysisTypes == Spec => []TypeOK
<1>1. Inv => TypeOK
  BY DEF Inv, Basics, JobsOK, JobOK, TypeOK
<1> QED
  BY <1>1, AlwaysInv, PTL

(* While an analysis is announced and no job was lost, a job of one is there,*)
(* ANALYZING apart.                                                          *)
THEOREM InProgressAlwaysQueued == Spec => []InProgressIsQueued
<1>1. Inv => InProgressIsQueued
  BY DEF Inv
<1> QED
  BY <1>1, AlwaysInv, PTL

(* What is stamped as analysed has clauses, or words too few to have any.    *)
THEOREM StampAlwaysRead == Spec => []StampIsRead
<1>1. Inv => StampIsRead
  BY DEF Inv
<1> QED
  BY <1>1, AlwaysInv, PTL

(* No edit is left behind unanalysed once the queues are empty, unless an    *)
(* older version's job came in last or a job was lost.                       *)
THEOREM NoEditForgotten == Spec => []EditNotForgotten
<1>1. Inv => EditNotForgotten
  BY DEF Inv, Coming, EditNotForgotten
<1> QED
  BY <1>1, AlwaysInv, PTL
=============================================================================
