-------------------------------- MODULE Signing --------------------------------
(***************************************************************************)
(* One signature request: its signers, in order or not, who sign and       *)
(* decline at the same time; the sender who voids it; its expiry and the   *)
(* reminder job; and the job that seals what was signed                    *)
(* (apps/api/src/routes/signatures.ts, lib/signing-order.ts,               *)
(* lib/seal-contract.ts, workers/signing.worker.ts and the signing         *)
(* reminder of workers/notification.worker.ts).                            *)
(*                                                                         *)
(* A handler is one request or reminder in flight; it stops at every write *)
(* and at every read it decides from.  The seal job is one job with an id  *)
(* of its own: it runs once at a time, and is tried again when it throws.  *)
(* What a stopped request shows on its contract is ContractFlow's.         *)
(***************************************************************************)
EXTENDS Naturals, FiniteSets

CONSTANTS
  Handlers,      \* the requests and jobs in flight
  Signers,       \* those asked to sign
  Group,         \* Signer.signOrder
  None,          \* no signer
  MaxVersions,   \* bound: versions of the document
  MaxAttempts,   \* attempts of the seal job (5 in the code)
  MaxFaults,     \* bound: calls of storage, renderer or queue that fail
  MaxReminders,  \* bound: reminders sent
  MaxCrashes     \* bound: processes that die half way

ASSUME SignersAssumption == Signers # {} /\ Group \in [Signers -> Nat] /\ None \notin Signers
ASSUME BoundsAssumption ==
  /\ MaxVersions \in Nat \ {0} /\ MaxAttempts \in Nat \ {0}
  /\ MaxFaults \in Nat /\ MaxReminders \in Nat /\ MaxCrashes \in Nat

VARIABLES
  sequential,         \* SignatureRequest.signOrder is SEQUENTIAL
  request,            \* SignatureRequest.status
  log,                \* the outcomes among its SignatureEvents
  answer,             \* Signer.status
  asked,              \* the signers who were emailed their link
  due,                \* expiresAt has passed
  executions,         \* how often it put the contract in force
  pc, job,            \* where each handler is and what it carries
  newest, current,    \* the newest version's number and the one the contract stands on
  source,             \* what the signed version can be sealed from
  sealed,             \* the sealed copy's version number, 0 when there is none
  seal, attempts,     \* the seal job and its failed attempts
  faults, reminders, crashes

Envelope_ == <<sequential, request, log, answer, asked, due, executions>>
Sealing   == <<newest, current, source, sealed, seal, attempts>>
Counts    == <<faults, reminders, crashes>>
vars == <<Envelope_, pc, job, Sealing, Counts>>

(* The version that was sent: the contract stood on it then, and when an     *)
(* edit had been undone it is not the newest.                                *)
Sent == 1

NoJob == [who |-> None, next |-> {}]
PCs == {"idle", "sign", "reread", "complete", "execute", "queue", "notify", "decline", "void",
        "expire", "remind"}
SealPCs == {"none", "waiting", "look", "render", "stamp", "create", "point", "repoint", "forward",
            "done", "skipped", "failed"}

Goto(h, where) == pc' = [pc EXCEPT ![h] = where]
Keep(h, j) == job' = [job EXCEPT ![h] = j]
Rest(h) == Goto(h, "idle") /\ Keep(h, NoJob)
-----------------------------------------------------------------------------
(* waitingForEarlier: in a sequential request somebody of an earlier group   *)
(* has not signed.                                                           *)
WaitingForEarlier(s) ==
  sequential /\ \E t \in Signers : Group[t] < Group[s] /\ answer[t] # "SIGNED"

Unanswered == {s \in Signers : answer[s] = "PENDING"}
AllSigned == \A s \in Signers : answer[s] = "SIGNED"

(* The group whose turn it is among those who have not answered. *)
Turn ==
  IF sequential THEN {s \in Unanswered : \A t \in Unanswered : Group[s] <= Group[t]} ELSE Unanswered

(* nextSignersToNotify: the next group, once the signer's own has finished;  *)
(* nobody of a request that is closed.  The slip: the group with the next    *)
(* number, though numbers may leave a gap.                                   *)
NextByNumber(s) ==
  IF request = "PENDING" THEN {t \in Unanswered : Group[t] = Group[s] + 1} ELSE {}
NextToNotify(s) ==
  IF request = "PENDING" /\ \A t \in Turn : Group[t] > Group[s] THEN Turn ELSE {}

Init ==
  /\ sequential \in BOOLEAN
  /\ request = "PENDING" /\ log = {} /\ answer = [s \in Signers |-> "PENDING"]
  /\ asked = Turn
  /\ due = FALSE /\ executions = 0
  /\ pc = [h \in Handlers |-> "idle"] /\ job = [h \in Handlers |-> NoJob]
  /\ newest \in Sent..MaxVersions /\ current = Sent
  /\ source \in {"pdf", "html", "none"}
  /\ sealed = 0 /\ seal = "none" /\ attempts = 0
  /\ faults = 0 /\ reminders = 0 /\ crashes = 0
-----------------------------------------------------------------------------
(* expiresAt passes; whoever looks marks the request, only from PENDING.     *)
ComesDue ==
  /\ ~due /\ due' = TRUE
  /\ UNCHANGED <<sequential, request, log, answer, asked, executions, pc, job, Sealing, Counts>>

Expire ==
  /\ due /\ request = "PENDING" /\ request' = "EXPIRED"
  /\ UNCHANGED <<sequential, log, answer, asked, due, executions, pc, job, Sealing, Counts>>

(* A signer opens the link: the request is open, not past its date, and it   *)
(* is the signer's turn.  What is written next looks at PENDING again.       *)
MayAnswer(s) == request = "PENDING" /\ answer[s] = "PENDING" /\ ~due /\ ~WaitingForEarlier(s)

Begin(h) ==
  /\ pc[h] = "idle"
  /\ \E s \in Signers :
       /\ MayAnswer(s)
       /\ \E where \in {"sign", "decline"} : Goto(h, where)
       /\ Keep(h, [NoJob EXCEPT !.who = s])
  /\ UNCHANGED <<Envelope_, Sealing, Counts>>

(* The slip: only the signer is looked at. *)
SignsAnyway(s) == answer[s] = "PENDING"
StillOpen(s) == answer[s] = "PENDING" /\ request = "PENDING"

Sign(h) ==
  LET s == job[h].who
  IN /\ pc[h] = "sign"
     /\ IF StillOpen(s)
          THEN answer' = [answer EXCEPT ![s] = "SIGNED"] /\ Goto(h, "reread") /\ UNCHANGED job
          ELSE Rest(h) /\ UNCHANGED answer
     /\ UNCHANGED <<sequential, request, log, asked, due, executions, Sealing, Counts>>

(* The request is read again: the last signature completes it, another one   *)
(* may give the next group its turn.                                         *)
Reread(h) ==
  LET next == IF sequential THEN NextToNotify(job[h].who) ELSE {}
  IN /\ pc[h] = "reread"
     /\ \/ AllSigned /\ Goto(h, "complete") /\ UNCHANGED job
        \/ ~AllSigned /\ next # {} /\ Goto(h, "notify") /\ Keep(h, [job[h] EXCEPT !.next = next])
        \/ ~AllSigned /\ next = {} /\ Rest(h)
     /\ UNCHANGED <<Envelope_, Sealing, Counts>>

Notify(h) ==
  /\ pc[h] = "notify"
  /\ asked' = asked \union job[h].next
  /\ Rest(h)
  /\ UNCHANGED <<sequential, request, log, answer, due, executions, Sealing, Counts>>

(* The slip: only before its date. *)
CompleteInTime(h) ==
  /\ pc[h] = "complete"
  /\ IF request = "PENDING" /\ ~due
       THEN request' = "COMPLETED" /\ log' = log \union {"COMPLETED"} /\ Goto(h, "execute") /\ UNCHANGED job
       ELSE Rest(h) /\ UNCHANGED <<request, log>>
  /\ UNCHANGED <<sequential, answer, asked, due, executions, Sealing, Counts>>

(* Completed only from PENDING, with its event in one transaction. *)
Complete(h) ==
  /\ pc[h] = "complete"
  /\ IF request = "PENDING"
       THEN request' = "COMPLETED" /\ log' = log \union {"COMPLETED"} /\ Goto(h, "execute") /\ UNCHANGED job
       ELSE Rest(h) /\ UNCHANGED <<request, log>>
  /\ UNCHANGED <<sequential, answer, asked, due, executions, Sealing, Counts>>

(* The contract goes into force, and the events that say so are sent. *)
Execute(h) ==
  /\ pc[h] = "execute"
  /\ executions' = executions + 1
  /\ Goto(h, "queue")
  /\ UNCHANGED <<sequential, request, log, answer, asked, due, job, Sealing, Counts>>

(* The seal is queued under its own id; a queue that does not answer is only *)
(* logged.                                                                   *)
Fault == faults < MaxFaults /\ faults' = faults + 1
Queue(h) ==
  /\ pc[h] = "queue"
  /\ \/ seal' = (IF seal = "none" THEN "waiting" ELSE seal) /\ UNCHANGED faults
     \/ Fault /\ UNCHANGED seal
  /\ Rest(h)
  /\ UNCHANGED <<Envelope_, newest, current, source, sealed, attempts, reminders, crashes>>

(* A decline: the request and the signer, both from PENDING or neither. *)
Decline(h) ==
  LET s == job[h].who
  IN /\ pc[h] = "decline"
     /\ IF StillOpen(s)
          THEN /\ answer' = [answer EXCEPT ![s] = "DECLINED"]
               /\ request' = "VOIDED" /\ log' = log \union {"DECLINED"}
          ELSE UNCHANGED <<answer, request, log>>
     /\ Rest(h)
     /\ UNCHANGED <<sequential, asked, due, executions, Sealing, Counts>>

(* The sender voids it. *)
BeginVoid(h) ==
  /\ pc[h] = "idle" /\ request = "PENDING"
  /\ Goto(h, "void")
  /\ UNCHANGED <<Envelope_, job, Sealing, Counts>>

Void(h) ==
  /\ pc[h] = "void"
  /\ IF request = "PENDING" THEN request' = "VOIDED" /\ log' = log \union {"VOIDED"}
                            ELSE UNCHANGED <<request, log>>
  /\ Rest(h)
  /\ UNCHANGED <<sequential, answer, asked, due, executions, Sealing, Counts>>

(* The reminder reads the request: past its date it marks it expired, by a   *)
(* plain update; else it reminds those whose turn it is.  (The event that    *)
(* says autoExpired is left out of the log.)                                 *)
BeginRemind(h) ==
  /\ pc[h] = "idle" /\ request = "PENDING" /\ reminders < MaxReminders
  /\ reminders' = reminders + 1
  /\ \/ due /\ Goto(h, "expire") /\ UNCHANGED job
     \/ ~due /\ Turn # {} /\ Goto(h, "remind") /\ Keep(h, [NoJob EXCEPT !.next = Turn])
  /\ UNCHANGED <<Envelope_, Sealing, faults, crashes>>

RemindExpires(h) ==
  /\ pc[h] = "expire"
  /\ request' = "EXPIRED"
  /\ Rest(h)
  /\ UNCHANGED <<sequential, log, answer, asked, due, executions, Sealing, Counts>>

Remind(h) ==
  /\ pc[h] = "remind"
  /\ asked' = asked \union job[h].next
  /\ Rest(h)
  /\ UNCHANGED <<sequential, request, log, answer, due, executions, Sealing, Counts>>
-----------------------------------------------------------------------------
(* A version arrives, ours or the counterparty's, at any time: nothing there *)
(* asks whether the contract is out for signature or in force.               *)
Edit ==
  /\ newest < MaxVersions
  /\ newest' = newest + 1 /\ current' = newest'
  /\ UNCHANGED <<Envelope_, pc, job, source, sealed, seal, attempts, Counts>>

SealGoto(where) == seal' = where
SealOnly == UNCHANGED <<Envelope_, pc, job, reminders, crashes>>

SealStart ==
  /\ seal = "waiting" /\ SealGoto("look")
  /\ UNCHANGED <<newest, current, source, sealed, attempts, faults>> /\ SealOnly

(* An attempt that throws is tried again while there are attempts left.  The *)
(* slips: tried once, as it was before it was a job; and tried for ever.     *)
ThrowsForever == SealGoto("waiting") /\ attempts' = attempts + 1
ThrowsOnce == SealGoto("failed") /\ attempts' = attempts + 1
Throws == SealGoto(IF attempts + 1 < MaxAttempts THEN "waiting" ELSE "failed") /\ attempts' = attempts + 1

(* The slip: what is sealed already needs nothing more. *)
AlreadySealed == "done"
AfterSealed == "repoint"

(* It reads the request, the sealed copy of an earlier attempt and the       *)
(* version that was signed.  Only a completed request is sealed.             *)
SealLook ==
  /\ seal = "look"
  /\ \/ request # "COMPLETED" /\ SealGoto("skipped")
     \/ request = "COMPLETED" /\ sealed # 0 /\ SealGoto(AfterSealed)
     \/ /\ request = "COMPLETED" /\ sealed = 0
        /\ SealGoto(CASE source = "none" -> "skipped" [] source = "html" -> "render" [] OTHER -> "stamp")
  /\ UNCHANGED <<newest, current, source, sealed, attempts, faults>> /\ SealOnly

(* An HTML version is rendered first, and keeps the rendered file. *)
SealRender ==
  /\ seal = "render"
  /\ \/ source' = "pdf" /\ SealGoto("stamp") /\ UNCHANGED <<attempts, faults>>
     \/ Fault /\ Throws /\ UNCHANGED source
  /\ UNCHANGED <<newest, current, sealed>> /\ SealOnly

(* The signed PDF is made and stored under the request's own key. *)
SealStamp ==
  /\ seal = "stamp"
  /\ \/ SealGoto("create") /\ UNCHANGED <<attempts, faults>>
     \/ Fault /\ Throws
  /\ UNCHANGED <<newest, current, source, sealed>> /\ SealOnly

(* It becomes the version after the one that was signed; the number is       *)
(* unique, so when another version has it the attempt throws.                *)
SealCreate ==
  /\ seal = "create"
  /\ IF newest = Sent
       THEN sealed' = Sent + 1 /\ newest' = Sent + 1 /\ SealGoto("point") /\ UNCHANGED attempts
       ELSE Throws /\ UNCHANGED <<newest, sealed>>
  /\ UNCHANGED <<current, source, faults>> /\ SealOnly

(* The contract is pointed at it, whatever it stands on by then. *)
SealPoint ==
  /\ seal = "point"
  /\ \/ current' = sealed /\ SealGoto("done") /\ UNCHANGED <<attempts, faults>>
     \/ Fault /\ Throws /\ UNCHANGED current
  /\ UNCHANGED <<newest, source, sealed>> /\ SealOnly

(* A retry that finds it made reads where the contract stands, and moves it  *)
(* forward only.                                                             *)
SealRepoint ==
  /\ seal = "repoint"
  /\ SealGoto(IF current < sealed THEN "forward" ELSE "done")
  /\ UNCHANGED <<newest, current, source, sealed, attempts, faults>> /\ SealOnly

SealForward ==
  /\ seal = "forward"
  /\ current' = sealed /\ SealGoto("done")
  /\ UNCHANGED <<newest, source, sealed, attempts, faults>> /\ SealOnly

SealWork ==
  SealStart \/ SealLook \/ SealRender \/ SealStamp \/ SealCreate \/ SealPoint \/ SealRepoint \/ SealForward

(* A process dies: what a handler did stays; the queue gives the seal job to *)
(* another worker.                                                           *)
Crash(h) ==
  /\ pc[h] # "idle" /\ crashes < MaxCrashes
  /\ crashes' = crashes + 1 /\ Rest(h)
  /\ UNCHANGED <<Envelope_, Sealing, faults, reminders>>

Running == SealPCs \ {"none", "waiting", "done", "skipped", "failed"}
SealCrash ==
  /\ seal \in Running /\ crashes < MaxCrashes
  /\ crashes' = crashes + 1 /\ seal' = "waiting"
  /\ UNCHANGED <<Envelope_, pc, job, newest, current, source, sealed, attempts, faults, reminders>>

Step(h) ==
  \/ Begin(h) \/ Sign(h) \/ Reread(h) \/ Notify(h) \/ Complete(h) \/ Execute(h) \/ Queue(h)
  \/ Decline(h) \/ BeginVoid(h) \/ Void(h)
  \/ BeginRemind(h) \/ RemindExpires(h) \/ Remind(h) \/ Crash(h)

Next ==
  \/ \E h \in Handlers : Step(h)
  \/ ComesDue \/ Expire \/ Edit \/ SealWork \/ SealCrash

Spec == Init /\ [][Next]_vars

(* The signing worker takes a waiting job and goes on with it. *)
FairSpec == Spec /\ WF_vars(SealWork)
-----------------------------------------------------------------------------
TypeOK ==
  /\ sequential \in BOOLEAN /\ due \in BOOLEAN
  /\ request \in {"PENDING", "COMPLETED", "VOIDED", "EXPIRED"}
  /\ log \in SUBSET {"COMPLETED", "DECLINED", "VOIDED"}
  /\ answer \in [Signers -> {"PENDING", "SIGNED", "DECLINED"}]
  /\ asked \in SUBSET Signers
  /\ executions \in {0, 1}
  /\ pc \in [Handlers -> PCs]
  /\ job \in [Handlers -> [who : Signers \union {None}, next : SUBSET Signers]]
  /\ newest \in Nat /\ current \in Sent..newest /\ sealed \in {0, Sent + 1} /\ sealed <= newest
  /\ source \in {"pdf", "html", "none"}
  /\ seal \in SealPCs /\ attempts \in 0..MaxAttempts
  /\ faults \in Nat /\ reminders \in Nat /\ crashes \in Nat

(* However signers, sender, reminders and the seal job interleave, the       *)
(* request has one outcome as its events record it, reached in the signers'  *)
(* turns; it is executed once, when it was completed, and sealed after.      *)
(* (Its status may say otherwise: the reminder writes EXPIRED blindly.)      *)
Outcome ==
  CASE "COMPLETED" \in log -> "COMPLETED"
    [] "COMPLETED" \notin log /\ log # {} -> "VOIDED"
    [] log = {} /\ request = "EXPIRED" -> "EXPIRED"
    [] OTHER -> "PENDING"

Promised == INSTANCE Envelope WITH outcome <- Outcome, sealed <- (sealed # 0)
EnvelopeImplemented == Promised!Spec

(* Nothing is under way, and nothing was cut short.                          *)
AtRest == crashes = 0 /\ \A h \in Handlers : pc[h] = "idle"

(* Signers whose turn it is have their link, also when the last of the group *)
(* before signed at the same time (signing-order.ts).                        *)
TurnIsAsked == AtRest /\ request = "PENDING" => Turn \subseteq asked

(* Last signatures at the same time: one of them completes the request; it   *)
(* is not left open with nobody who could sign it.                           *)
AllSignedSettles == AtRest /\ AllSigned => request # "PENDING"

(* A sealed copy that was made is the one the contract shows, though its     *)
(* maker died before pointing the contract at it (seal-contract.ts).         *)
SealedIsShown == seal = "done" /\ newest = sealed => current = sealed

(* A queued seal is made, whatever fails less often than it is tried, and    *)
(* whoever dies, unless a later version has the number it takes.             *)
SealedAtLast ==
  (seal = "waiting" /\ request = "COMPLETED" /\ newest = Sent /\ source # "none")
    ~> (sealed # 0 \/ newest # Sent \/ request # "COMPLETED")
=============================================================================
