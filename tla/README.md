# A verification of draftLegal's contract lifecycle

draftLegal (`src/`) is a contract lifecycle management system: an API
(`apps/api`, Fastify, Prisma on Postgres, BullMQ on Redis), a web application,
a Python service around language models, and a shared package of types and
rules. This directory holds TLA+ models of the parts of the API whose state
several requests, jobs and people change at once: where a contract stands (its
stage and state), who has to approve it, how it is signed and sealed, who states
its field values, how its document is analysed, and how a question is asked of
a room of documents; TLC runs that check them on
small instances; and TLAPS proofs for every value of the constants.

Paths below are relative to `src/`; `lib/` and `routes/` are those of
`apps/api/src/`.

## 1. Inventory

### What the system is made of

| Component | State it keeps | Operations | Talks to |
|---|---|---|---|
| **Stage machine** `packages/types/src/lifecycle.ts`, `lib/lifecycle.ts`, `lib/contract-status.ts`, `lib/status-change.ts` | `contracts.stage`, `stageState`, `turn`, `status`, `executedAt`; the latest `STAGE_CHANGED` event | `transition` (read, check, compare-and-set, record), the moves by hand | called by every flow below |
| **Stage callers** `routes/contract-lifecycle.ts`, `routes/contracts.ts`, `routes/internal-ai.ts`, `lib/lifecycle-dates.ts`, `routes/requests.ts`, `lib/renewal-decisions.ts` | none of their own; the assistant's undo snapshot | move by hand, cancel, uncancel, `set_status` and its undo, the date job, accept, renew | stage machine |
| **Approval engine** `lib/workflow-engine.ts`, `lib/approval-escalation.ts` | `ApprovalInstance`, `ApprovalStep`, the escalation jobs | create steps, evaluate a batch, next order, close a round, escalate | queue, stage machine |
| **Submitting and deciding** `lib/approval-flow.ts`, `routes/approvals.ts` | the same rows | submit, decide, delegate, claim from a pool | engine, stage machine |
| **Approvals after a change** `lib/approval-reset.ts`, `lib/version-create.ts`, `routes/portal.ts`, `routes/inbound-email.ts` | `contracts.currentVersionId`, `ApprovalInstance.versionId` | a version of ours, a version of theirs; reset, carry, withdraw | approvals, signatures, stage machine |
| **Signature requests** `routes/signatures.ts`, `lib/signing-order.ts`, `workers/notification.worker.ts` | `SignatureRequest`, its signers, its events | gate, send, sign, decline, void, expire, remind, take back | approvals, stage machine, seal queue |
| **Seal worker** `lib/seal-contract.ts`, `workers/signing.worker.ts` | the sealed PDF and its version | seal, retry, resume | signatures, versions |
| **Field store** `lib/field-store.ts`, `lib/field-runs.ts`, `lib/amendments.ts` | `ContractFieldValue` rows with who stated them, offers beside them, `FieldValueRun` | set, verify, read by an analysis, propose, accept or reject, roll up an amendment, renew, undo | analyses, renewals, the assistant |
| **Analysis** `workers/parse.worker.ts`, `workers/agent.worker.ts`, `lib/extraction-job.ts`, `lib/analysis-trigger.ts`, `lib/version-refresh.ts`, `lib/clause-carry.ts` | `analysisStatus`, the version stamped as analysed, texts, clauses | parse, classify, extract, index; checkpoint after an edit; cancel, ask again | queues, field store |
| **Recovery** `lib/stuck-contracts.ts` | what a sweep has seen | list the queues, fail what nothing works on | analysis |
| **Diligence rooms** `lib/diligence-columns.ts`, `routes/diligence.ts` | the columns of a room with the run of each, `DiligenceCell` rows | add, ask again, reword a question; answer, confirm; ask a document read later | queues, analysis |
| Working copy, external edit `lib/working-copy.ts`, `lib/external-edit.ts` | draft changes and their revision; the lock while a copy is out | autosave, cut a version, idle checkpoint, hand out, publish | versions, queue |
| Audit chain `lib/audit.ts` | `AuditEvent` rows linked by hash | append with serializable retries | everything |
| Queues and webhooks `lib/queue.ts`, `lib/webhook-events.ts`, `workers/webhook.worker.ts` | jobs, `WebhookDelivery` | enqueue, deliver, retry | everything |
| Renewals, obligations `lib/renewal-*.ts`, `lib/obligation-*.ts` | terms, decisions, dates | compute, remind, decide | stage machine |
| One-table routes (clauses, templates, playbooks, matters, ...) | one table each | create, read, update, delete | database |
| Tenancy, permissions | none | guards within a request | every route |
| Web, marketing, agents, integrations, deployment | none that matters here | user interface, language models, connectors | the API |

### How they interact

`transition` is the one function that moves a contract. Every flow first
changes its own rows (a decision, an envelope, a version) and then asks
`transition` for the move, with `onlyFrom` saying from where the move still
makes sense. Nothing locks the contract across the two: each handler is a chain
of awaited database calls, and the handlers of other requests, of jobs and of
webhooks run between any two of them. `transition` itself is a read, a check
against the table, and an update whose `WHERE` repeats what was read.

Four more pieces of shared state follow their own protocols. A **signature
request** and its signers are rows that signers, the sender, a reminder job and
every reader that notices the expiry write; its completion queues the seal, a
job that makes a new version. **Field values** have one writer,
`lib/field-store.ts`, whose every function is a transaction under the
contract's row lock; but its callers read before they call it. An **analysis**
is a chain of queued jobs that hand `analysisStatus` on from one to the next,
while uploads, edits, retries and cancellations start or stop chains of their
own; a job or a request may be lost, and a sweep fails what nobody works on. A
**question column** of a diligence room is asked of every document by a job that
keeps its cursor on the column, while documents that are read later bring jobs of
their own and people answer, ask again and reword; a job knows that it was
overtaken by the token its saves name.

### What is hard, and what makes it correct

| Part | Hard because | Correct when |
|---|---|---|
| stage machine | the check is on a read, the caller's own check on an earlier one | every move that lands is allowed from where the contract is then; signed contracts do not reopen; declined ones are not signed; a late decision moves nothing |
| uncancel | it reads the latest event, recorded after the write it records | it never resumes a flow that was stopped |
| approval engine | parallel deciders, each reading the batch and acting on what it read; escalation jobs; crashes between writes | decisions are not overwritten; orders pass in turn; a round closes once, for a reason somebody gave, and it does close |
| changes and approvals | an approval is of a version, and versions come at any time from both sides | an approved contract has an approval of the version it has; a waiting contract has somebody to ask |
| signatures | the last signature, a decline, a void and the expiry race; the reminder writes without looking; several envelopes | an envelope is settled once, but for that reminder; only one that was completed puts the contract in force; one that was completed does |
| cancelling | open requests and envelopes | nobody is left deciding or signing a cancelled contract |
| signers | those of one group sign at the same time, each reading whether it was the last; the reminder writes without looking | one outcome, reached in turn; who is next has the link; a request everybody signed does not stay open |
| seal | tried again, by a worker that may have died after any write | sealed once, and shown; made at last |
| field store | people, readings, roll-ups, renewals and undos write the same rows, some from old reads | what a person stated is changed by a person only; a date worked out agrees with its inputs; undoing a run gives back what was there |
| analysis | chains of jobs cross each other and the checkpoint; jobs throw, are tried again, or are lost | the page says what is so: in progress only while a job is, done only when read; no edit forgotten; in progress ends |
| diligence column | runs are paused, fail, are tried again, carried on and overtaken, while the answers they asked for come back | a run that is done left no document out that was read when it began and stayed read; one under way has a job; a person's answer stands |

`PROJECT.json` lists every hazard at its line, with the property that covers it
or the reason none does.

## 2. The modules

| Module | What it is | Code |
|---|---|---|
| `StageRules` | the points, the transition table and its special cases, the rules by hand; no state | `packages/types/src/lifecycle.ts`, `lib/contract-status.ts` |
| `ContractStages` | abstract: a contract moves in single steps the table allows | what `lib/lifecycle.ts` promises in its header |
| `Lifecycle` | detailed: callers of `transition` interleaved at every read and write | `lib/lifecycle.ts` and all its callers |
| `Lifecycle_proofs` | the theorems about `Lifecycle` | |
| `ApprovalRound` | abstract: one round: orders passed in turn, closed once and for a reason | the header of `lib/workflow-engine.ts` |
| `Approvals` | detailed: one request for approval, its steps, handlers, timers, crashes | `lib/approval-flow.ts`, `lib/workflow-engine.ts`, `lib/approval-escalation.ts` |
| `ContractFlow` | the composition: a contract, its versions, requests and envelopes | `lib/approval-flow.ts`, `lib/approval-reset.ts`, `routes/signatures.ts`, `routes/contract-lifecycle.ts` |
| `Envelope` | abstract: answers in turn, one outcome, executed once, sealed after | what `routes/signatures.ts` promises |
| `Signing` | detailed: one signature request, its signers, reminder, expiry, crashes, and its seal job | `routes/signatures.ts`, `lib/signing-order.ts`, `lib/seal-contract.ts`, `workers/signing.worker.ts`, `workers/notification.worker.ts` |
| `FieldOwners` | abstract: whose each value is, and who may change it | the header of `lib/field-store.ts` |
| `Fields` | detailed: the rows, the offers, the runs and every writer | `lib/field-store.ts`, `lib/field-runs.ts` and their callers |
| `Analysis` | the jobs that read a contract's versions, the checkpoint and the sweep | `workers/parse.worker.ts`, `workers/agent.worker.ts`, `lib/extraction-job.ts`, `lib/analysis-trigger.ts`, `lib/stuck-contracts.ts`, `routes/contracts.ts` |
| `DiligenceColumn` | a question column: its runs, their jobs, the cells, people | `lib/diligence-columns.ts`, `routes/diligence.ts`, `lib/queue.ts` |
| `Approvals_proofs`, `ContractFlow_proofs`, `Signing_proofs`, `Fields_proofs`, `Analysis_proofs`, `DiligenceColumn_proofs` | the theorems about them | |
| `MCLifecycle`, `MCApprovals`, `MCContractFlow`, `MCSigning`, `MCFields`, `MCAnalysis`, `MCDiligenceColumn` | constants, symmetry and views for TLC | |

`Lifecycle` and `ContractFlow` extend `StageRules`. `Lifecycle` instantiates
`ContractStages`, `Approvals` instantiates `ApprovalRound`, `Signing`
instantiates `Envelope`, `Fields` instantiates `FieldOwners`. `ContractFlow` takes
from `Lifecycle` that a transition is one step (which is what the refinement
shows), from `Approvals` that a round is decided in one step, and from `Signing`
that an envelope is completed by one step when all have signed.

### StageRules

A *point* is a stage and one of its states. `Permitted(from, to, source,
reason, isAdmin)` is `transitionRefusal(...) === null`: its disjuncts are the
early returns of the function in their order, `Via` is the table
`TRANSITIONS`. `ManualPermitted` is `manualRefusal(...) === null`. Refusals are
Booleans here; their wording is left out.

### Lifecycle

`row` is the contract's stage and state, `by` the source of the move that put
it there, `cancelledAt` the latest `STAGE_CHANGED` event as far as
`workingStageBefore`'s and uncancel's queries can tell. A caller is one request
or job, and goes

    idle -> asked -> write -> record -> (clear | offer) -> idle

`asked` is after the caller's own read, when it has one (a move by hand, the
assistant, the date job, submitting, sending); `Read` is `transition`'s SELECT
and check; `Write` its compare-and-set; `Record` the event. A call whose first
look at the contract is `transition`'s starts at `Read`: those are the sets
`CounterpartyCalls`, `DecisionCalls`, `EditCalls`, ... one per flow. `Undo` and
`Clear` are the assistant's undo and the separate write that clears
`executedAt`. `Uncancel` reads the point and `Restore` the event, two steps.

What a caller needs from other tables (a decided approval, an open envelope, a
date) may hold at any time here, so `Lifecycle` has more behaviours than the
program: what it shows, it shows whatever those tables hold.

### Approvals

`def` is the definition, a sequence of steps with a mode, a number of required
approvals, approvers and somebody to escalate to. `steps` are the rows in the
order they were created, `timers` the steps with an escalation job that hands
them over. A handler's `pc` is between two awaits of `decideStep`,
`advanceWorkflow`, `closeRound`, `createStepsForDef` or `handleEscalate`; its
`plan` is what `advanceWorkflow` decided from the rows it read. `Crash` ends a
handler anywhere; the queue retries an escalation, nothing retries a request.

Left out: what a change of the document does to a request. It cancels an open
one or resets it, and an approved one is opened again with its steps asked anew
(`lib/approval-reset.ts:288-295`); that is `ContractFlow`'s `Reset`. What
`Approvals`, `ApprovalRound` and their theorems say of a request they say of one
round, from its submission or reset to the next reset.

### ContractFlow

`requests` and `envelopes` are sequences of rows with a status and the version
they are of, `version` is the newest, `workedIn` is what `workingStageBefore`
finds. Each action is one write or one read that is decided from. `reminding`
are the envelopes a reminder has read open and past their date (`Remind`) and not
marked yet: `RemindExpires` is its plain update, over whatever was answered in
between, while `Expire` is the conditional one of a link that is opened too late
(`signatures.ts:149-153`). `approved` and `signed` are history variables: the
versions an approval was given for, or carried to; and the envelopes that were
completed, which may read `EXPIRED` since.

Left out of `ContractFlow`: clause exceptions; changes to fields; resets of
some of a request's steps; `settings.allowSignWithoutApproval`; uncancel and
moves by hand (in `Lifecycle`); the signers of an envelope (one step). A new
version's row and the contract's `currentVersionId` are one step.

### Signing

A handler's `pc` is between two awaits of `/sign/:token` (mark the signer,
read the others again, complete, put in force, queue the seal or tell the next
group), of declining, of voiding, or of the reminder. `answer` and `request` are
`Signer.status` and `SignatureRequest.status`; `log` holds the outcomes among
its `SignatureEvent` rows. `seal` is the seal job and where its run is; what an
earlier attempt left is found in `sealed` and `current`, as `sealContract` finds
it in the versions table. The version sent has the number 1.

The outcome that `Envelope` speaks of is taken from the events and not from the
status, because the reminder writes `EXPIRED` by a plain update after its read
(`workers/notification.worker.ts:51-55`) and so may overwrite `COMPLETED`: then
the request's status contradicts its events, and the seal job skips. (The event
the reminder adds is of kind `VOIDED` with `autoExpired`, and left out of `log`.) The first
seal attempt points the contract at the sealed copy whatever it stands on by
then (`lib/seal-contract.ts:180-183`); only a resumed one looks whether that is
forward, which its comment (59-60) claims of both. `SealedIsShown` is about the
case both agree on.

Left out: one-time codes, the placement of signatures, the certificate's
content, wording of emails.

### Fields

Every write is one action, since it is one transaction under the row lock that
reads the rows afresh and ends in `commit`, which works the end date out. What
callers read before are actions of their own: the assistant's "what it was"
(`AskRead`), the date that fell due (`RenewalRead`), a run claimed for undoing
before it is undone. `row` is `ContractFieldValue`: value, source, whether
somebody checked it, the offer beside it, and who or which amendment it is from;
`runs` are the bulk writes that can be undone. `act` records who wrote last and
what they meant to write, for the refinement of `FieldOwners`.

Left out: quotes and confidence (what they decide is a choice); parties and
lists; `rejectedAt`, which is never set without `verifiedAt`.

The model shows behaviour of the code that no document forbids and that the
properties therefore allow: an end date a person rejected or blanked is worked
out again at the next commit; `undoPersonValue` and `restoreAmendmentValues` put
values back without the rejection that was there; undo compares values, so one
that went away and came back counts as untouched; a late reading of an older
version writes over newer machine values; a renewal writes over a correction made
after its read.

### Analysis

`jobs` are the rows of the two queues for one contract, each with its kind, its
version, its step and its tries; `calls` are requests between two of their
writes; `sweep` is what `recoverStuckContracts` has seen. `text[v]` is the first
version with the words of `v`, 0 while it is unread, so that "the same words"
(`lib/analysis-trigger.ts:179`) is equality; `clauses` are the versions that
have some. `Short` are the versions whose words are too few to have clauses (`finishAnalysis`). `late`
is a history variable: the version stamped had been replaced when it was
stamped. Time is a choice: a contract in progress may be old enough for the
sweep at any time.

Left out: what the models are asked, splitting a binder, exhibits read again,
a changed document type, `analysis_runs` rows, reviews that follow, drafts
made from templates (`DRAFTING`). An upload's two writes are one step, and so
are the writes of clauses and of the request to index.

### DiligenceColumn

`run` is the column's `ColumnRun`, with three things the code does not keep: the
documents gone through (the code keeps their number), those that were read when
the run began, and the wording it began with. `stage` is how far the analysis of
each document is, and goes back when a person has it analysed again
(`Reanalyse`); `reads` is a history variable that counts these, so that a run's
`due` names readings, and `Due(run)` the documents that were read when it began
and are still read as they were then. `cells` are the `DiligenceCell`
rows; what an answer `says` is the wording it was asked in. A job of
`answerColumn` goes

    waiting -> turn -> asking -> (create | failing -> createError) -> saved -> turn ...

where `Take` is its look at the column and the first save, `ReadPage` the page
and what of it is asked, `Write` each update and creation of `saveAnswer` and
`saveFailure`, `Move` the cursor, and `Pause`, `Throw` and `Die` the three ways
out before the end. Its saves name its token, and land only while that is the
column's. `late` are the jobs of `answerDocument`, one id a document; `reqs` are
requests between their read and their write: to ask again (`Read`, `Run`), and to
reword (`Delete`, `Reword`). Whether a run was heard from in the last ten minutes
is a choice, so a second run may start at any time.

The model shows four things of the code that the properties leave room for, and
that nothing in it prevents:

- a document analysed again while a run goes on (`routes/contracts.ts:1528-1549`,
  which does not look at the room) is passed over by the run's pages
  (`lib/diligence-columns.ts:278`), and the run is `DONE` without it; when it has
  been read, only the job of its own asks it. `DoneIsAsked` counts what a run owes
  by readings;

- a request that read a failed run, and carries it on after the question was
  reworded, puts its old cursor over the new run (`routes/diligence.ts:549-554`):
  what is behind it is not asked the new question. `DoneIsAsked` is about runs of
  the present wording;
- an answer to the old question that was being fetched is written after the
  reword, and over the new answer if that came first: `saveAnswer` does not look
  at the token (`lib/diligence-columns.ts:232-243`);
- a document whose analysis ends while the job that asks it is there already, or
  was given up, is not asked by another (`lib/queue.ts:471`), and a run that went
  past it does not come back: it stays "not asked yet" until somebody asks again.
  `DoneIsAsked` is about documents that were read when the run began, and those
  the run went through.

Left out: columns that show a field (what they fill in is the fill of blanks in
`Fields`), removing a column, new versions of a document, counts, quotes; and a
worker that was taken for dead and still writes beside the one in its place.

## 3. The runs

| Run | Instance | States | What it shows |
|---|---|---|---|
| `lifecycle` | 2 callers, 4 calls, 3 starting points | 663,409 | type; `Lifecycle` implements `ContractStages`; `SignedStays`, `DeclinedIsBarred`, `ClosedStays`, `LateDecision`, `RestoredAtRest` |
| `approvals` | 2 handlers, 2 people, 2 definitions, 1 reassignment, 1 crash | 471,902 | type; `DecisionStands`; `Approvals` implements `ApprovalRound`; `RoundCloses` under fairness |
| `flow` | 2 handlers, 2 versions, 1 request, 2 envelopes, 1 crash, rules may approve | 4,547,346 | type; `SettledOnce`; `ActiveIsSigned` |
| `flow_calls` | 1 handler, 3 versions, 3 requests, 2 envelopes, reminders beside it | 811,648 | `PendingIsAsked`, `ApprovedStands`, `CancelledIsQuiet`, `OutHasAnEnvelope`, `SignedIsActive` |
| `signing` | 2 handlers, 3 signers in groups 1, 1 and 3, 3 versions, 2 attempts, 1 fault, 1 reminder, 1 crash | 505,204 | type; `TurnIsAsked`, `AllSignedSettles`, `SealedIsShown`; `Signing` implements `Envelope`; `SealedAtLast` under fairness |
| `fields` | 1 input and the end date, 2 values, 1 amendment, 2 people, 1 kept write of each kind, 3 writes | 712,862 | type; `DatesAgree`, `OffersDiffer`; `RunGivesBack`; `Fields` implements `FieldOwners` (`OwnersKept`) |
| `analysis` | 2 versions, 1 of them short, 4 job ids, 2 acts of people, 1 fault | 2,024,370 | type; `InProgressIsQueued`, `StampIsRead`, `EditNotForgotten`; `InProgressEnds` and `QuietAtLast` under fairness |
| `diligence` | 2 documents, 1 read later, pages of 2, 3 runs, 2 wordings, 2 attempts, 2 requests, 2 acts, 2 faults | 2,673,956 | type; `DoneIsAsked`, `RunIsWorked`; `PersonStands` |
| `lifecycle_manual` | as `lifecycle` | | violated: `WaitingIsNotMovedByHand` |
| `approvals_enough` | as `approvals`, one definition, no crash | | violated: `EnoughApproved` |
| `flow_asked` | as `flow_calls` | | violated: `AskedIsPending` |
| `flow_unapproved` | as `flow_calls`, rules may approve | | violated: `SentAsApproved` |

**Bounds.** A race needs two: one handler that read, and another that wrote
since. Four calls are enough for an approval, a cancellation and a restoration
with a stale caller among them. The two definitions between them have a
parallel step that needs all, one that asks more than it has, one that any
approver settles, a pool, an escalation, and a second order. Three versions and
three requests let a request be reset, decided and passed over by a later one;
two envelopes let one be stopped while the other is signed. Two signers of one
group sign at the same time, and the third, in a group whose number leaves a
gap, is who must be told; three versions let a later one take the sealed copy's
number before or after it; two attempts with one fault and one crash let a seal
die after any of its writes and be resumed. Three writes let a person write
between what another read and what it does with it, or after a run and before
its undo. Two acts of people over two versions let an edit or an upload cross a
running chain, one fault is a throw, a lost job or an unreadable queue; the
fields' two values are enough to differ and to come back. Two documents in one
page, the first of them read later, let a run read ahead and be passed by a
document behind its cursor; three runs let one be overtaken and another be carried
on, two faults let a job throw and its next attempt die, and two acts let a document
be taken back and read again. Bounds appear in
guards and are named (`MaxCalls`, `MaxReassigned`, `MaxCrashes`, `MaxVersions`,
`MaxRequests`, `MaxEnvelopes`, `MaxAttempts`, `MaxFaults`, `MaxReminders`,
`MaxKept`, `MaxWrites`, `MaxAsks`, `MaxRuns`, `MaxWordings`, `MaxActs`, and the
number of `Ids`). With three versions
`Analysis` has 14.6 million states; its invariants were seen to hold there too,
but with the liveness properties that run is too long to keep. Since the counters only grow, behaviours end and
deadlock is not checked.

**Symmetry** is used for callers and handlers in runs without liveness, for
the people of `fields` and the requests of `diligence`; they are interchangeable in every definition. `fields`
also has a **view**: states that differ only in what no later step and no
invariant reads (who wrote last; who touched a value that is neither a person's
nor an amendment's; what a run found, once something was written after it) are
explored once. Action properties are evaluated on every step explored, whose
successor holds the parts left out.

**Fairness** (`FairSpec` of `Approvals`): weak fairness of each handler's own
steps, since an await comes back; weak fairness of submitting; strong fairness
of deciding, since it is only possible when a handler is free and people who
hold a step do decide at last. Nothing else is assumed: escalations and
delegations may or may not happen. `RoundCloses` excepts rounds during which a
handler died: nothing in the code resumes those.

`Signing`: weak fairness of the seal job, since a worker takes what waits in its
queue. Signers need not answer, and nothing has to fail. `SealedAtLast` excepts
a completed request whose status the reminder overwrote, and a seal whose number
a newer version took: the sealed copy takes the signed version's number plus one
(`lib/seal-contract.ts:149`), and numbers are unique in a contract
(`apps/api/prisma/schema.prisma:343`). When that number is taken (an edit made
after the request was sent, or one undone before), every attempt throws though
nothing failed, against lines 16-18 of the same file; and since the failed job
keeps its id, queueing it again does nothing (`lib/queue.ts:567-587`).

`Analysis`: weak fairness of the jobs of the chain, of the checkpoints, of the
requests between two writes, and of the sweep, which is scheduled every five
minutes; nobody has to ask for anything. One fairness for all jobs of a class
is what a worker pool gives: some job of it goes on. `InProgressEnds` holds of a
queue that loses jobs too; it excepts a contract with a checkpoint queued, which
the sweep counts as its live job (`lib/stuck-contracts.ts:50`), and a file asked
to be read again that still has its text, which the sweep's query does not see.
`QuietAtLast` is about behaviours in which no job is lost; it excepts a
checkpoint that waits on a contract another checkpoint left `ANALYZING`
(`lib/analysis-trigger.ts:85`): each finds the other's mark and waits again, for
ever.

**One call at a time.** The invariants of `flow_calls` relate several tables
and are stated between complete calls, with one handler, no crash and no
approval by rule (with it `ApprovedStands` fails, as `flow_unapproved` shows; the
other four hold and are proved with it too): they say that the
sequences of calls, however long, keep contract, requests and envelopes in
step. They do *not* hold when calls interleave or die half way (each of the five
is violated with a second handler, and with one crash): an approver who decides between
`submitForApproval`'s insert and its move leaves a contract that waits with
nobody to ask (`lib/approval-flow.ts:139-147`); a counterparty's version that
arrives between an envelope's completion and the contract's move pulls it out
of Sign; cancelling counts open envelopes before one is sent. The hazards list
these.

### What the violations show

- `lifecycle_manual`: a move by hand is checked on one read of the contract
  and made on another; in between, an edit sends it back to waiting for
  approval, and it is then moved by hand, against `lib/contract-status.ts:38-40`.
- `approvals_enough`: a parallel step that needs two approvals is settled by
  one while a delegation is half written, because the number required is
  clamped to the rows there are (`lib/workflow-engine.ts:61-65`).
- `flow_asked`: after approve, send, expire, take back, submit, decline, an
  edit reopens the *first* request (`lib/approval-reset.ts:162-167` takes the
  newest that stands) of a contract that is declined and stays so; it can then
  not be submitted again.
- `flow_unapproved`: an edit of a contract that the rules approved in Negotiate
  asks for the point negotiate/drafting, which does not exist; the refusal is
  ignored, and the edited version passes the signing gate
  (`lib/approval-reset.ts:226-232`, `routes/signatures.ts:70-79`).

## 4. The proofs

Each `*_proofs` module proves its component's properties for every value of the
constants, from the assumptions named in the component's module and nothing
else, but for the five theorems of `ContractFlow` about calls made one at a
time, which say so in their hypothesis. In each, the properties are not inductive
by themselves; `Inv` is the strengthening that is, `AlwaysInv` or `InvHolds`
proves it (initial states, then one step per action), and the other theorems
follow from it. TLC checked each `Inv` on its component's run before it was proved.

Every safety property of a passing run, invariant or action property, and every
refinement is a theorem.

| Module | Theorems | Obligations |
|---|---|---|
| `Lifecycle_proofs` | `AlwaysInv`, `TypeCorrect`, `Implements` (refinement of `ContractStages`), `Signed`, `DeclinedBarred`, `Closed`, `Late`, `Restored` | 415 |
| `Signing_proofs` | `AlwaysInv`, `SigningTypes`, `SealedShown`, `EnvelopeKept` (refinement of `Envelope`), `AllSignedIsSettled`, `TurnAlwaysAsked` | 815 |
| `Approvals_proofs` | `InvHolds`, `TypeCorrect`, `DecisionsStand`, `RoundIsImplemented` (refinement of `ApprovalRound`), `ClosesForCause`, `HandlersLeaveClosed` | 1188 |
| `ContractFlow_proofs` | for any handlers and crashes: `InvHolds`, `TypeCorrect`, `SettledOnceHolds`, `ActiveIsSignedHolds`, `EndsStay`; one call at a time: `CallInvHolds`, `PendingIsAskedHolds`, `ApprovedStandsHolds`, `CancelledIsQuietHolds`, `OutHasAnEnvelopeHolds`, `SignedIsActiveHolds` | 2578 |
| `Fields_proofs` | `AlwaysInv`, `FieldTypes`, `DatesAlwaysAgree`, `OffersAlwaysDiffer`, `OwnersAlwaysKept` (refinement of `FieldOwners`), `RunAlwaysGivesBack` | 1667 |
| `Analysis_proofs` | `AlwaysInv`, `AnalysisTypes`, `InProgressAlwaysQueued`, `StampAlwaysRead`, `NoEditForgotten` | 1282 |
| `DiligenceColumn_proofs` | `AlwaysInv`, `ColumnTypes`, `DoneHasAsked`, `UnderWayIsWorked`, `PersonAlwaysStands` | 1651 |

### Lifecycle

For any set of callers, any starting points an import or a request gives, and
any number of calls, from `StartPoints \subseteq FirstPoints`, `MaxCalls \in
Nat`, and that `None` is not a point.

What a step does depends on what its caller carries: a `Write` moves the
contract to `call.to` because it was permitted from `read` when that was read.
The inductive invariant

    Inv == TypeOK /\ InFlight /\ Remembered

says what a caller in flight carries: at `asked` and beyond a call of a shape
some flow makes (an approval's return or decline only from a waiting contract,
an undone cancellation only to a point at rest); at `write` also that the move is
permitted from the point read, which is one of its `onlyFrom`; at `offer` the
point to go back to; and that the remembered point of a cancellation is one
that could be cancelled. Then each property follows at `Write`, the only step
that moves the contract, since the compare-and-set makes `read` the point the
contract is at.

The proof of `Closed` corrected the property. Its first form let an expired
contract leave Closed only when its dates change, which TLC agrees with at four
calls. The proof fails on an uncancel that read the contract while it was
cancelled and goes on after it was restored by another, signed, and expired:
the table lets `undo_cancel` take closed/expired to draft. Six calls are needed
to see it, so `ClosedStays` says what the code keeps.

### Approvals

For any people, any definitions, any handlers, and any number of delegations,
escalations and crashes. Assumed of the constants: every order of a definition
names somebody to ask, and `None` is neither a person nor a decision.

    Inv == TypeOK /\ StepsKept /\ Placed /\ HandlersKept /\ TimersKept /\ Counted

The difficulty is that a handler acts on a plan made from rows that have changed
since. `Reached(o)` says that the orders before `o` were passed, which no later
step takes back; so it can be claimed of the order the request is at (`Placed`),
of the order every step is of (`StepsKept`) and of the order a stale plan goes on
to (`HandlersKept`), however old the plan is. A plan to finish has all orders
passed; a handler about to close against has a decision to point to. `Counted`
bounds the escalations under way by those counted, which the bound in the type
invariant needs. Every step `Grows`: steps keep their order and a decision once
made. `DecisionsStand` is that; `RoundIsImplemented` maps each step to a step of
`ApprovalRound` or to none, and `ClosesForCause` and `HandlersLeaveClosed` come from
it: an approved request has an approval at every order even when a stale handler
goes on afterwards, and that handler does not open or close it again. Neither says
anything of the resets that end a round, which are no handler of the engine.

### ContractFlow

First for any handlers, however they interleave and wherever they die, any number
of versions, requests, envelopes and crashes, rules that approve or not; assumed
is that there is room for the version a contract begins with (`MaxVersions # 0`).

    Inv == ContractOK /\ RequestsOK /\ EnvelopesOK /\ HandlersOK /\ ActiveIsSigned

Each handler is about rows and versions that exist, and one about to put the
contract in force is about an envelope that was completed (`signed`): its status
would not do, since the reminder may write over it before the contract is moved.
`SettledOnceHolds` says that nothing else does. The
transition table then gives `EndsStay`: whatever stale call asks for a move, a
contract in force stays so, and no flow takes a cancelled one back.

Then for calls that run one at a time and do not die:

    OneCall == (\E h \in Handlers : Handlers = {h}) /\ MaxCrashes = 0
    CallInv == \A h \in Handlers : Between(h) /\ Knows(h)

`Between` names what holds between calls and, for each part, at which steps of a
call it is suspended: an open request is the newest that counts, of the version
there is, and has a contract that waits or was declined; an envelope that is out
has a contract in Sign; and so on. `Knows` is what the call carries over its own
steps to restore it: that the contract may still be submitted, which request it
resets or carries and that no later one counts, that no envelope is out. At rest
nothing is suspended, and the five properties are parts of `Between`.
`ApprovedStandsHolds` assumes in addition that no rule approves by itself
(`~AutoApproves`): with one it is false, which is the finding of `flow_unapproved`.
The hypothesis is what the code needs and not more than the proof needs: TLC
violates each of the five properties with two handlers, and with one handler and
one crash; and it checked `CallInv` with rules that approve (1,841,715 states) as
without (811,648). Reminders and links opened too late are no calls, and run beside
them at any time.

### Signing

For any signers, any grouping, any number of handlers, versions and failures.

    Inv == TypeOK /\ InTurn /\ OneOutcome /\ OneExecution /\ SealKept

A handler about to write an answer is that of a signer whose turn it still is;
the events name one outcome, and none while the request is open; one handler at
most puts the contract in force, once, after `COMPLETED`; and the seal job
stands where what it has made lets it stand. `AllSignedIsSettled` needs in
addition (`Settling`) that, when all have signed and the request is open, some
handler is still on the way to completing it; `TurnAlwaysAsked` (`Asking`), that
whoever's turn it is has a link or is still to be told by some handler.

### Fields

For any inputs, values, people and amendments and for any function that works
out an end date.

    Inv == TypeOK /\ RowsOK(row) /\ DatesAgree /\ KeptOK

`RowsOK` holds of any rows, also of those an action builds before its `Commit`:
a row is absent as a whole, and offers something else than it holds. `KeptOK`
says of what is kept to undo that it is a row that existed, and of an
analysis's run that it changed only what was the machine's. Each action is shown
to build such rows and to leave what is not its own, and `Commit` to establish
`DatesAgree` whatever rows it is given and to touch only an end date that is the
machine's.

`RunAlwaysGivesBack` needs in addition (`LastStands`) that while nobody has written
after a run, every field it changed is as it left it, so that its undo does not
pass it over, and every other as it found it. The end date is the exception, since
it follows: there, what the run found is what the inputs it found come to
(`DatesAgree`, of the rows it was recorded against), so giving the inputs back makes
the commit give it back too. For this an analysis must not be able to write a
worked out end date that its inputs contradict (`Reads`: what it reads is the
machine's, read and not worked out).

### Analysis

For any number of versions, jobs, acts and faults, and any numbers of attempts.

    Inv == Basics /\ JobsOK /\ TextOK /\ InProgressIsQueued /\ StampIsRead /\ Coming

Every job has what it relies on: a version that was made and, after the parse,
has text; a checkpoint about to move the stamp has found the same words
analysed. `Coming` says that an edit not analysed yet has a job or a call that
will look at it, from which `EditNotForgotten` follows when nothing is left.

### DiligenceColumn

For any number of documents, any page size and number of attempts, runs,
requests and faults.

    Inv == TypeOK /\ RunIsWorked /\ AllSound /\ DoneIsThrough

A run exists in copies: the column's, the one each job works on, the one each
request read. `AllSound` says the same of all of them: of the documents that were
due, those behind its cursor were gone through, and what was gone through has a
cell as long as its wording is the column's. Of a job it adds what its page is:
beyond its cursor, and leaving out no due document that comes before one of it
(`PageIsNext`, from the cardinalities that bound a page), and that a document it
will not ask, or has just saved, has a cell. Every step goes `Onward`: a document
stays read or is begun again, a wording gives way to a later one, and under one wording no cell goes
while nobody rewords; so what is due only shrinks (`DueShrinks`), a copy
that is kept stays sound, and each action only has
to answer for the copy it makes. `DoneIsThrough` then makes `DoneIsAsked` of a run
that found no page.

### Only model-checked

Liveness (`RoundCloses`, `SealedAtLast`, `InProgressEnds`, `QuietAtLast`), which
is out of this prover's reach. What the runs that expect a violation show is a
counterexample and nothing to prove. `EndOf`, the date arithmetic, is any function.

## 5. The plan

Done: `StageRules`, `ContractStages`, `Lifecycle`; `ApprovalRound`, `Approvals`;
`ContractFlow`; `Envelope`, `Signing`; `FieldOwners`, `Fields`; `Analysis`;
`DiligenceColumn`; the proofs of every safety property the passing runs check.

To come, in this order:

1. What of `ContractFlow` survives two handlers: the weaker agreement between
   contract, requests and envelopes that double submission, a decision that crosses
   an edit, and a crash leave, checked and then proved for any handlers.
2. That a request in `ContractFlow` is what `ApprovalRound` promises of one, and an
   envelope what `Envelope` does, which the composition now takes from the prose.
3. Theorems about `ApprovalRound`, `Envelope` and `FieldOwners` themselves, which
   then hold of whatever implements them.

## 6. What is not modelled

**Working copy and external edit** (`lib/working-copy.ts`, `lib/external-edit.ts`,
`routes/external-edit.ts`). These promise that no save overwrites one its editor
did not see, that draft changes are not stranded, and that one side at a time
writes. Reading them for a model showed that each promise has interleavings the
code does not exclude, so that a property would mostly consist of its
exceptions:

- revisions start again at 1 with every new draft, so an editor that still
  holds an early revision of a draft that was cut or discarded passes the check
  of another one (`working-copy.ts:64-67`, 147-160); the deletion after a cut
  compares the same number;
- a save on an existing draft ignores the version its editor opened, so
  overwriting a draft with text from another base does not show as
  `BASE_CHANGED`; the current version is compared before `createHtmlVersion`
  reads it again;
- the answer to a save reads the row again after its compare-and-set (166), so it
  may hand out a revision its editor did not make; "typed and undone" deletes
  whatever draft there is by then (259);
- cancelling and scheduling the idle checkpoint may cross, which leaves a draft
  with no job; a checkpoint refused for `BASE_CHANGED` is not scheduled again;
- publishing an external copy frees whichever copy is out by then, and the lock
  is read before the write it protects.

**Audit chain** (`lib/audit.ts`). That the chain is linear rests on what Postgres
does at serializable isolation and on the clock that orders rows by `createdAt`;
the code adds a retry loop with a time budget after which the event is lost.
`Lifecycle` has an event late, never lost.

**Webhooks** (`lib/webhook-events.ts`, `workers/webhook.worker.ts`): a delivery,
its attempts and its back-off are one row and one counter that nothing else
reads.

**Renewals and obligations**: arithmetic on dates, and single writes; the moves
they make are in `Lifecycle`, the dates they write in `Fields`. That a decision
is superseded between the reading of it and what is done with it is listed here
and not modelled (`lib/renewal-decisions.ts`).

**Left out of the modelled parts**: the turn (`turnFor` of the point, never
named by a caller); refusals' wording, notifications, explanations; clause
exceptions; how roles resolve to people; the diff that decides between carrying
and resetting an approval (a choice here); and what section 2 names for each
module.

**Not protocols**: the calls to language models and everything in `apps/agents`;
the user interface; retrieval and search; routes that keep one table;
permissions and tenancy, which are guards within one request.

**Taken for granted**: the database does what Postgres does for single
statements and transactions; BullMQ keeps one job per id, runs a delayed job at
some time, and runs it again after a failure while it has attempts.
