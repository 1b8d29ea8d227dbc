# Urimodu ERP: specifications, model checking and proofs

TLA+ models of the parts of Urimodu ERP whose correctness depends on the order of
things: approval lines and what they decide, the worker's import and export jobs, the
way of an attendance event from a device to the raw store and from there into a
ledger, and the back office, whose pages send forms that the API handles statement by
statement. TLC checks them on small instances; the TLA+ proof system (TLAPS) proves
the main invariants for all instances.

    tlc -workers 2 -config approvals.cfg MCApprovals      # a run
    tlapm ApprovalRequestsProofs.tla                      # the proofs of a module

`PROJECT.json` lists the runs, maps each definition to the lines it models, names
for every checked property a mutation of the model that breaks it, and lists the
hazards the properties are aimed at.

## 1. The system

| Component | State | Operations | Talks to |
|---|---|---|---|
| Approvals (`apps/api/.../approvals`) | ApprovalLine, ApprovalStep, ApprovalAction | configureLine, submit, approve, reject, cancel, resubmit, inbox | writes Document.status and the status of the linked LeaveRequest / AttendanceCorrection |
| Leave (`.../leave`) | LeaveRequest, AttendanceCorrection | create, list | creates a document, configures and submits its line, then inserts its own row |
| Documents (`.../documents`) | Document, DocumentVersion, attachments, PDF files | create, add version, render PDF | approvals; files; docs-service |
| Import/export API (`.../import-export`) | ImportJob, ExportJob | queue, read | the worker, through the job rows |
| Worker (`apps/worker`) | job rows, ImportJobRow, Vendor, FileObject, AttendanceLedger | one tick a minute: normalise, import, export (PDF and notifications are stubs) | database, object storage |
| Attendance (`.../attendance`) | AttendanceRawEvent, ShiftPolicy, assignments | ingest (dedupe hash), policy versions and defaults | the normalisation job |
| Integrations (`.../integrations`) | adapters, keys | ingest one event or a batch, import CSV | attendance |
| Connector gateway (`apps/connector-gateway`) | none | forward events one by one | edge agent, integrations |
| Edge agent (`agents/edge-agent`, Go) | buffer file, processed files (in memory) | poll CSV, send, buffer, retry | gateway |
| Organisation, employees, expenses, finance, files, signatures | one or two tables each | create, update, delete | each other's rows, by reference |
| Sessions, guards, audit log | UserSession, CompanyMembership, AuditLog | login, logout, the guards of every request, one entry per change | every handler |
| Web (`apps/web`) | forms, the session in local storage | send a form, show its answer | the API, with a time-out |
| SDK, docs-service, seeds, deployment | none others depend on | | |

How they interact: everything goes through PostgreSQL rows. The API is a NestJS
process; a request is a chain of awaited statements, so requests interleave between
statements, and only a few operations (createDocument, addVersion, createClaim, the
shift policies, the ledger upsert) wrap theirs in a transaction. **None of the approval
operations does.** The worker starts all its jobs on every tick and awaits none of
them, so runs overlap with those of earlier ticks; a rejection nobody handles ends the
process, which the deployment starts again. The web client gives a request up after a
time and does not know whether the API went on.

What is hard about it, and what makes each part correct:

- *Approvals.* Four tables that must tell one story (line, steps, document, linked
  request) are written one after the other. Correct means: exactly one approver is
  asked at a time; the line, the steps, the document and the request agree; an
  approval is backed by every approver of the current round; decisions are not
  rewritten; and what races or crashes leave can be repaired by a user.
- *Worker jobs.* Claims race, go stale and arrive late; statements fail; the process
  stops; the same table may come as a CSV or as a workbook. Correct means: one run
  works on a job within the stale window; finished jobs do not start over; success is
  real; every job ends; the two file formats say the same.
- *Attendance ledger.* Batches, overlapping ticks, overnight cut-offs, policies that are
  replaced meanwhile. Correct means: every raw event becomes a source of the right
  day's ledger, a ledger can be explained by what it points to, and minutes are counted
  as a person would count them.
- *Delivery of attendance records* (agent, gateway, ingest). At-least-once sending,
  a buffer file rewritten in place, dedupe at the server, an answer that is an error
  although the event is stored, buffer lines that break off in the middle. Correct means: no
  record is lost unless a failed write to the buffer drops it or leaves the line that
  swallows it, and an accepted batch is stored.
- *Back office.* Every handler checks references by queries of its own, then writes,
  then audits, with other users' requests in between. Correct means: references do not
  dangle or lead into another company; what the books rest on is not deleted; what is
  stored is accounted for; numbers are not given twice; a form is not stored twice.

`PROJECT.json` "hazards" lists forty concrete ones with their lines.

## 2. Modules

| Module | What it is |
|---|---|
| `Approvals` | The abstract specification: each handler one atomic step. One document and its line, steps, actions of the current round, linked request |
| `ApprovalRequests` | The same handlers statement by statement, over the same tables; requests in flight interleave and may be cut short. EXTENDS `Approvals` |
| `SerialApprovalRequests` | `ApprovalRequests` with a history variable, and the refinement onto `Approvals` |
| `WorkerJobs` | Queue, claim, import and export runs, faults, time |
| `VendorTables` | How a vendor file is read, as a CSV text and as a workbook, and the RFC 4180 writer it is checked against |
| `VendorImports` | `WorkerJobs` on the files of `VendorTables` |
| `ShiftPolicies` | Versions and defaults of shift policies, with overlapping requests |
| `AttendanceLedger` | The normalisation job over these policies, and the minute arithmetic. EXTENDS `ShiftPolicies` |
| `DeliveryPromise` | What the delivery of attendance events promises, abstractly |
| `AttendanceDelivery` | Edge agent, gateway and ingest, and the refinement onto `DeliveryPromise` |
| `BusinessRows` | The foreign keys and unique indexes of the back office, and what a deletion does to the rows that refer to the deleted one |
| `Endpoints` | The thirty handlers of the back office and the pages that call them, as data |
| `BackOffice` | Pages and handlers at work, request by request, statement by statement. EXTENDS both |
| `ApprovalRequestsProofs`, `ApprovalConsistencyProofs`, `WorkerJobsProofs`, `VendorImportsProofs`, `AttendanceLedgerProofs`, `AttendanceDeliveryProofs`, `BackOfficeProofs`, `BackOfficePromiseProofs` | Theorems and proofs |
| `MC*` | Values of the constants for TLC |

### Approvals

State: `documentStatus`, `lineStatus`, `currentOrder`, `submittedBy`, `steps`
(orderNo to row), `actions` (APPROVE and REJECT rows since the last submission) and
`requestStatus`, the columns of `schema.prisma` with the same names. `documentId` is
unique on the line and no handler touches two documents, so one document is enough.
The line's null `currentOrder` is 0, which `@Min(1)` keeps free.

Actions: `ConfigureLine`, `Submit`, `Resubmit`, `Approve`, `Reject`, `Cancel`,
`CreateRequest` (createLeaveRequest and createAttendanceCorrection, which differ only
in data), `CreateDocument`, `AddVersion`. `IsNextActionable` and `Forwarded` are
`moveForwardToNextActionable`: which order it returns, and what it writes on the way.
`Synced` is `mapBusinessStatusFromApproval`.

Users are authenticated, and which active employee a user is does not change. The first
is what the guards see to; the second is a simplification. No operation of the API
writes `userId`, but PATCH `/org/employees/:id` may set `employmentStatus`: a line whose
current approver is terminated can then only be cancelled, which the approval modules
do not show. Deleting an employee who is an approver is refused by the foreign key;
deleting one between configureLine's validation and its createMany leaves a line
without steps, which is the state the crash of `approved_line_has_steps` reaches.

### ApprovalRequests

One record per request in flight: `pc` names the statement it is about to run, the
other fields are the handler's local variables (the routing, the order it decides,
what `moveForwardToNextActionable` returned and still has to write). One action is
one awaited statement; the reads that begin a handler are its `Begin...` action. Rows
are written by id: after `deleteMany` a request that still holds an old row gets an
error at its next write (`stale`). A crash of one request also stands for a failed
statement or a broken connection: the statements before it stay done. `CreateSteps`
fails on an order that exists (`@@unique([lineId, orderNo])`), `CreateLine` on a second
line (`documentId @unique`). `alone` is a history field: no other request was in flight
between this one's first and last statement.

### WorkerJobs, VendorTables, VendorImports

`status` and `age` are the job rows (age: the time since `startedAt`), `rows` the
ImportJobRow table, `vendors` the codes saved, `objects`, `files` and `resultFile` the
storage, FileObject and `ExportJob.resultFileId`. `run` holds up to `|Runs|` runs under
way. A tick is `Find` (findFirst), then `Claim` (updateMany with the same condition,
count 0 gives up), which may take effect up to `MaxClaimDelay` later; `startedAt` is
the time of the tick, as in the code. The import loop is `SaveVendor`, `RecordRow`,
`AuditRow`, or `FailRow` (the row's catch block); `Handler` says which catch block an
error reaches; an error in a claim or in the outer catch block is an unhandled
rejection and a `Crash`. A statement that fails after it took effect leaves the state
a failure of the following statement leaves, so `Error` fails before the effect.

`VendorTables` reads a text as a sequence of words and separators: headers are
normalised and looked up among their aliases, `ParseCsvLine` is the loop of `parseCsvLine`
as a function from how far it has come to what it holds then (`ReadChar` is one step of it,
`SplitAt` one of the split into lines), empty lines and empty rows are left out each in its
own way, and a row is valid or not. `Words` are what cells are made of; the one assumption
about them is that none is a line break, at which `split` cuts even inside quotes.
`VendorImports` says that what a run of `WorkerJobs` finds in a file is what these operators
make of it (an assumption TLC evaluates).

### ShiftPolicies, AttendanceLedger

`policies` are the ShiftPolicy rows under their unique key; a request reads a version,
then in its transaction clears defaults (`ClearDefaults`) and inserts (`InsertVersion`).
Under READ COMMITTED the clearing sees what was committed when it ran, which is why its
set of rows is kept until the commit.

`raw`, `normalized`, `ledger` and `sources` are the rows of one employee; `run` holds the
runs under way, each with its batch and its cache of the policy of each day. A run is
`Start` (findMany, oldest first), `Read` (resolvePolicy beside the cache, one day at a
time), `Write` (the transaction of one group). An error anywhere is a `Restart`, since
nothing catches it. `NormalizeEvents` is normalizeAttendanceEvents as a function of a set
of events and a shift; `DomainNormalize` is the older copy in `packages/domain`.

### AttendanceDelivery

The agent's loop is `Poll`, `Send`, the three ways a send ends, `Truncate` and `Rewrite`
(Replace, entry by entry), `Scan`, `Parse`, `Skip` (a row it cannot map), `FileDone`.
`PollFailed` is an error that ends the poll (Load, Replace's open, listing the files),
`FileFailed` one after which the next file is tried.

`buffer` is what `Load` finds in the buffer file and `tail` how the file ends. A write that
fails (`AppendFailed`, `RewriteFailed`) leaves nothing of its line, a part of it (`cut`), or
all but the newline (`unended`), which `Load` still reads. The file is opened with O_APPEND, so
the next entry goes on in that line: the two make a line `Load` skips without a word, and
both rows are gone, though the second write succeeded (`AppendEntry`, `Joined`). `dropped` are
the rows whose entries failed writes have lost, `swallowed` those whose own write succeeded
behind such a line. Lines that are skipped stay in the file until `Replace` empties it.

A request in the API is `Refuse`, `Resolve`, `Create`, `Audit`; `Audit` always fails, since
the actor `integration:<provider>` is no user, and the event stays stored. A request
goes on when nobody waits for it any more (`SendTimedOut`, then `AnswerLost`). Assumed:
modification times grow strictly, CSV files are only appended to and stay where they are.

### BusinessRows, Endpoints, BackOffice

`Endpoints` describes a handler by four facts: where its company comes from, what it
writes, which references it checks, and its statements in order; who may call it is a
table of each controller (`RolesOf` puts them together, as the roles guard does). A page is
the requests it sends, whether its button is locked meanwhile, and whether the form is
gone after a success. `BackOffice` gives each statement one action (`Admit`, `Check`,
`Insert`, `Version`, `Link`, ...) that reads these facts, so that a slip in one handler is
a change of one line of data; every statement that writes goes through `Storable`, which
is PostgreSQL refusing what breaks a constraint. `page`, `token` and `request` are the
form, the local storage and the handler's local variables; `at` is the number of the
statement a request is at. A page sends with the session it was opened with, or looks in the
local storage when it sends (`SessionsAt`): either may happen.

What is given are the forms (`CatalogueAssumption`: what any page of `Endpoints` may send,
with any ids in its fields) and the rows there are at first (`DesksAssumption`: what the
constraints of the database allow, with references that stay in their company, complete
versions, and no PDF yet).

Simplified: a claim has one item and an entry's dimensions are the union over its lines;
both templates are seeded; ids are fresh; one signature type; the reads before the first
write are one action, since a row's company never changes (a row that is deleted
meanwhile is found missing at the write); reloading of lists is left out.

## 3. Runs

| Run | Question | Result |
|---|---|---|
| `approvals` | Do the atomic handlers keep the tables in agreement, for every routing? | pass |
| `approval_races` | What do two overlapping requests of any kind leave, and can it be repaired? | pass |
| `approval_crashes` | The same for requests cut short between statements | pass |
| `approvers_in_turn` | Is a line coherent when three approvers overlap, one request each? | pass |
| `approval_refinement` | Do the statement sequences add up to the atomic handlers? | pass |
| `outcome_synced` | Is a terminal outcome always synchronised to the linked request? | **violated** |
| `approved_line_has_steps` | Does every approved line have a step? | **violated** |
| `worker_jobs` | Exclusive claims, real success, exact row reports, termination; one table in two formats | pass |
| `attendance_ledger` | Right days, explained ledgers, counted minutes, every event normalised, while ticks overlap and policies change | pass |
| `ledger_is_a_view` | Is a ledger what its policy makes of its source events? | **violated** |
| `attendance_delivery` | Is every row delivered that no failed write of the buffer loses, whatever times out, restarts or breaks off? | pass |
| `back_office` | What do forms, handlers, failures and deletions that meet leave in the tables? | pass |

What they show:

- The approval handlers are right taken one at a time (`approvals`, and
  `approval_refinement` for the statement sequences). They are not right when they
  overlap: two requests of one user, or a cancel and an approve, can leave line, steps
  and document in disagreement, since no handler takes a lock or a transaction.
  `SettledLineCoherent` states the case the guards do protect (approvers with one request
  each), and `LoneSubmitRepairs` and `LoneCancelCloses` that whatever was left is repaired
  by one undisturbed submit, resubmit or cancel.
- `outcome_synced` (finding): the first approver's late synchronisation overwrites the
  second approver's outcome; the leave request of an approved line stays REQUESTED.
- `approved_line_has_steps` (finding): a configureLine cut short before createMany
  leaves an empty DRAFT line, and submitting it approves it.
- The claim protocol of the worker is sound: repeating the condition in the update
  is what makes it so (the mutant without it breaks two properties). It does not
  fence a run that outlives its claim; `OneFreshRun` says exactly that much.
- `ledger_is_a_view` (finding): an OUT that is normalised one tick after its IN replaces
  the day's ledger by one with a check-out and no check-in, while both events stay its
  sources. What does hold is `RecordedPolicyExplainsLedger`: some of the sources and the
  recorded policy give the row.
- An ingest that answers with an error although it stored the event does no harm to the
  delivery: the agent keeps the event, the dedupe hash ends the repetition, and a batch
  gets one row further with every attempt. That a restart of the agent reads every file
  anew is what saves the events that a truncated buffer loses (mutant
  `RestartRemembering`).
- What the agent can lose is bounded, not nothing. A failed write loses the entries it was to
  write, and one further entry, written later and without an error, if it left its line
  without an end: `NothingForgotten` counts at most one such entry for each fault. The failed
  append is logged, the second loss is not, and no text of the repository mentions it
  (`agents/edge-agent/internal/buffer/README.md` says that failures that remain stay in the buffer
  file). The files are read anew, and the rows sent again, only when the agent is restarted or a
  file is written to.
- Nothing in the back office dangles or crosses companies, but two things do not hold
  and are not stated: a user may end with two default signatures, and an employee may
  be created with a legal entity of another company, which a claim then inherits.

### Bounds and why they are enough

- `approvals`: two employees, an administrator without an employee row, orders 1, 2
  and 4 (a gap), one actionable and one read-only type. Handlers look at a step only
  through "actionable", its status and its approver, and compare orders; the theorems
  below lift the bound.
- `approval_races`: two requests are what a race needs; two users so that each can
  hold both roles; it starts from a submitted line, which any number of configure,
  submit and cancel operations lead away from and back to. Two routings, two approvers
  or the second of them alone, so that a reconfigured order can change hands. Slots are
  symmetric.
- `approval_crashes`: one request, two cuts, so that a repair can itself be cut.
- `approvers_in_turn`: three approvers and a RECEIVE step between them, the shortest
  line with a first, a middle and a last decision and a step to skip.
- `worker_jobs`: two jobs of a kind (the claim order matters), two runs (an old holder
  and a new one), a stale window of two units with a claim delay of one, two faults for
  imports and one for exports. Import 1 is a CSV with a row that cannot be saved, import
  2 a workbook without one. Imports and exports claim from different tables and share
  nothing but the process, so the constraint `OneKind` has a behaviour create jobs of one
  kind only. The tables: every pair of cells of up to two of a letter, a comma, a quote
  and a blank (21 x 21), and 243 tables with plain cells, empty rows and padded headers.
- `attendance_ledger`: a unit is an hour, which keeps 22:00, 06:00, shifts and grace where
  they are. Three events of an evening and the morning after, one on the cut-off of the
  night shift; two runs with batches of two, so that a day's events come in two batches
  and two ticks overlap; one restart; one policy request in flight at a time (two
  overlapping ones may leave two defaults, which the theorem covers), a default that
  changes from a night to a day shift. The arithmetic is checked over every subset of
  eight events that span two days.
- `attendance_delivery`: one file with rows of three kinds (good, refused by the API,
  without an employee number), two writes so that a row can come while the file is read; a
  batch of two, so that its second attempt starts behind a stored row; two slots, for the
  agent and the other client or for an abandoned request and its repetition. Three faults
  (time-outs, crashes, failed reads and writes): a row must fail to be stored, fail again
  when the buffer is retried, and be in `Replace` when the agent stops, or have its entry
  broken off and the next one swallowed. Three faults beside every interleaving with the
  batch are too many states, so `MCInit` begins at four states that behaviours from
  `DeliveryInit` go through: an empty file with no fault left or a row in it with one, the
  batch still to come; and one or two rows with all three, the batch accepted (what is left
  of the batch is in the store; a fault that is spent was a poll that failed). 431,522
  distinct states.
- `back_office`: thirty-nine desks of one to three forms, one for each area of the API
  and for each pair of areas that share rows (say, a claim for an employee who is being
  deleted); each form is sent at most two times (three for the import page, with its two
  requests), one failure per desk of two forms. Two companies, five users of which one
  belongs to both companies and one to none. Interference goes through shared rows, and
  two handlers share few: three forms are on a desk where a third can matter.

`MaxCrashes`, `MaxFaults`, `MaxClaimDelay`, `MaxRestarts`, `MaxWrites`, `MaxVersion`, a
desk's `faults` and `requests`, and the saturating `age` are the only bounds in guards.
Deadlock is checked except where the system may stop: `approvers_in_turn` and the
violation runs of the approvals have clients that only decide or only configure, jobs end
when every job has ended, an attendance run when every event is normalised and every
policy version taken, a desk when every form is sent.

### Fairness

- `WorkerFairness`: the tick repeats (`setInterval`), so some idle slot finds a claimable
  job; every run under way continues (each `await` returns or throws); time passes.
  Faults and the creation of jobs are not fair, and faults are bounded: a job that makes
  every attempt fail by ending the process would be retried for ever, and nothing in the
  code stops that.
- `LedgerFairness`: the same for the normalisation: a tick starts a run while there are
  events that wait, and a run takes its next step. Recording events, publishing policies
  and restarts are not fair.
- `DeliveryFairness`: the agent polls on (its ticker), the API handles what it has begun,
  and the other client repeats its batch. The sends are strongly fair, since the agent
  and the client compete for the API, which refuses neither for ever. The device and
  the faults are not fair.

The abstract `PromiseFairness` (what is not lost is delivered) is checked against it.

## 4. Proofs

`ApprovalRequestsProofs` begins with the atomic handlers of `Approvals`. It proves, for all
users, employees, roles, orders and step types that satisfy `ApprovalsAssumption`:

- `TypeCorrect`: `Spec => []TypeOK`.
- `InvariantCorrect`: `Spec => []IInv`. `IInv` joins `TypeOK`, `LineHasSteps`,
  `StepsMatchLine`, `DocumentFollowsLine` and `RequestFollowsLine` with three parts that
  no run needs and the induction does: `ApprovalsOnRecord` (every approved actionable
  step has its approver's action, not only in an approved line, which is all that
  `ApprovedByEveryApprover` speaks of), `DocumentComesFirst` (no line without a document)
  and `ApprovedRequestHasApprovedLine`. `StepsMatchLine` carries the argument: everything
  before the current order is approved and everything after it untouched, so that a
  decision moves one step and the lemmas about `Forwarded` and `IsNextActionable` (it
  opens the order it returns; of the steps passed over none asks for a decision) give
  the next state's frontier.
- From it: `LinesHaveSteps`, `StepsAlwaysMatchLine`, `ApprovalsAreComplete`,
  `OutcomesFollowLine`, `DocumentsFollowTheirLine`, `OneInbox`, and the action properties
  `DecisionsAreFinal` and `ApprovalIsLasting`.

`IsNextActionable` picks the least of a set of orders by its defining property; a
handler whose `\E n` had no witness would be disabled, so what is proved is safety
only. That the minimum exists (the orders are natural numbers) shows in the runs.

Then, of `ApprovalRequests`, for any number of requests in flight, any operations and any
number of crashes, from either initial state:

- `RequestTypesHold` (`RequestsTypeOK`).
- `OnlyApproversDecide` (`AssignedApproverDecides`). The invariant `HoldingInv` is about the
  time between a read and the write that relies on it: as long as `deleteMany` has not
  made a request stale, the row it is about to decide is there and is its user's, and the
  rows that `moveForwardToNextActionable` is about to approve ask for no decision. It
  survives the other requests' statements because those change statuses only, never the
  approver or the type of a row (`RowsStay`), except for the two that delete and create rows.

`ApprovalConsistencyProofs` proves, from the same assumptions:

- `LoneSubmitsRepair` (`LoneSubmitRepairs`) and `LoneCancelsClose` (`LoneCancelCloses`). They are
  about one request among many, so the invariant `LoneInv` follows that one: a request
  still marked alone is the only one in flight, and `Stage` says for each statement what
  the ones before it have made of the tables. Of a submit: all rows are waiting when it
  reads them, each row has or is about to be given the status `Goal` while it writes them
  (lemma `MovesOn`: what `moveForwardToNextActionable` returns and writes), and line,
  document and linked request join one after the other. A request that begins while others
  are in flight, or is joined by one, promises nothing, whatever state they have left;
  `DocumentFirst` (before the document there is nothing) covers the create.

It also proves `ApproversInTurn` (`SettledLineCoherent` under `SubmittedSpec`) for any
number of approvers, requests in flight and any routing, under the assumption `InTurn` that
the run `approvers_in_turn` is an instance of: clients approve and reject only, no user has two
requests in flight, none is cut short, and an employee is one user (`Employee.userId`). The
invariant `TurnInv` is a turn: a request has it from its read of the line to its write of the
line, and while it has, `currentOrder` is its step and names its user, so nobody else passes
the checks of `approve` (`OneTurn`). `Turn` says what each statement has made of the rows;
without a turn the rows stand where `currentOrder` says (`Standing`), every step before it
is approved by its approver (`OnRecord`), and the document lags only while the last request is
about to write it. Two requests of one user, a cancel or a crash break the turn: the
runs `approval_races` and `approval_crashes` have them, and there only the repairs hold.

The module ends with the refinement, `SerialHandlersAreAtomic` (`ImplementsAtomicHandlers`
under `SerialSpec`), for any company, operations, routings and approvers, under
`OneAtATime` (one slot, no crash), which the run `approval_refinement` is an instance of: a line
whose requests come one at a time behaves as `Approvals` says, so what is proved of
`Approvals` holds of the statement sequences whenever nothing is in flight. The invariant
`SerialInv` says, for each operation and statement (`ConfigureDone`, `SubmitDone`, `CreateDone`,
`ApproveDone`, `RejectDone`, `CancelDone`), how the database differs from the one that was there
when the request began. `Advancing` is the part several operations share: the rows as they are
plus what is left of the plan are the rows `Forwarded` gives. A request's last statement
(`findRequest` when the linked row needs no write, `syncRequest`, `insertRequest`,
`createSteps`) completes one step of `Approvals` (`ReviewStarted`, `Approved`, `Rejected`,
`Cancels`, `Created`); the others stutter. No request throws on the way: the line is not
created twice, rows do not go stale, orders do not clash. `Foundations` is needed for the
creates: before the document there is no line and no linked request, before the line no
step and no action. An approver list is numbered from 1, so that the atomic
step's `currentOrder' = 1` is what `moveForwardToNextActionable` finds (`FirstApprover`).

`WorkerJobsProofs` proves, for any jobs, files, numbers of runs, stale window, claim
delay and faults that satisfy `WorkerJobsAssumption`:

- `WorkerTypeCorrect`.
- `ClaimsAreExclusive` (`OneFreshRun`). It is not inductive: it says nothing of the job
  row a claim looks at. The strengthening `ClaimInv` ties holders to rows: a run that
  holds a job is at least `Stale` old, or the job has finished, or the job is RUNNING
  and its row no older than the run. A claim needs a PENDING row, or a RUNNING one
  with `age >= Stale + delay`; by `ClaimInv` every run that still holds the job is then
  at least `Stale` old, so the new holder is the only fresh one. Statements other than
  a claim are `Quiet`, and time makes runs and rows older alike.
- `FinishedIsFinal`: a claim requires PENDING or RUNNING when it takes effect.
- `SuccessIsReal`. The strengthenings `ImportInv` (a run in its loop that has counted no
  failure has recorded and saved every row before the current one; rows and vendors
  are never removed) and `ExportInv` (the object of a run past its upload is its own).
- `LoneRunsTellTheTruth` (`LoneRunTellsRows`), with `LoneInv`: while a run is alone no
  other run holds its import, the rows behind the one it is at are recorded, and it has
  counted a failure exactly if one of them is not SUCCEEDED (`Tells`). What a run that
  stopped halfway has left is no hindrance, because each row is recorded anew. The ghost
  `alone` is lost as soon as another run takes the job (`Undisturbed`: a run still alone
  after a step has kept its place and its rows).

`VendorImportsProofs` proves, for any words without a line break and any set of tables over
them, of any length and width, empty rows and empty tables included:

- `TablesReadTheSame` (`TablesAreReadAlike`): the CSV text and the workbook of a table give
  the same rows under the same numbers. What the parser does to every input would be an
  induction over data; here the induction is over the places of one written text. What
  `FlattenSeq` makes of pieces holds each of them at a place of its own (`Flattened`), so a
  joined text is its parts with separators between (`JoinedIs`). Where a cell starts the
  loop is outside quotes with nothing in hand, and where it ends it has the cell in hand
  (`CellRead`): a plain cell is taken as it is, a quoted one quote by doubled quote
  (`QuotedRead`), and its closing quote is not doubled because a comma or the end follows.
  So a row gives back its trimmed cells (`RowRead`) and a text its rows (`LinesRead`).
  Trimming twice is trimming once (`Trimmed`), hence the headers pick the same columns. A
  row with anything in it has a line that is not blank (`RowShows`), so the workbook leaves
  out only rows that the CSV refuses for want of a code (`EmptyRowInvalid`). The induction
  itself is derived from the well-foundedness of `<` (`Induction`).

`AttendanceLedgerProofs` proves, for any events, days, policies, requests in flight, runs,
batch sizes and restarts that satisfy the assumptions of `ShiftPolicies` and
`AttendanceLedger`:

- `LedgerTypesHold`. The types hold of a run's cache because policies are only ever
  added; a policy once read stays published.
- `LedgersAreExplained` (`RecordedPolicyExplainsLedger`), with `ExplainedInv`: a row names the
  policy of a set of its source events that gives its columns, and since a version's shift
  never changes (every step of `ShiftPolicies` keeps the shift of each key) no later
  version or default can spoil the explanation.
- `SourcesFallOnTheirDay` (`SourcesBelongToTheirDay`), with `DefaultInv` (a company with a
  seeded default keeps one, even while requests exchange it: a request that has cleared a
  set of defaults inserts one in the same commit), `CacheInv` (what a run's cache names is
  published, or the company may lack a default) and `SourcesInv`. It assumes
  `ShiftsEndWithinADay`: an overnight shift's end plus grace is at most a day. The DTO
  allows an end up to 1439 and a grace up to 180 minutes, so a shift of almost a day could
  break it; then an event may be put on a day that no longer holds it.
- `NightMinutesAreUnits`: `NightMinutes(a, b)`, a sum over nights, is the number of units
  from `a` to `b` that are at night, for any two times. Nights are disjoint and together
  hold every unit at night (`NightsAre`), so their overlaps with the range add up.
- `MinutesAreCountedRight` (`MinutesAreCounted`), for any events. The last event before a
  unit of a stretch is a BREAK_OUT exactly if the unit is in a break: each BREAK_OUT is
  followed by the BREAK_IN that ends its break, since the events inside alternate and their
  number is even (`BreaksEnd`), and no two breaks share a unit (`BreaksAreApart`). So what
  is worked is the stretch without its breaks (`WorkedIsOutsideBreaks`), and the sums the
  code makes of breaks and nights are the sizes of sets. The step from a sum to a size is
  `TotalCounts`: the fold that computes the sum exists, and counts, for sets of any size,
  both by induction. The library's induction theorems take an operator and cannot be used;
  `Induction` is proved from its theorem that a set has a minimal element for a
  well-founded relation, which takes none. The assumptions say that 22:00 and 06:00 lie in a
  day in this order, that times are counted from a midnight before the first event (so that
  none is the -1 that stands for no time), that events are numbered and finitely many,
  and that `NoPolicy` is not a shift.

`AttendanceDeliveryProofs` proves, for any files, rows, batch, employees, slots, writes and
faults that satisfy `AttendanceDeliveryAssumption`:

- `DeliveryTypesHold`, with `TypeInv`, which adds that a file's modification time counts its
  rows and that the request the agent waits for is for the row its loop is at.
- `AcceptedBatchesAreStored` (`AcceptedIsStored`), with `BatchInv`: the rows a batch request
  has behind it are stored, since it moves on only from a row that is there already.
- `NoRowIsForgotten` (`NothingForgotten`), with `AnswerInv` (a good answer means the row is
  stored, though answers outlive time-outs and slots are used again), `RetryInv` (what was
  in the buffer is stored, still to be sent, or kept), `SendInv` (every row the file had
  when it was stat'ed is safe or still to be sent), `RowsSafe` (the rows of processed files)
  and `SwallowInv` (a swallowed entry costs a fault, and an open line a fault that has
  swallowed nothing yet). No write, whole or failed, takes a row out of `Held`, the rows in the
  buffer, dropped or swallowed (`EntryWritten`, `EntryNotWritten`); only `Truncate` does, and
  `RetryInv` says that its rows are stored or about to be written anew. A stop in between
  empties `processed`, so there is nothing left to be said of them.

It also proves `DeliveryIsSafe`: initial states and steps of
`AttendanceDelivery` are initial states and steps, or stutters, of `DeliveryPromise`. It needs
`OriginInv`: whatever the agent holds or a request carries was handed over, and a request
past the adapter carries a row the API accepts. The liveness half of the promise is left
to TLC.

`BackOfficeProofs` and `BackOfficePromiseProofs` are about any catalogue of forms, any number of
companies, users, requests in flight and failures, and any first rows that satisfy
`CatalogueAssumption` and `DesksAssumption`. The thirty handlers are data, so the proofs begin
with a lemma about the table (`HandlerTable`: which handler has which statement at which
place, what it checks, that it creates a row of each kind at most once, that the statement
after a creation reports it) and from there on split on statements, never on handlers. Four
kinds of step are all that can happen to a request (`Moves`: it stays, is sent, goes on,
ends), and `OldRows` says all that can happen to a row that was there and remains: it never
changes its company, and of the columns only those a handler writes in place change, or lose
the reference to a deleted row.

- `BackOfficeTypeCorrect` (`BackOfficeTypeOK`) and `RecordsStay` (`RecordsAreKept`) rest on `Life`
  (requests are at a statement of their handler, a page waits for requests it has sent) and
  `RowsOK`, whose part `Knows` is what a request may rely on after its checks: its document,
  the files it attaches, the file it has just stored. These rows are of kinds no handler
  deletes; references to rows that may vanish are looked at again by `Storable` at the
  write, and what `Without` leaves is whole because nothing that refers by cascade to a
  deletable row is itself referred to.
- `RowsStayInCompany` (`CheckedReferencesStayInCompany`). The row a check has found may be
  deleted before the write, and its id must then not come to mean a row of another company.
  `Fresh` says that the rows of a request are created once, under ids that nothing else
  uses (`Settled`); `Scoped`, that every id a request carries past its check is settled and,
  if its row is there, of the request's company.
- `VersionsComplete` (`VersionsAreComplete`). `NumberMeant`: the number a request is about to
  use is at most one above the current one. If it is less, the version exists already
  (`VersionsOK`) and the unique index refuses it; so each version that is stored is the next.
- `FilesShow` (`FilesShowTheirSource`). `FileMeant`: the object is stored before the row, under a
  key of the request's own, and shows the version the request read, whose number and
  document never change; the link goes to that number.
- `AuditIsTrue` (`AuditTellsTruth`). `AuditMeant`: what a request has created is reported, or the
  statement it is at reports it. The one statement between a creation and its report is
  the membership of a company's creator, and it cannot be refused, since the company is new
  (`Membership`: users are members of companies there were at first, or that they created).
- `FormsAreStoredOnce` (`FormStoredOnce`). A page whose form goes away either waits for an
  answer before it sends again, or lets the user press at once but stores a row under the
  unique code or number of the form, or creates nothing: `PagesGuard`, a hypothesis on the
  catalogue that the pages of `Endpoints` meet, since a catalogue with an unlocked claims page
  is one the assumptions admit and the statement is false of (the mutant
  `ExpensesPageUnlocked`). For the locked pages `LockedOnce` counts the requests sent for each
  of the page's operations: all but the last were answered by an error. For the others
  `NamedOnce` says that the row of the form has its code, so that a second row clashes. A row
  that is given another code between the two presses would let it in; that no form edits a
  row another form created is the second hypothesis (`EditsAreOfOldRows`).
- `DefaultStays` (`DefaultSurvives`). The mark of a chosen default is taken away only by a
  request that is about to store a chosen one (`ComesTo`), and nothing can refuse that
  insert: no unique index is on signatures, and files are kept (`SignatureMeant`).

Every safety property that a passing run checks is thus stated by a theorem, the approval
runs' refinement and the safety half of the delivery promise included. Only model-checked is
liveness (`EveryJobFinishes`, `EveryEventIsNormalized`, the fairness of `DeliversUnlessLost`),
which is out of the prover's reach as is anything about ENABLED.

## 5. Not modelled

- Comments, time stamps, names, amounts, wording and layout; counts of import summaries;
  storage keys; password and token hashing; API keys of integrations.
- In vendor files: the Korean header aliases, the registration number, line breaks inside
  cells, and how a workbook becomes a matrix of cells.
- Times of attendance are whole units: seconds, and the rounding down to minutes in
  `minutesBetween` and `overlapMinutes`, are left out.
- Isolation anomalies below one statement: every statement is atomic, as PostgreSQL
  makes it. A transaction is one action, or, for shift policies, the two that can be seen
  apart.
- Of the edge agent's files: a host that loses power (pages not yet on disk); CSV files that
  are removed or rotated, whose rows a stop in `Replace` would lose; and the limit of
  `bufio.Scanner`: a line of more than 64 KB, which one long row or two joined ones would
  take, makes every `Load` fail and ends every poll. A stop of the agent in the middle of a write
  is an `AppendFailed` or `RewriteFailed` with a `Restart` after it.
- A page that is opened between two changes of the local storage and keeps that session.
- The PDF and notification jobs of the worker (stubs that log), the lists, reports and
  inboxes (reads), the collaboration and workspace pages (they keep nothing), the
  SDK, types, seeds and deployment files.
- The documents page shows the detail that arrived last, whichever was selected: a hazard
  in `PROJECT.json` without a property, since the models have handlers and forms, not panes.

## 6. Plan

What is left, in this order:

1. The documents page: selection, answers that arrive out of order, and the buttons that act
   on what is shown.
2. Approvals of users whose employment ends while a line waits for them.
