------------------------------ MODULE WorkerJobs ------------------------------
(***************************************************************************)
(* The import and export jobs of the API and the worker.  The API queues a *)
(* job; every tick of the worker starts one run of importParseJob and one  *)
(* of exportGenerateJob without waiting for the runs of earlier ticks.  A  *)
(* run claims the oldest job that is PENDING, or that has been RUNNING for *)
(* WORKER_JOB_STALE_MS, and works on it statement by statement; its catch  *)
(* blocks turn an error into a FAILED row or a FAILED job, and an error    *)
(* inside a catch block, which nothing handles, ends the process.          *)
(*                                                                         *)
(* Jobs of a kind are numbered in the order they are created.  Left out:   *)
(* what a row writes besides its code, the counts of the summary, the      *)
(* audit rows (only that writing one may fail is kept) and the importJob   *)
(* whose source file is gone, which the API can neither create nor bring   *)
(* about.                                                                  *)
(*                                                                         *)
(* "Mutant:" introduces a slip the code could contain, as in Approvals.    *)
(***************************************************************************)
EXTENDS Integers, FiniteSets, Sequences

CONSTANTS
  ImportJobs,     \* the vendor imports
  ExportJobs,     \* the expense claim exports
  Codes,          \* vendor codes
  NoCode,         \* a row without a code or without a name
  FileOf,         \* import -> the codes of the rows of its source file
  Runs,           \* slots for the runs that are under way together
  NoJob,          \* the job of an idle slot
  Stale,          \* WORKER_JOB_STALE_MS, in units of time
  MaxClaimDelay,  \* how long a run may take from its tick to its claim
  MaxFaults       \* how many statements fail and processes stop

Jobs == ImportJobs \cup ExportJobs

ASSUME WorkerJobsAssumption ==
  /\ Jobs \subseteq Nat /\ ImportJobs \cap ExportJobs = {}
  /\ NoJob \notin Jobs
  /\ NoCode \notin Codes
  /\ FileOf \in [ImportJobs -> Seq(Codes \cup {NoCode})]
  /\ Stale \in Nat \ {0}
  /\ MaxClaimDelay \in Nat
  /\ MaxFaults \in Nat

VARIABLES
  status,      \* ImportJob.status, ExportJob.status; "NONE" before the row exists
  age,         \* the time since startedAt of a RUNNING job, up to MaxAge
  rows,        \* import -> row number -> ImportJobRow.status, for the rows recorded
  vendors,     \* the codes of the Vendor rows
  objects,     \* how many results have been uploaded: object n is the n-th
  files,       \* the objects a FileObject row points to
  resultFile,  \* export -> the object of ExportJob.resultFileId, 0 for null
  run,         \* the local state of the run in each slot
  faults       \* how many faults there have been

jobVars == <<status, age, rows, vendors, objects, files, resultFile>>
workerVars == <<jobVars, run, faults>>

MaxAge == Stale + MaxClaimDelay
JobStatuses == {"NONE", "PENDING", "RUNNING", "SUCCEEDED", "FAILED"}
Finished == {"SUCCEEDED", "FAILED"}

Statements == {"claim", "open", "vendor", "recordRow", "auditRow", "failRow", "upload",
               "file", "finish", "audit", "fail"}
RunState == [pc : Statements \cup {"idle"}, job : Jobs \cup {NoJob}, age : 0..MaxAge,
             row : Nat, failed : BOOLEAN, object : Nat, alone : BOOLEAN]

Idle == [pc |-> "idle", job |-> NoJob, age |-> 0, row |-> 0, failed |-> FALSE,
         object |-> 0, alone |-> FALSE]

WorkerInit ==
  /\ status = [j \in Jobs |-> "NONE"]
  /\ age = [j \in Jobs |-> 0]
  /\ rows = [j \in ImportJobs |-> <<>>]
  /\ vendors = {}
  /\ objects = 0
  /\ files = {}
  /\ resultFile = [j \in ExportJobs |-> 0]
  /\ run = [p \in Runs |-> Idle]
  /\ faults = 0

(***************************************************************************)
(* Control flow of a run.                                                  *)
(***************************************************************************)
At(p, pc) == run[p].pc = pc
Job(p) == run[p].job
Holds(p, j) == Job(p) = j /\ run[p].pc \notin {"idle", "claim"}
Goto(p, pc) == run' = [run EXCEPT ![p].pc = pc]
End(p) == run' = [run EXCEPT ![p] = Idle]

\* Mutant: the check for an empty code is forgotten (WorkerTypeOK).
AcceptsEmpty(j, i) == \A k \in 1..(i - 1) : FileOf[j][k] # FileOf[j][i]

\* seenCodes: a row is saved if it has a code no row before it has.
Accepts(j, i) ==
  /\ FileOf[j][i] # NoCode
  /\ \A k \in 1..(i - 1) : FileOf[j][k] # FileOf[j][i]

\* Mutant: the loop ends before the last row (SucceededJobLeftItsResult).
RowStartShort(j, i) ==
  IF i >= Len(FileOf[j]) THEN "finish"
  ELSE IF Accepts(j, i) THEN "vendor" ELSE "failRow"

\* Where the loop over the parsed rows goes when it comes to row i.
RowStart(j, i) ==
  IF i > Len(FileOf[j]) THEN "finish"
  ELSE IF Accepts(j, i) THEN "vendor" ELSE "failRow"

NextRow(p, failed) ==
  LET i == run[p].row + 1
  IN  run' = [run EXCEPT ![p].row = i, ![p].failed = failed,
                         ![p].pc = RowStart(Job(p), i)]

Finish(j, outcome) ==
  /\ status' = [status EXCEPT ![j] = outcome]
  /\ age' = [age EXCEPT ![j] = 0]

(***************************************************************************)
(* The API queues a job.                                                   *)
(***************************************************************************)
CreateJob(j) ==
  /\ status[j] = "NONE"
  /\ \A i \in IF j \in ImportJobs THEN ImportJobs ELSE ExportJobs : i < j => status[i] # "NONE"
  /\ status' = [status EXCEPT ![j] = "PENDING"]
  /\ UNCHANGED <<age, rows, vendors, objects, files, resultFile, run, faults>>

(***************************************************************************)
(* Claiming.                                                               *)
(***************************************************************************)
\* Mutant: only PENDING jobs are claimed (EveryJobFinishes).
ClaimableOnce(j, delay) == status[j] = "PENDING"

\* Job j may be claimed by a run whose tick was "delay" ago.
Claimable(j, delay) ==
  \/ status[j] = "PENDING"
  \/ status[j] = "RUNNING" /\ age[j] >= Stale + delay

\* A tick starts a run, which finds the oldest claimable job of its kind.
Find(p, jobs) ==
  /\ At(p, "idle")
  /\ \E j \in jobs :
       /\ Claimable(j, 0)
       /\ \A i \in jobs : Claimable(i, 0) => j <= i
       /\ run' = [run EXCEPT ![p] = [Idle EXCEPT !.pc = "claim", !.job = j]]
  /\ UNCHANGED <<jobVars, faults>>

\* What a claim does to the row and to the runs: startedAt is the run's tick.
TakeJob(p) ==
  LET j == Job(p)
      others == {q \in Runs \ {p} : Holds(q, j)}
  IN  /\ status' = [status EXCEPT ![j] = "RUNNING"]
      /\ age' = [age EXCEPT ![j] = run[p].age]
      /\ run' = [q \in Runs |->
           IF q = p THEN [run[q] EXCEPT !.pc = "open", !.alone = others = {}]
           ELSE IF q \in others THEN [run[q] EXCEPT !.alone = FALSE] ELSE run[q]]

\* Mutant: the update does not repeat the condition of the search
\* (OneFreshRun, FinishedStaysFinished).
ClaimFound(p) ==
  /\ At(p, "claim")
  /\ TakeJob(p)
  /\ UNCHANGED <<rows, vendors, objects, files, resultFile, faults>>

\* updateMany repeats the condition: a job somebody else took is left alone.
Claim(p) ==
  /\ At(p, "claim")
  /\ IF Claimable(Job(p), run[p].age) THEN TakeJob(p)
                                      ELSE End(p) /\ UNCHANGED <<status, age>>
  /\ UNCHANGED <<rows, vendors, objects, files, resultFile, faults>>

(***************************************************************************)
(* processVendorImportJob.                                                 *)
(***************************************************************************)
\* The source file is read from the object storage and parsed.
OpenImport(p) ==
  /\ At(p, "open") /\ Job(p) \in ImportJobs
  /\ run' = [run EXCEPT ![p].row = 1, ![p].pc = RowStart(Job(p), 1)]
  /\ UNCHANGED <<jobVars, faults>>

SaveVendor(p) ==
  /\ At(p, "vendor")
  /\ vendors' = vendors \cup {FileOf[Job(p)][run[p].row]}
  /\ Goto(p, "recordRow")
  /\ UNCHANGED <<status, age, rows, objects, files, resultFile, faults>>

Record(p, outcome) ==
  rows' = [rows EXCEPT ![Job(p)] =
             [i \in DOMAIN @ \cup {run[p].row} |-> IF i = run[p].row THEN outcome ELSE @[i]]]

RecordRow(p) ==
  /\ At(p, "recordRow")
  /\ Record(p, "SUCCEEDED")
  /\ Goto(p, "auditRow")
  /\ UNCHANGED <<status, age, vendors, objects, files, resultFile, faults>>

AuditRow(p) ==
  /\ At(p, "auditRow")
  /\ NextRow(p, run[p].failed)
  /\ UNCHANGED <<jobVars, faults>>

\* Mutant: the failed row is not counted (LoneRunTellsRows).
FailRowUncounted(p) ==
  /\ At(p, "failRow")
  /\ Record(p, "FAILED")
  /\ NextRow(p, run[p].failed)
  /\ UNCHANGED <<status, age, vendors, objects, files, resultFile, faults>>

\* The row's catch block.
FailRow(p) ==
  /\ At(p, "failRow")
  /\ Record(p, "FAILED")
  /\ NextRow(p, TRUE)
  /\ UNCHANGED <<status, age, vendors, objects, files, resultFile, faults>>

FinishImport(p) ==
  /\ At(p, "finish") /\ Job(p) \in ImportJobs
  /\ Finish(Job(p), IF run[p].failed THEN "FAILED" ELSE "SUCCEEDED")
  /\ Goto(p, "audit")
  /\ UNCHANGED <<rows, vendors, objects, files, resultFile, faults>>

(***************************************************************************)
(* processExpenseClaimExportJob.                                           *)
(***************************************************************************)
\* The claims are read and the result is built.
OpenExport(p) ==
  /\ At(p, "open") /\ Job(p) \in ExportJobs
  /\ Goto(p, "upload")
  /\ UNCHANGED <<jobVars, faults>>

\* The storage key has a random part: every upload makes an object of its own.
Upload(p) ==
  /\ At(p, "upload")
  /\ objects' = objects + 1
  /\ run' = [run EXCEPT ![p].object = objects + 1, ![p].pc = "file"]
  /\ UNCHANGED <<status, age, rows, vendors, files, resultFile, faults>>

CreateFile(p) ==
  /\ At(p, "file")
  /\ files' = files \cup {run[p].object}
  /\ Goto(p, "finish")
  /\ UNCHANGED <<status, age, rows, vendors, objects, resultFile, faults>>

FinishExport(p) ==
  /\ At(p, "finish") /\ Job(p) \in ExportJobs
  /\ Finish(Job(p), "SUCCEEDED")
  /\ resultFile' = [resultFile EXCEPT ![Job(p)] = run[p].object]
  /\ Goto(p, "audit")
  /\ UNCHANGED <<rows, vendors, objects, files, faults>>

(***************************************************************************)
(* The end of either, and what goes wrong.                                 *)
(***************************************************************************)
Audit(p) ==
  /\ At(p, "audit")
  /\ End(p)
  /\ UNCHANGED <<jobVars, faults>>

\* The outer catch block, whatever the status of the job is by now.
Fail(p) ==
  /\ At(p, "fail")
  /\ Finish(Job(p), "FAILED")
  /\ End(p)
  /\ UNCHANGED <<rows, vendors, objects, files, resultFile, faults>>

\* Mutant: a failed upload is only logged (SucceededJobLeftItsResult).
HandlerUnlessUpload(pc) ==
  CASE pc \in {"vendor", "recordRow", "auditRow"} -> "failRow"
    [] pc = "upload" -> "finish"
    [] OTHER -> "fail"

\* The catch block an error of the statement at pc leads to.
Handler(pc) == IF pc \in {"vendor", "recordRow", "auditRow"} THEN "failRow" ELSE "fail"

\* A statement throws.
Error(p) ==
  /\ run[p].pc \notin {"idle", "claim", "fail"}
  /\ faults < MaxFaults
  /\ faults' = faults + 1
  /\ Goto(p, Handler(run[p].pc))
  /\ UNCHANGED jobVars

\* The worker stops, also because a claim or a catch block threw, and is
\* started again: the runs are gone, the jobs they held stay RUNNING.
Crash ==
  /\ \E p \in Runs : ~At(p, "idle")
  /\ faults < MaxFaults
  /\ faults' = faults + 1
  /\ run' = [p \in Runs |-> Idle]
  /\ UNCHANGED jobVars

Older(a) == IF a < MaxAge THEN a + 1 ELSE a

TimePasses ==
  /\ \A p \in Runs : At(p, "claim") => run[p].age < MaxClaimDelay
  /\ age' = [j \in Jobs |-> IF status[j] = "RUNNING" THEN Older(age[j]) ELSE age[j]]
  /\ run' = [p \in Runs |-> IF At(p, "idle") THEN run[p]
                            ELSE [run[p] EXCEPT !.age = Older(@)]]
  /\ UNCHANGED <<status, rows, vendors, objects, files, resultFile, faults>>

Step(p) ==
  \/ Claim(p)
  \/ OpenImport(p) \/ SaveVendor(p) \/ RecordRow(p) \/ AuditRow(p) \/ FailRow(p)
  \/ FinishImport(p)
  \/ OpenExport(p) \/ Upload(p) \/ CreateFile(p) \/ FinishExport(p)
  \/ Audit(p) \/ Fail(p)

WorkerNext ==
  \/ \E j \in Jobs : CreateJob(j)
  \/ \E p \in Runs : Find(p, ImportJobs) \/ Find(p, ExportJobs) \/ Step(p) \/ Error(p)
  \/ Crash
  \/ TimePasses

\* setInterval keeps ticking, every await is resumed, and time passes.
WorkerFairness ==
  /\ WF_workerVars(\E p \in Runs : Find(p, ImportJobs))
  /\ WF_workerVars(\E p \in Runs : Find(p, ExportJobs))
  /\ \A p \in Runs : WF_workerVars(Step(p))
  /\ WF_workerVars(TimePasses)

WorkerSpec == WorkerInit /\ [][WorkerNext]_workerVars /\ WorkerFairness

(***************************************************************************)
(* Properties.                                                             *)
(***************************************************************************)
\* The rows stay within the schema's enums, and a run holds what the statement
\* it is at needs.
WorkerTypeOK ==
  /\ status \in [Jobs -> JobStatuses]
  /\ age \in [Jobs -> 0..MaxAge]
  /\ DOMAIN rows = ImportJobs
  /\ \A j \in ImportJobs : /\ DOMAIN rows[j] \subseteq DOMAIN FileOf[j]
                           /\ \A i \in DOMAIN rows[j] : rows[j][i] \in Finished
  /\ vendors \subseteq Codes
  /\ objects \in Nat /\ files \subseteq 1..objects
  /\ resultFile \in [ExportJobs -> 0..objects]
  /\ faults \in 0..MaxFaults
  /\ run \in [Runs -> RunState]
  /\ \A p \in Runs :
       /\ At(p, "idle") \/ Job(p) \in Jobs
       /\ run[p].pc \in {"vendor", "recordRow", "auditRow", "failRow"} =>
            Job(p) \in ImportJobs /\ run[p].row \in DOMAIN FileOf[Job(p)]
       /\ run[p].pc \in {"upload", "file"} => Job(p) \in ExportJobs
       /\ At(p, "file") => run[p].object > 0
       /\ run[p].object <= objects

\* A job is worked on twice at a time only after its claim went stale: of two
\* runs that hold one job, at least one started WORKER_JOB_STALE_MS ago or more,
\* although ticks overlap and a claim takes effect after its tick.
OneFreshRun ==
  \A p, q \in Runs : \A j \in Jobs :
    p # q /\ Holds(p, j) /\ Holds(q, j) => run[p].age >= Stale \/ run[q].age >= Stale

\* A job that has finished is never queued or claimed again, also by a run that
\* found it stale before its last holder finished it.
FinishedStaysFinished ==
  [][\A j \in Jobs : status[j] \in Finished => status'[j] \in Finished]_workerVars

\* Success leaves the result behind: every row of a SUCCEEDED import has been
\* recorded and its vendor saved; a SUCCEEDED export points to a file of its own
\* whose content was uploaded. No overlap, error or restart makes it a lie.
SucceededJobLeftItsResult ==
  /\ \A j \in ImportJobs : status[j] = "SUCCEEDED" =>
       \A i \in DOMAIN FileOf[j] : i \in DOMAIN rows[j] /\ FileOf[j][i] \in vendors
  /\ \A j \in ExportJobs : status[j] = "SUCCEEDED" =>
       /\ resultFile[j] \in files
       /\ \A k \in ExportJobs \ {j} : resultFile[k] # resultFile[j]

\* "import keeps row-level validation/error reporting": a run that nobody else
\* overlapped finishes its import SUCCEEDED exactly if every row is recorded as
\* SUCCEEDED, also when it retries an import that stopped halfway.
LoneRunTellsRows ==
  [][\A p \in Runs :
       At(p, "finish") /\ run'[p].pc = "audit" /\ run[p].alone /\ Job(p) \in ImportJobs
         => LET j == Job(p)
            IN  /\ DOMAIN rows[j] = DOMAIN FileOf[j]
                /\ status'[j] = "SUCCEEDED" <=>
                     \A i \in DOMAIN rows[j] : rows[j][i] = "SUCCEEDED"]_workerVars

\* Every job that was queued ends up SUCCEEDED or FAILED, restarts of the worker
\* and abandoned claims included.
EveryJobFinishes ==
  \A j \in Jobs : status[j] = "PENDING" ~> status[j] \in Finished
=============================================================================
