--------------------------- MODULE WorkerJobsProofs ---------------------------
(***************************************************************************)
(* Theorems about WorkerJobs, for any jobs, source files, number of        *)
(* overlapping runs, stale window, claim delay and number of faults.       *)
(***************************************************************************)
EXTENDS WorkerJobs, TLAPS

(***************************************************************************)
(* Types.                                                                  *)
(***************************************************************************)
LEMMA IdleIsRunState == Idle \in RunState /\ MaxAge \in Nat /\ 0 \in 0..MaxAge
<1>1. MaxAge \in Nat /\ 0 \in 0..MaxAge
  BY WorkerJobsAssumption DEF MaxAge
<1>2. QED
  BY <1>1 DEF Idle, RunState

LEMMA RowStartIsSafe ==
  ASSUME NEW j \in ImportJobs, NEW i \in Nat \ {0}
  PROVE  /\ RowStart(j, i) \in {"finish", "vendor", "failRow"}
         /\ RowStart(j, i) # "finish" => i \in DOMAIN FileOf[j]
         /\ RowStart(j, i) = "vendor" => FileOf[j][i] \in Codes
<1>1. FileOf[j] \in Seq(Codes \cup {NoCode})
  BY WorkerJobsAssumption
<1>2. Len(FileOf[j]) \in Nat /\ DOMAIN FileOf[j] = 1..Len(FileOf[j])
  BY <1>1
<1>3. i \in DOMAIN FileOf[j] => FileOf[j][i] \in Codes \cup {NoCode}
  BY <1>1
<1>4. QED
  BY <1>2, <1>3 DEF RowStart, Accepts

\* What the state has to hold for a run at each statement; WorkerTypeOK with the
\* code of the row being saved.
TypeInv ==
  /\ WorkerTypeOK
  /\ \A p \in Runs : At(p, "vendor") => FileOf[Job(p)][run[p].row] \in Codes

\* The part of it about the runs.
RunsInv ==
  /\ run \in [Runs -> RunState]
  /\ \A p \in Runs :
       /\ At(p, "idle") \/ Job(p) \in Jobs
       /\ run[p].pc \in {"vendor", "recordRow", "auditRow", "failRow"} =>
            Job(p) \in ImportJobs /\ run[p].row \in DOMAIN FileOf[Job(p)]
       /\ run[p].pc \in {"upload", "file"} => Job(p) \in ExportJobs
       /\ At(p, "file") => run[p].object > 0
       /\ run[p].object <= objects
       /\ At(p, "vendor") => FileOf[Job(p)][run[p].row] \in Codes

LEMMA WorkerTypeInit == WorkerInit => TypeInv
<1>1. SUFFICES ASSUME WorkerInit PROVE TypeInv
  OBVIOUS
<1>2. status \in [Jobs -> JobStatuses] /\ age \in [Jobs -> 0..MaxAge]
  BY <1>1, IdleIsRunState DEF WorkerInit, JobStatuses
<1>3. DOMAIN rows = ImportJobs /\ \A j \in ImportJobs : DOMAIN rows[j] = {}
  BY <1>1 DEF WorkerInit
<1>4. /\ vendors = {} /\ objects = 0 /\ files = {}
      /\ resultFile \in [ExportJobs -> 0..objects]
      /\ faults \in 0..MaxFaults
  BY <1>1, WorkerJobsAssumption DEF WorkerInit
<1>5. run \in [Runs -> RunState]
  BY <1>1, IdleIsRunState DEF WorkerInit
<1>6. \A p \in Runs : run[p].pc = "idle" /\ run[p].object = 0
  BY <1>1 DEF WorkerInit, Idle
<1>7. QED
  BY <1>2, <1>3, <1>4, <1>5, <1>6 DEF TypeInv, WorkerTypeOK, At

LEMMA RecordedRows ==
  ASSUME TypeInv, NEW p \in Runs, NEW outcome \in Finished, Record(p, outcome),
         Job(p) \in ImportJobs, run[p].row \in DOMAIN FileOf[Job(p)]
  PROVE  /\ DOMAIN rows' = ImportJobs
         /\ \A j \in ImportJobs : /\ DOMAIN rows[j] \subseteq DOMAIN rows'[j]
                                  /\ DOMAIN rows'[j] \subseteq DOMAIN FileOf[j]
                                  /\ \A i \in DOMAIN rows'[j] : rows'[j][i] \in Finished
         /\ run[p].row \in DOMAIN rows'[Job(p)]
<1> DEFINE old == rows[Job(p)]
           new == [i \in DOMAIN old \cup {run[p].row} |-> IF i = run[p].row THEN outcome ELSE old[i]]
<1>1. DOMAIN rows = ImportJobs /\ rows' = [rows EXCEPT ![Job(p)] = new]
  BY DEF Record, TypeInv, WorkerTypeOK
<1>2. /\ DOMAIN new = DOMAIN old \cup {run[p].row}
      /\ \A i \in DOMAIN new : new[i] = IF i = run[p].row THEN outcome ELSE old[i]
  OBVIOUS
<1> HIDE DEF new
<1>3. /\ DOMAIN rows' = ImportJobs /\ rows'[Job(p)] = new
      /\ \A j \in ImportJobs \ {Job(p)} : rows'[j] = rows[j]
  BY <1>1
<1>4. QED
  BY <1>2, <1>3 DEF TypeInv, WorkerTypeOK

LEMMA AtNextRow ==
  ASSUME TypeInv, NEW p \in Runs, Job(p) \in ImportJobs, NEW failed \in BOOLEAN,
         run' = [run EXCEPT ![p].row = run[p].row + 1, ![p].failed = failed,
                            ![p].pc = RowStart(Job(p), run[p].row + 1)],
         UNCHANGED objects
  PROVE  RunsInv'
<1> DEFINE i == run[p].row + 1
           there == [run[p] EXCEPT !.row = i, !.failed = failed, !.pc = RowStart(Job(p), i)]
<1>1. run \in [Runs -> RunState] /\ i \in Nat \ {0}
  BY DEF TypeInv, WorkerTypeOK, RunState
<1>2. /\ RowStart(Job(p), i) \in {"finish", "vendor", "failRow"}
      /\ RowStart(Job(p), i) # "finish" => i \in DOMAIN FileOf[Job(p)]
      /\ RowStart(Job(p), i) = "vendor" => FileOf[Job(p)][i] \in Codes
  BY <1>1, RowStartIsSafe
<1>3. /\ there \in RunState
      /\ there.row = i /\ there.pc = RowStart(Job(p), i)
      /\ there.job = run[p].job /\ there.object = run[p].object
  <2>1. RowStart(Job(p), i) \in Statements \cup {"idle"} /\ run[p] \in RunState /\ i \in Nat
    BY <1>1, <1>2 DEF Statements
  <2> HIDE DEF i
  <2>2. QED
    BY <2>1 DEF RunState
<1>4. run' = [run EXCEPT ![p] = there]
  BY <1>1
<1> HIDE DEF there, i
<1>5. run'[p] = there /\ \A q \in Runs \ {p} : run'[q] = run[q]
  BY <1>1, <1>4
<1>6. run' \in [Runs -> RunState]
  BY <1>1, <1>3, <1>4
<1>7. ASSUME NEW q \in Runs
      PROVE  /\ At(q, "idle")' \/ Job(q)' \in Jobs
             /\ run'[q].pc \in {"vendor", "recordRow", "auditRow", "failRow"} =>
                  Job(q)' \in ImportJobs /\ run'[q].row \in DOMAIN FileOf[Job(q)']
             /\ run'[q].pc \in {"upload", "file"} => Job(q)' \in ExportJobs
             /\ At(q, "file")' => run'[q].object > 0
             /\ run'[q].object <= objects
             /\ At(q, "vendor")' => FileOf[Job(q)'][run'[q].row] \in Codes
  <2>1. CASE q = p
    BY <1>2, <1>3, <1>5, <2>1 DEF TypeInv, WorkerTypeOK, At, Job, Jobs
  <2>2. CASE q # p
    BY <1>5, <2>2 DEF TypeInv, WorkerTypeOK, At, Job
  <2>3. QED
    BY <2>1, <2>2
<1>8. QED
  BY <1>6, <1>7 DEF RunsInv

LEMMA WorkerTypeStep == TypeInv /\ [WorkerNext]_workerVars => TypeInv'
<1> SUFFICES ASSUME TypeInv, [WorkerNext]_workerVars PROVE TypeInv'
  OBVIOUS
<1> USE DEF TypeInv, WorkerTypeOK, At, Job
<1>1. ASSUME NEW j \in Jobs, CreateJob(j) PROVE TypeInv'
  BY <1>1 DEF CreateJob, JobStatuses
<1>2. ASSUME NEW p \in Runs, NEW jobs \in {ImportJobs, ExportJobs}, Find(p, jobs)
      PROVE TypeInv'
  <2>1. PICK j \in jobs :
          run' = [run EXCEPT ![p] = [Idle EXCEPT !.pc = "claim", !.job = j]]
    BY <1>2 DEF Find
  <2>2. j \in Jobs
    BY DEF Jobs
  <2> DEFINE found == [Idle EXCEPT !.pc = "claim", !.job = j]
  <2>3. /\ found \in RunState
        /\ found.pc = "claim" /\ found.job = j /\ found.object = 0
    BY <2>2, IdleIsRunState DEF Idle, RunState, Statements
  <2>4. run' \in [Runs -> RunState] /\ \A q \in Runs : run'[q] = IF q = p THEN found ELSE run[q]
    BY <2>1, <2>3
  <2>5. UNCHANGED <<jobVars, faults>>
    BY <1>2 DEF Find
  <2>6. \A q \in Runs : /\ run'[q].pc = IF q = p THEN "claim" ELSE run[q].pc
                        /\ run'[q].job = IF q = p THEN j ELSE run[q].job
                        /\ run'[q].object = IF q = p THEN 0 ELSE run[q].object
                        /\ q # p => run'[q].row = run[q].row
    BY <2>3, <2>4
  <2>7. run' \in [Runs -> RunState] /\ objects \in Nat
    BY <2>4
  <2> HIDE DEF found
  <2>8. QED
    BY <2>2, <2>5, <2>6, <2>7 DEF jobVars
<1>3. ASSUME NEW p \in Runs, Claim(p) PROVE TypeInv'
  <2>1. CASE Claimable(Job(p), run[p].age)
    <3>1. TakeJob(p)
      BY <1>3, <2>1 DEF Claim
    <3>2. Job(p) \in Jobs /\ run[p].age \in 0..MaxAge
      BY <1>3 DEF Claim, RunState
    <3>3. status' \in [Jobs -> JobStatuses] /\ age' \in [Jobs -> 0..MaxAge]
      BY <3>1, <3>2 DEF TakeJob, JobStatuses
    <3>4. \A q \in Runs : run'[q] \in RunState
      <4>1. SUFFICES ASSUME NEW q \in Runs PROVE run'[q] \in RunState
        OBVIOUS
      <4>2. run[q] \in RunState /\ "open" \in Statements
        BY DEF Statements
      <4>3. \/ run'[q] = run[q]
            \/ run'[q] = [run[q] EXCEPT !.alone = FALSE]
            \/ \E b \in BOOLEAN : run'[q] = [run[q] EXCEPT !.pc = "open", !.alone = b]
        BY <3>1 DEF TakeJob
      <4>4. CASE run'[q] = [run[q] EXCEPT !.alone = FALSE]
        BY <4>2, <4>4 DEF RunState
      <4>5. CASE \E b \in BOOLEAN : run'[q] = [run[q] EXCEPT !.pc = "open", !.alone = b]
        BY <4>2, <4>5 DEF RunState
      <4>6. QED
        BY <4>2, <4>3, <4>4, <4>5
    <3>5. run' = [q \in Runs |-> run'[q]]
      BY <3>1 DEF TakeJob
    <3>6. \A q \in Runs : /\ run'[q].pc = IF q = p THEN "open" ELSE run[q].pc
                          /\ run'[q].job = run[q].job
                          /\ run'[q].row = run[q].row
                          /\ run'[q].object = run[q].object
      <4>1. SUFFICES ASSUME NEW q \in Runs
                     PROVE  /\ run'[q].pc = IF q = p THEN "open" ELSE run[q].pc
                            /\ run'[q].job = run[q].job
                            /\ run'[q].row = run[q].row
                            /\ run'[q].object = run[q].object
        OBVIOUS
      <4>2. run[q] \in RunState
        OBVIOUS
      <4>3. /\ q = p => \E b \in BOOLEAN : run'[q] = [run[q] EXCEPT !.pc = "open", !.alone = b]
            /\ q # p => \/ run'[q] = run[q]
                        \/ run'[q] = [run[q] EXCEPT !.alone = FALSE]
        BY <3>1 DEF TakeJob
      <4>4. QED
        BY <4>2, <4>3 DEF RunState
    <3>7. QED
      BY <1>3, <3>2, <3>3, <3>4, <3>5, <3>6 DEF Claim
  <2>2. CASE ~Claimable(Job(p), run[p].age)
    <3>1. /\ run' \in [Runs -> RunState]
          /\ \A q \in Runs : run'[q] = IF q = p THEN Idle ELSE run[q]
      BY <1>3, <2>2, IdleIsRunState DEF Claim, End
    <3>2. Idle.pc = "idle" /\ Idle.object = 0
      BY DEF Idle
    <3>3. QED
      BY <1>3, <2>2, <3>1, <3>2 DEF Claim
  <2>3. QED
    BY <2>1, <2>2
<1>4. ASSUME NEW p \in Runs, OpenImport(p) PROVE TypeInv'
  BY <1>4, RowStartIsSafe DEF OpenImport, jobVars, RunState, Statements
<1>5. ASSUME NEW p \in Runs, SaveVendor(p) PROVE TypeInv'
  BY <1>5 DEF SaveVendor, Goto, RunState, Statements
<1>6. ASSUME NEW p \in Runs, RecordRow(p) PROVE TypeInv'
  <2>1. /\ Job(p) \in ImportJobs /\ run[p].row \in DOMAIN FileOf[Job(p)]
        /\ Record(p, "SUCCEEDED") /\ "SUCCEEDED" \in Finished
    BY <1>6 DEF RecordRow, Finished
  <2>2. /\ DOMAIN rows' = ImportJobs
        /\ \A j \in ImportJobs : /\ DOMAIN rows'[j] \subseteq DOMAIN FileOf[j]
                                 /\ \A i \in DOMAIN rows'[j] : rows'[j][i] \in Finished
    BY <2>1, RecordedRows
  <2>3. QED
    BY <1>6, <2>1, <2>2 DEF RecordRow, Goto, RunState, Statements
<1>7. ASSUME NEW p \in Runs, AuditRow(p) PROVE TypeInv'
  <2>1. /\ Job(p) \in ImportJobs /\ run[p].failed \in BOOLEAN
        /\ UNCHANGED <<jobVars, faults>>
    BY <1>7 DEF AuditRow, RunState
  <2>2. run' = [run EXCEPT ![p].row = run[p].row + 1, ![p].failed = run[p].failed,
                           ![p].pc = RowStart(Job(p), run[p].row + 1)]
    BY <1>7 DEF AuditRow, NextRow
  <2>3. RunsInv'
    BY <2>1, <2>2, AtNextRow DEF jobVars
  <2>4. QED
    BY <2>1, <2>3 DEF RunsInv, jobVars
<1>8. ASSUME NEW p \in Runs, FailRow(p) PROVE TypeInv'
  <2>1. Job(p) \in ImportJobs /\ run[p].row \in DOMAIN FileOf[Job(p)]
    BY <1>8 DEF FailRow
  <2>2. /\ DOMAIN rows' = ImportJobs
        /\ \A j \in ImportJobs : /\ DOMAIN rows'[j] \subseteq DOMAIN FileOf[j]
                                 /\ \A i \in DOMAIN rows'[j] : rows'[j][i] \in Finished
    <3>1. Record(p, "FAILED") /\ "FAILED" \in Finished
      BY <1>8 DEF FailRow, Finished
    <3>2. QED
      BY <2>1, <3>1, RecordedRows
  <2>3. run' = [run EXCEPT ![p].row = run[p].row + 1, ![p].failed = TRUE,
                           ![p].pc = RowStart(Job(p), run[p].row + 1)]
    BY <1>8 DEF FailRow, NextRow
  <2>4. RunsInv'
    BY <1>8, <2>1, <2>3, AtNextRow DEF FailRow
  <2>5. QED
    BY <1>8, <2>2, <2>4 DEF FailRow, RunsInv
<1>9. ASSUME NEW p \in Runs, FinishImport(p) PROVE TypeInv'
  BY <1>9, IdleIsRunState DEF FinishImport, Finish, Goto, RunState, Statements, JobStatuses
<1>10. ASSUME NEW p \in Runs, OpenExport(p) PROVE TypeInv'
  BY <1>10 DEF OpenExport, Goto, jobVars, RunState, Statements
<1>11. ASSUME NEW p \in Runs, Upload(p) PROVE TypeInv'
  BY <1>11 DEF Upload, RunState, Statements
<1>12. ASSUME NEW p \in Runs, CreateFile(p) PROVE TypeInv'
  BY <1>12 DEF CreateFile, Goto, RunState, Statements
<1>13. ASSUME NEW p \in Runs, FinishExport(p) PROVE TypeInv'
  BY <1>13, IdleIsRunState DEF FinishExport, Finish, Goto, RunState, Statements, JobStatuses
<1>14. ASSUME NEW p \in Runs, Audit(p) PROVE TypeInv'
  BY <1>14, IdleIsRunState DEF Audit, End, jobVars, Idle, RunState
<1>15. ASSUME NEW p \in Runs, Fail(p) PROVE TypeInv'
  BY <1>15, IdleIsRunState DEF Fail, Finish, End, Idle, RunState, JobStatuses
<1>16. ASSUME NEW p \in Runs, Error(p) PROVE TypeInv'
  <2>1. faults' \in 0..MaxFaults
    BY <1>16, WorkerJobsAssumption DEF Error
  <2>2. /\ Handler(run[p].pc) \in {"failRow", "fail"}
        /\ Handler(run[p].pc) = "failRow" => run[p].pc \in {"vendor", "recordRow", "auditRow"}
    BY DEF Handler
  <2>3. run' = [run EXCEPT ![p].pc = Handler(run[p].pc)] /\ UNCHANGED jobVars /\ run[p].pc # "idle"
    BY <1>16 DEF Error, Goto
  <2>4. QED
    BY <2>1, <2>2, <2>3 DEF jobVars, RunState, Statements
<1>17. CASE Crash
  <2>1. run' \in [Runs -> RunState] /\ \A q \in Runs : run'[q] = Idle
    BY <1>17, IdleIsRunState DEF Crash
  <2>2. Idle.pc = "idle" /\ Idle.object = 0
    BY DEF Idle
  <2>3. faults' \in 0..MaxFaults
    BY <1>17, WorkerJobsAssumption DEF Crash
  <2>4. QED
    BY <1>17, <2>1, <2>2, <2>3 DEF Crash, jobVars
<1>18. CASE TimePasses
  BY <1>18, IdleIsRunState DEF TimePasses, Older, RunState
<1>19. CASE UNCHANGED workerVars
  BY <1>19 DEF workerVars, jobVars
<1>20. QED
  BY <1>1, <1>2, <1>3, <1>4, <1>5, <1>6, <1>7, <1>8, <1>9, <1>10, <1>11, <1>12, <1>13,
     <1>14, <1>15, <1>16, <1>17, <1>18, <1>19 DEF WorkerNext, Step

\* The rows of jobs and the worker's local values have their types, whatever the
\* jobs, the files, the overlap of ticks and the faults.
THEOREM WorkerTypeCorrect == WorkerSpec => []WorkerTypeOK
<1>1. WorkerInit => TypeInv
  BY WorkerTypeInit
<1>2. TypeInv /\ [WorkerNext]_workerVars => TypeInv'
  BY WorkerTypeStep
<1>3. TypeInv => WorkerTypeOK
  BY DEF TypeInv
<1>4. QED
  BY <1>1, <1>2, <1>3, PTL DEF WorkerSpec

(***************************************************************************)
(* Claims.  A run that holds a job is older than the stale window, or the  *)
(* job has finished, or startedAt is the run's own tick or a later one.    *)
(***************************************************************************)
ClaimInv ==
  \A p \in Runs : \A j \in Jobs : Holds(p, j) =>
    \/ run[p].age >= Stale
    \/ status[j] \in Finished
    \/ status[j] = "RUNNING" /\ age[j] <= run[p].age

\* A step that changes neither claims nor ages: every run keeps its job and its
\* age, or lets go of its job; a job keeps its status or finishes.
Quiet ==
  /\ \A p \in Runs : \A j \in Jobs : Holds(p, j)' => Holds(p, j) /\ run'[p].age = run[p].age
  /\ \A j \in Jobs : \/ status'[j] = status[j] /\ age'[j] = age[j]
                     \/ status'[j] \in Finished
                     \/ status[j] = "NONE" /\ status'[j] = "PENDING"

LEMMA QuietKeepsClaims ==
  ASSUME ClaimInv, OneFreshRun, Quiet
  PROVE  ClaimInv' /\ OneFreshRun'
<1>1. ClaimInv'
  BY DEF ClaimInv, Quiet, Finished
<1>2. OneFreshRun'
  BY DEF OneFreshRun, Quiet
<1>3. QED
  BY <1>1, <1>2

LEMMA ClaimInit == WorkerInit => ClaimInv /\ OneFreshRun
  BY DEF WorkerInit, ClaimInv, OneFreshRun, Holds, Idle

LEMMA ClaimStep ==
  ASSUME TypeInv, ClaimInv, OneFreshRun, [WorkerNext]_workerVars
  PROVE  ClaimInv' /\ OneFreshRun'
<1>1. run \in [Runs -> RunState] /\ status \in [Jobs -> JobStatuses] /\ age \in [Jobs -> 0..MaxAge]
  BY DEF TypeInv, WorkerTypeOK
<1>2. ASSUME NEW p \in Runs, Claim(p) PROVE ClaimInv' /\ OneFreshRun'
  <2>1. CASE Claimable(Job(p), run[p].age)
    <3>1. TakeJob(p) /\ run[p].pc = "claim" /\ Job(p) \in Jobs
      BY <1>2, <2>1 DEF Claim, TypeInv, WorkerTypeOK, At
    <3>2. ASSUME NEW q \in Runs, Holds(q, Job(p)) PROVE run[q].age >= Stale
      <4>1. /\ run[p].age \in Nat /\ run[q].age \in Nat /\ age[Job(p)] \in Nat
            /\ Stale \in Nat
        <5>1. MaxAge \in Nat /\ Stale \in Nat
          BY WorkerJobsAssumption DEF MaxAge
        <5>2. run[p].age \in 0..MaxAge /\ run[q].age \in 0..MaxAge
          BY <1>1 DEF RunState
        <5>3. age[Job(p)] \in 0..MaxAge
          BY <1>1, <3>1
        <5>4. QED
          BY <5>1, <5>2, <5>3
      <4>2. \/ run[q].age >= Stale
            \/ status[Job(p)] \in Finished
            \/ status[Job(p)] = "RUNNING" /\ age[Job(p)] <= run[q].age
        BY <3>1, <3>2 DEF ClaimInv
      <4>3. \/ status[Job(p)] = "PENDING"
            \/ status[Job(p)] = "RUNNING" /\ age[Job(p)] >= Stale + run[p].age
        BY <2>1 DEF Claimable
      <4>4. CASE status[Job(p)] = "RUNNING"
        BY <4>1, <4>2, <4>3, <4>4 DEF Finished
      <4>5. CASE status[Job(p)] = "PENDING"
        BY <4>2, <4>5 DEF Finished
      <4>6. QED
        BY <4>3, <4>4, <4>5
    <3>3. \A q \in Runs : /\ run'[q].age = run[q].age /\ run'[q].job = run[q].job
                          /\ q # p => run'[q].pc = run[q].pc
      BY <1>1, <3>1 DEF TakeJob, RunState
    <3>4. \A j \in Jobs : /\ j # Job(p) => status'[j] = status[j] /\ age'[j] = age[j]
                          /\ j = Job(p) => status'[j] = "RUNNING" /\ age'[j] = run[p].age
      BY <1>1, <3>1 DEF TakeJob
    <3>5. \A q \in Runs \ {p} : \A j \in Jobs : Holds(q, j)' => Holds(q, j)
      BY <3>3 DEF Holds, Job
    <3>6. \A j \in Jobs : Holds(p, j)' => j = Job(p)
      BY <3>3 DEF Holds, Job
    <3>7. \A q \in Runs : run[q].age \in Nat
      BY <1>1, WorkerJobsAssumption DEF RunState, MaxAge
    <3>8. ClaimInv'
      BY <3>2, <3>3, <3>4, <3>5, <3>6, <3>7 DEF ClaimInv
    <3>9. OneFreshRun'
      BY <3>2, <3>3, <3>5, <3>6 DEF OneFreshRun
    <3>10. QED
      BY <3>8, <3>9
  <2>2. CASE ~Claimable(Job(p), run[p].age)
    <3>1. UNCHANGED <<status, age>> /\ run' = [run EXCEPT ![p] = Idle]
      BY <1>2, <2>2 DEF Claim, End
    <3>2. run'[p].pc = "idle" /\ \A q \in Runs \ {p} : run'[q] = run[q]
      BY <1>1, <3>1 DEF Idle
    <3>3. Quiet
      BY <3>1, <3>2 DEF Quiet, Holds, Job
    <3>4. QED
      BY <3>3, QuietKeepsClaims
  <2>3. QED
    BY <2>1, <2>2
<1>3. CASE TimePasses
  <2>1. \A p \in Runs : \A j \in Jobs :
          Holds(p, j)' => Holds(p, j) /\ run'[p].age = Older(run[p].age)
    BY <1>1, <1>3 DEF TimePasses, Holds, Job, At, RunState
  <2>2. \A j \in Jobs : /\ status'[j] = status[j]
                        /\ status[j] = "RUNNING" => age'[j] = Older(age[j])
    BY <1>1, <1>3 DEF TimePasses
  <2>3. \A x, y \in 0..MaxAge : /\ x <= y => Older(x) <= Older(y)
                                /\ x <= Older(x)
    BY WorkerJobsAssumption DEF Older, MaxAge
  <2>4. /\ \A p \in Runs : run[p].age \in 0..MaxAge /\ Older(run[p].age) \in Nat
        /\ Stale \in Nat /\ MaxAge \in Nat
    BY <1>1, WorkerJobsAssumption DEF RunState, Older, MaxAge
  <2>5. \A p \in Runs : run[p].age >= Stale => Older(run[p].age) >= Stale
    BY <2>3, <2>4
  <2>6. ClaimInv'
    BY <1>1, <2>1, <2>2, <2>3, <2>4, <2>5 DEF ClaimInv
  <2>7. OneFreshRun'
    BY <2>1, <2>5 DEF OneFreshRun
  <2>8. QED
    BY <2>6, <2>7
<1>4. CASE \E j \in Jobs : CreateJob(j)
  <2>1. Quiet
    BY <1>1, <1>4 DEF CreateJob, Quiet, Holds, Job
  <2>2. QED
    BY <2>1, QuietKeepsClaims
<1>5. ASSUME NEW p \in Runs, Find(p, ImportJobs) \/ Find(p, ExportJobs)
      PROVE ClaimInv' /\ OneFreshRun'
  <2>1. Quiet
    BY <1>1, <1>5 DEF Find, jobVars, Quiet, Holds, Job, Idle
  <2>2. QED
    BY <2>1, QuietKeepsClaims
<1>6. ASSUME NEW p \in Runs,
             \/ OpenImport(p) \/ SaveVendor(p) \/ RecordRow(p) \/ AuditRow(p) \/ FailRow(p)
             \/ OpenExport(p) \/ Upload(p) \/ CreateFile(p) \/ Error(p)
      PROVE ClaimInv' /\ OneFreshRun'
  <2>1. UNCHANGED <<status, age>>
    BY <1>6 DEF OpenImport, SaveVendor, RecordRow, AuditRow, FailRow, OpenExport, Upload,
                CreateFile, Error, jobVars
  <2>2. /\ \A q \in Runs : /\ run'[q].age = run[q].age /\ run'[q].job = run[q].job
                           /\ q # p => run'[q].pc = run[q].pc
        /\ run[p].pc \notin {"idle", "claim"}
    BY <1>1, <1>6 DEF OpenImport, SaveVendor, RecordRow, AuditRow, FailRow, OpenExport, Upload,
                CreateFile, Error, NextRow, Goto, At, RunState
  <2>3. Quiet
    BY <2>1, <2>2 DEF Quiet, Holds, Job
  <2>4. QED
    BY <2>3, QuietKeepsClaims
<1>7. ASSUME NEW p \in Runs,
             FinishImport(p) \/ FinishExport(p) \/ Audit(p) \/ Fail(p)
      PROVE ClaimInv' /\ OneFreshRun'
  <2>1. \A j \in Jobs : \/ status'[j] = status[j] /\ age'[j] = age[j]
                        \/ status'[j] \in Finished
    BY <1>1, <1>7 DEF FinishImport, FinishExport, Audit, Fail, Finish, Finished, jobVars
  <2>2. /\ \A q \in Runs \ {p} : run'[q] = run[q]
        /\ \/ run'[p].pc = "idle"
           \/ run'[p].age = run[p].age /\ run'[p].job = run[p].job
        /\ run[p].pc \notin {"idle", "claim"}
    BY <1>1, <1>7 DEF FinishImport, FinishExport, Audit, Fail, Goto, End, At, Idle, RunState
  <2>3. Quiet
    BY <2>1, <2>2 DEF Quiet, Holds, Job
  <2>4. QED
    BY <2>3, QuietKeepsClaims
<1>8. CASE Crash
  <2>1. Quiet
    BY <1>8 DEF Crash, jobVars, Quiet, Holds, Idle
  <2>2. QED
    BY <2>1, QuietKeepsClaims
<1>9. CASE UNCHANGED workerVars
  <2>1. Quiet
    BY <1>9 DEF workerVars, jobVars, Quiet, Holds, Job
  <2>2. QED
    BY <2>1, QuietKeepsClaims
<1>10. QED
  BY <1>2, <1>3, <1>4, <1>5, <1>6, <1>7, <1>8, <1>9 DEF WorkerNext, Step

\* Two runs work on one job together only if one of them started at least
\* WORKER_JOB_STALE_MS ago, for any number of overlapping ticks, claim delay and
\* faults: the conditional update of the claim is enough.
THEOREM ClaimsAreExclusive == WorkerSpec => []OneFreshRun
<1>1. WorkerInit => TypeInv /\ ClaimInv /\ OneFreshRun
  BY WorkerTypeInit, ClaimInit
<1>2. TypeInv /\ ClaimInv /\ OneFreshRun /\ [WorkerNext]_workerVars
        => (TypeInv /\ ClaimInv /\ OneFreshRun)'
  BY WorkerTypeStep, ClaimStep
<1>3. QED
  BY <1>1, <1>2, PTL DEF WorkerSpec

\* A finished job is never queued or claimed again.
THEOREM FinishedIsFinal == WorkerSpec => FinishedStaysFinished
<1> DEFINE Stays == \A j \in Jobs : status[j] \in Finished => status'[j] \in Finished
<1>1. ASSUME TypeInv, [WorkerNext]_workerVars PROVE Stays
  <2>1. status \in [Jobs -> JobStatuses]
    BY <1>1 DEF TypeInv, WorkerTypeOK
  <2>2. CASE \E j \in Jobs : CreateJob(j)
    BY <2>1, <2>2 DEF CreateJob, Finished
  <2>3. ASSUME NEW p \in Runs, Step(p) PROVE Stays
    BY <2>1, <2>3 DEF Step, Claim, TakeJob, Claimable, OpenImport, SaveVendor, RecordRow,
         AuditRow, FailRow, FinishImport, OpenExport, Upload, CreateFile, FinishExport,
         Audit, Fail, Finish, Finished, jobVars
  <2>4. ASSUME NEW p \in Runs, Find(p, ImportJobs) \/ Find(p, ExportJobs) \/ Error(p)
        PROVE Stays
    BY <2>4 DEF Find, Error, jobVars
  <2>5. CASE Crash \/ TimePasses \/ UNCHANGED workerVars
    BY <2>5 DEF Crash, TimePasses, workerVars, jobVars
  <2>6. QED
    BY <1>1, <2>2, <2>3, <2>4, <2>5 DEF WorkerNext
<1>2. TypeInv /\ [WorkerNext]_workerVars => [Stays]_workerVars
  BY <1>1
<1>3. QED
  BY <1>2, WorkerTypeInit, WorkerTypeStep, PTL DEF WorkerSpec, FinishedStaysFinished

(***************************************************************************)
(* Results.  The loop over the rows of an import has saved the rows behind *)
(* it, unless one has failed; the result of an export belongs to one run   *)
(* and then to one job.                                                    *)
(***************************************************************************)
Saved(j, k) == k \in DOMAIN rows[j] /\ FileOf[j][k] \in vendors

InLoop(p) ==
  /\ Job(p) \in ImportJobs
  /\ run[p].pc \in {"vendor", "recordRow", "auditRow", "failRow", "finish"}

LoopInv(p) ==
  /\ ~run[p].failed => \A k \in DOMAIN FileOf[Job(p)] : k < run[p].row => Saved(Job(p), k)
  /\ At(p, "recordRow") => FileOf[Job(p)][run[p].row] \in vendors
  /\ At(p, "auditRow") => Saved(Job(p), run[p].row)
  /\ At(p, "finish") => \A k \in DOMAIN FileOf[Job(p)] : k < run[p].row

ImportInv ==
  /\ \A p \in Runs : InLoop(p) => LoopInv(p)
  /\ \A j \in ImportJobs : status[j] = "SUCCEEDED" =>
       \A i \in DOMAIN FileOf[j] : Saved(j, i)

ExportInv ==
  /\ \A p, q \in Runs : p # q /\ run[p].object # 0 => run[p].object # run[q].object
  /\ \A p \in Runs, k \in ExportJobs :
       run[p].object # 0 /\ resultFile[k] = run[p].object => k = Job(p)
  /\ \A j, k \in ExportJobs : j # k /\ resultFile[j] # 0 => resultFile[j] # resultFile[k]
  /\ \A p \in Runs : At(p, "finish") /\ Job(p) \in ExportJobs => run[p].object \in files
  /\ \A j \in ExportJobs : status[j] = "SUCCEEDED" => resultFile[j] \in files

\* Run q has ended or is where it was.
Untouched(q) ==
  \/ run'[q] = Idle
  \/ /\ run'[q].pc = run[q].pc /\ run'[q].job = run[q].job /\ run'[q].row = run[q].row
     /\ run'[q].failed = run[q].failed /\ run'[q].object = run[q].object

LEMMA OthersUntouched ==
  ASSUME TypeInv, NEW p \in Runs,
         Find(p, ImportJobs) \/ Find(p, ExportJobs) \/ Step(p) \/ Error(p)
  PROVE  \A q \in Runs \ {p} : Untouched(q)
<1>1. run \in [Runs -> RunState]
  BY DEF TypeInv, WorkerTypeOK
<1>2. CASE Claim(p)
  <2>1. SUFFICES ASSUME NEW q \in Runs \ {p} PROVE Untouched(q)
    OBVIOUS
  <2>2. run'[q] = run[q] \/ run'[q] = [run[q] EXCEPT !.alone = FALSE]
    BY <1>1, <1>2 DEF Claim, TakeJob, End
  <2>3. run[q] \in RunState
    BY <1>1
  <2>4. QED
    BY <2>2, <2>3 DEF Untouched, RunState
<1>3. CASE ~Claim(p)
  <2>1. CASE Find(p, ImportJobs) \/ Find(p, ExportJobs)
    <3>1. PICK found : run' = [run EXCEPT ![p] = found]
      BY <2>1 DEF Find
    <3>2. QED
      BY <1>1, <3>1 DEF Untouched
  <2>2. CASE Error(p) \/ OpenImport(p) \/ SaveVendor(p) \/ RecordRow(p)
    BY <1>1, <2>2 DEF Error, OpenImport, SaveVendor, RecordRow, Goto, Untouched
  <2>3. CASE AuditRow(p) \/ FailRow(p)
    BY <1>1, <2>3 DEF AuditRow, FailRow, NextRow, Untouched
  <2>4. CASE FinishImport(p) \/ OpenExport(p) \/ Upload(p) \/ CreateFile(p) \/ FinishExport(p)
    BY <1>1, <2>4 DEF FinishImport, OpenExport, Upload, CreateFile, FinishExport, Goto, Untouched
  <2>5. CASE Audit(p) \/ Fail(p)
    BY <1>1, <2>5 DEF Audit, Fail, End, Untouched
  <2>6. QED
    BY <1>3, <2>1, <2>2, <2>3, <2>4, <2>5 DEF Step
<1>4. QED
  BY <1>2, <1>3

LEMMA SavedGrows ==
  ASSUME TypeInv, [WorkerNext]_workerVars
  PROVE  /\ vendors \subseteq vendors'
         /\ \A j \in ImportJobs : DOMAIN rows[j] \subseteq DOMAIN rows'[j]
<1>1. ASSUME NEW p \in Runs, RecordRow(p) \/ FailRow(p)
      PROVE  /\ vendors' = vendors
             /\ \A j \in ImportJobs : DOMAIN rows[j] \subseteq DOMAIN rows'[j]
  <2>1. Job(p) \in ImportJobs /\ run[p].row \in DOMAIN FileOf[Job(p)]
    BY <1>1 DEF RecordRow, FailRow, TypeInv, WorkerTypeOK, At
  <2>2. \E outcome \in Finished : Record(p, outcome)
    BY <1>1 DEF RecordRow, FailRow, Finished
  <2>3. vendors' = vendors
    BY <1>1 DEF RecordRow, FailRow
  <2>4. QED
    BY <2>1, <2>2, <2>3, RecordedRows
<1>2. ASSUME NEW p \in Runs, Step(p), ~RecordRow(p), ~FailRow(p)
      PROVE  rows' = rows /\ vendors \subseteq vendors'
  BY <1>2 DEF Step, Claim, OpenImport, SaveVendor, AuditRow, FinishImport, OpenExport, Upload,
       CreateFile, FinishExport, Audit, Fail, jobVars
<1>3. ASSUME NEW p \in Runs, Find(p, ImportJobs) \/ Find(p, ExportJobs) \/ Error(p)
      PROVE  rows' = rows /\ vendors' = vendors
  BY <1>3 DEF Find, Error, jobVars
<1>4. CASE Crash \/ TimePasses \/ UNCHANGED workerVars \/ \E j \in Jobs : CreateJob(j)
  BY <1>4 DEF Crash, TimePasses, CreateJob, workerVars, jobVars
<1>5. QED
  BY <1>1, <1>2, <1>3, <1>4 DEF WorkerNext, Step

LEMMA LoopKept ==
  ASSUME TypeInv, ImportInv, [WorkerNext]_workerVars, NEW q \in Runs, Untouched(q), InLoop(q)'
  PROVE  LoopInv(q)'
<1>1. Idle.pc = "idle"
  BY DEF Idle
<1>2. /\ run'[q].pc = run[q].pc /\ run'[q].job = run[q].job /\ run'[q].row = run[q].row
      /\ run'[q].failed = run[q].failed
  BY <1>1 DEF Untouched, InLoop
<1>3. InLoop(q) /\ LoopInv(q)
  BY <1>2 DEF ImportInv, InLoop, Job
<1>4. \A k : Saved(Job(q), k) => Saved(Job(q), k)'
  BY <1>2, <1>3, SavedGrows DEF Saved, InLoop, Job
<1>5. vendors \subseteq vendors'
  BY SavedGrows
<1>6. QED
  BY <1>2, <1>3, <1>4, <1>5 DEF LoopInv, At, Job

LEMMA ImportStep ==
  ASSUME TypeInv, ImportInv, [WorkerNext]_workerVars
  PROVE  ImportInv'
<1>1. /\ run \in [Runs -> RunState] /\ status \in [Jobs -> JobStatuses]
      /\ \A q \in Runs : run[q].row \in Nat
  BY DEF TypeInv, WorkerTypeOK, RunState
<1>2. \A j \in ImportJobs : \A k : Saved(j, k) => Saved(j, k)'
  BY SavedGrows DEF Saved
<1>3. \A j \in ImportJobs : j \in Jobs
  BY DEF Jobs
<1>4. ASSUME \A q \in Runs : Untouched(q),
             \A j \in ImportJobs : status'[j] = "SUCCEEDED" => status[j] = "SUCCEEDED"
      PROVE  ImportInv'
  BY <1>2, <1>4, LoopKept DEF ImportInv
<1>5. ASSUME NEW p \in Runs, \A q \in Runs \ {p} : Untouched(q),
             InLoop(p)' => LoopInv(p)',
             \A j \in ImportJobs : status'[j] = "SUCCEEDED" => status[j] = "SUCCEEDED"
      PROVE  ImportInv'
  BY <1>2, <1>5, LoopKept DEF ImportInv
\* The loop goes on to row i: the rows before it are saved, unless one failed.
<1>6. ASSUME NEW p \in Runs, Job(p) \in ImportJobs, NEW i \in Nat \ {0}, NEW failed \in BOOLEAN,
             run' = [run EXCEPT ![p].row = i, ![p].failed = failed, ![p].pc = RowStart(Job(p), i)],
             ~failed => \A k \in DOMAIN FileOf[Job(p)] : k < i => Saved(Job(p), k)'
      PROVE  LoopInv(p)'
  <2>1. /\ run'[p].row = i /\ run'[p].failed = failed /\ run'[p].job = run[p].job
        /\ run'[p].pc = RowStart(Job(p), i)
    BY <1>1, <1>6 DEF RunState
  <2>2. RowStart(Job(p), i) = "finish" => \A k \in DOMAIN FileOf[Job(p)] : k < i
    <3>1. FileOf[Job(p)] \in Seq(Codes \cup {NoCode})
      BY <1>6, WorkerJobsAssumption
    <3>2. QED
      BY <3>1 DEF RowStart
  <2>3. RowStart(Job(p), i) \in {"finish", "vendor", "failRow"}
    BY <1>6, RowStartIsSafe
  <2>4. QED
    BY <1>6, <2>1, <2>2, <2>3 DEF LoopInv, At, Job
<1>7. ASSUME NEW p \in Runs, Step(p) PROVE ImportInv'
  <2>1. \A q \in Runs \ {p} : Untouched(q)
    BY <1>7, OthersUntouched
  <2>2. CASE OpenImport(p)
    <3>1. Job(p) \in ImportJobs /\ UNCHANGED status
      BY <2>2 DEF OpenImport, jobVars
    <3>2. run' = [run EXCEPT ![p].row = 1, ![p].failed = run[p].failed, ![p].pc = RowStart(Job(p), 1)]
      BY <1>1, <2>2 DEF OpenImport, RunState
    <3>3. \A k \in DOMAIN FileOf[Job(p)] : ~(k < 1)
      <4>1. FileOf[Job(p)] \in Seq(Codes \cup {NoCode})
        BY <3>1, WorkerJobsAssumption
      <4>2. QED
        BY <4>1
    <3>4. run[p].failed \in BOOLEAN
      BY <1>1 DEF RunState
    <3>5. ~run[p].failed => \A k \in DOMAIN FileOf[Job(p)] : k < 1 => Saved(Job(p), k)'
      BY <3>3
    <3>6. 1 \in Nat \ {0}
      OBVIOUS
    <3>7. LoopInv(p)'
      BY <1>6, <3>1, <3>2, <3>4, <3>5, <3>6
    <3>8. QED
      BY <1>5, <2>1, <3>1, <3>7
  <2>3. CASE SaveVendor(p)
    <3>1. UNCHANGED status /\ At(p, "vendor")
      BY <2>3 DEF SaveVendor
    <3>2. InLoop(p) /\ LoopInv(p)
      BY <3>1 DEF ImportInv, InLoop, TypeInv, WorkerTypeOK, At
    <3>3. /\ run'[p].pc = "recordRow" /\ run'[p].job = run[p].job
          /\ run'[p].row = run[p].row /\ run'[p].failed = run[p].failed
      BY <1>1, <2>3 DEF SaveVendor, Goto, RunState
    <3>4. FileOf[Job(p)][run[p].row] \in vendors'
      BY <2>3 DEF SaveVendor
    <3>5. LoopInv(p)'
      BY <1>2, <3>2, <3>3, <3>4 DEF LoopInv, InLoop, At, Job
    <3>6. QED
      BY <1>5, <2>1, <3>1, <3>5
  <2>4. CASE RecordRow(p)
    <3>1. UNCHANGED <<status, vendors>> /\ At(p, "recordRow")
      BY <2>4 DEF RecordRow
    <3>2. InLoop(p) /\ LoopInv(p) /\ run[p].row \in DOMAIN FileOf[Job(p)]
      BY <3>1 DEF ImportInv, InLoop, TypeInv, WorkerTypeOK, At
    <3>3. /\ run'[p].pc = "auditRow" /\ run'[p].job = run[p].job
          /\ run'[p].row = run[p].row /\ run'[p].failed = run[p].failed
      BY <1>1, <2>4 DEF RecordRow, Goto, RunState
    <3>4. Saved(Job(p), run[p].row)'
      <4>1. Record(p, "SUCCEEDED") /\ "SUCCEEDED" \in Finished
        BY <2>4 DEF RecordRow, Finished
      <4>2. run[p].row \in DOMAIN rows'[Job(p)]
        BY <3>2, <4>1, RecordedRows DEF InLoop
      <4>3. QED
        BY <3>1, <3>2, <3>3, <4>2 DEF Saved, LoopInv, Job
    <3>5. LoopInv(p)'
      BY <1>2, <3>2, <3>3, <3>4 DEF LoopInv, InLoop, At, Job
    <3>6. QED
      BY <1>5, <2>1, <3>1, <3>5
  <2>5. CASE AuditRow(p) \/ FailRow(p)
    <3>1. UNCHANGED status /\ (At(p, "auditRow") \/ At(p, "failRow"))
      BY <2>5 DEF AuditRow, FailRow, jobVars
    <3>2. InLoop(p) /\ LoopInv(p) /\ run[p].row \in DOMAIN FileOf[Job(p)]
      BY <3>1 DEF ImportInv, InLoop, TypeInv, WorkerTypeOK, At
    <3>3. DOMAIN FileOf[Job(p)] \subseteq Nat \ {0}
      <4>1. FileOf[Job(p)] \in Seq(Codes \cup {NoCode})
        BY <3>2, WorkerJobsAssumption DEF InLoop
      <4>2. QED
        BY <4>1
    <3>4. run[p].row + 1 \in Nat \ {0} /\ run[p].failed \in BOOLEAN
      BY <1>1 DEF RunState
    <3>5. PICK failed \in BOOLEAN :
            /\ run' = [run EXCEPT ![p].row = run[p].row + 1, ![p].failed = failed,
                                  ![p].pc = RowStart(Job(p), run[p].row + 1)]
            /\ ~failed => At(p, "auditRow") /\ ~run[p].failed
      BY <2>5, <3>4 DEF AuditRow, FailRow, NextRow
    <3>6. ~failed => \A k \in DOMAIN FileOf[Job(p)] : k < run[p].row + 1 => Saved(Job(p), k)
      BY <1>1, <3>2, <3>3, <3>5 DEF LoopInv
    <3>7. ~failed => \A k \in DOMAIN FileOf[Job(p)] : k < run[p].row + 1 => Saved(Job(p), k)'
      <4>1. UNCHANGED <<run[p].job>>
        BY <1>1, <3>5 DEF RunState
      <4>2. QED
        BY <1>2, <3>2, <3>6, <4>1 DEF InLoop, Job
    <3>8. LoopInv(p)'
      BY <1>6, <3>2, <3>4, <3>5, <3>7 DEF InLoop
    <3>9. QED
      BY <1>5, <2>1, <3>1, <3>8
  <2>6. CASE FinishImport(p)
    <3>1. At(p, "finish") /\ Job(p) \in ImportJobs /\ InLoop(p) /\ LoopInv(p)
      BY <2>6 DEF FinishImport, ImportInv, InLoop, At
    <3>2. run'[p].pc = "audit"
      BY <1>1, <2>6 DEF FinishImport, Goto
    <3>3. status' = [status EXCEPT ![Job(p)] = IF run[p].failed THEN "FAILED" ELSE "SUCCEEDED"]
      BY <2>6 DEF FinishImport, Finish
    <3>4. ~run[p].failed => \A k \in DOMAIN FileOf[Job(p)] : Saved(Job(p), k)
      BY <3>1 DEF LoopInv
    <3>5. \A j \in ImportJobs : status'[j] = "SUCCEEDED" =>
            \A i \in DOMAIN FileOf[j] : Saved(j, i)
      BY <1>1, <1>3, <3>3, <3>4 DEF ImportInv
    <3>6. ~InLoop(p)'
      BY <3>2 DEF InLoop
    <3>7. QED
      BY <1>2, <2>1, <3>5, <3>6, LoopKept DEF ImportInv
  <2>7. CASE Claim(p) \/ OpenExport(p) \/ Upload(p) \/ CreateFile(p) \/ FinishExport(p)
             \/ Audit(p) \/ Fail(p)
    <3>1. \A j \in ImportJobs : status'[j] = "SUCCEEDED" => status[j] = "SUCCEEDED"
      BY <1>1, <1>3, <2>7, WorkerJobsAssumption DEF Claim, TakeJob, OpenExport, Upload,
           CreateFile, FinishExport, Audit, Fail, Finish, jobVars
    <3>2. ~InLoop(p)'
      <4>1. CASE Claim(p)
        <5>1. \/ run'[p] = Idle
              \/ \E b \in BOOLEAN : run'[p] = [run[p] EXCEPT !.pc = "open", !.alone = b]
          BY <1>1, <4>1 DEF Claim, TakeJob, End
        <5>2. run[p] \in RunState
          BY <1>1
        <5>3. run'[p].pc \in {"idle", "open"}
          <6>1. CASE run'[p] = Idle
            BY <6>1 DEF Idle
          <6>2. CASE \E b \in BOOLEAN : run'[p] = [run[p] EXCEPT !.pc = "open", !.alone = b]
            BY <5>2, <6>2 DEF RunState
          <6>3. QED
            BY <5>1, <6>1, <6>2
        <5>4. QED
          BY <5>3 DEF InLoop
      <4>2. CASE OpenExport(p) \/ Upload(p) \/ CreateFile(p) \/ FinishExport(p)
        <5>1. Job(p) \in ExportJobs
          BY <4>2 DEF OpenExport, Upload, CreateFile, FinishExport, TypeInv, WorkerTypeOK, At
        <5>2. run'[p].job = run[p].job
          BY <1>1, <4>2 DEF OpenExport, Upload, CreateFile, FinishExport, Goto, RunState
        <5>3. QED
          BY <5>1, <5>2, WorkerJobsAssumption DEF InLoop, Job
      <4>3. CASE Audit(p) \/ Fail(p)
        BY <1>1, <4>3 DEF Audit, Fail, End, InLoop, Idle
      <4>4. QED
        BY <2>7, <4>1, <4>2, <4>3
    <3>3. QED
      BY <1>5, <2>1, <3>1, <3>2
  <2>8. QED
    BY <1>7, <2>2, <2>3, <2>4, <2>5, <2>6, <2>7 DEF Step
<1>8. ASSUME NEW p \in Runs, Find(p, ImportJobs) \/ Find(p, ExportJobs) PROVE ImportInv'
  <2>1. UNCHANGED status
    BY <1>8 DEF Find, jobVars
  <2>2. run'[p].pc = "claim"
    BY <1>1, <1>8 DEF Find, Idle
  <2>3. ~InLoop(p)'
    BY <2>2 DEF InLoop
  <2>4. QED
    BY <1>5, <1>8, <2>1, <2>3, OthersUntouched
<1>9. ASSUME NEW p \in Runs, Error(p) PROVE ImportInv'
  <2>1. UNCHANGED status
    BY <1>9 DEF Error, jobVars
  <2>2. /\ run'[p].pc = Handler(run[p].pc) /\ run'[p].job = run[p].job
        /\ run'[p].row = run[p].row /\ run'[p].failed = run[p].failed
    BY <1>1, <1>9 DEF Error, Goto, RunState
  <2>3. InLoop(p)' => InLoop(p) /\ run'[p].pc = "failRow"
    BY <2>2 DEF InLoop, Handler, Job
  <2>4. InLoop(p)' => LoopInv(p)'
    BY <1>2, <2>2, <2>3 DEF ImportInv, InLoop, LoopInv, At, Job
  <2>5. QED
    BY <1>5, <1>9, <2>1, <2>4, OthersUntouched
<1>10. CASE Crash
  BY <1>4, <1>10 DEF Crash, jobVars, Untouched
<1>11. CASE TimePasses
  BY <1>1, <1>4, <1>11 DEF TimePasses, Untouched, At, RunState
<1>12. CASE UNCHANGED workerVars
  BY <1>4, <1>12 DEF workerVars, jobVars, Untouched
<1>13. CASE \E j \in Jobs : CreateJob(j)
  BY <1>1, <1>3, <1>4, <1>13 DEF CreateJob, Untouched
<1>14. QED
  BY <1>7, <1>8, <1>9, <1>10, <1>11, <1>12, <1>13 DEF WorkerNext

\* Run q makes no object and is not about to link one that has no file.
ObjectKept(q) ==
  /\ \/ run'[q].object = 0
     \/ run'[q].object = run[q].object /\ run'[q].job = run[q].job
  /\ run'[q].pc = "finish" /\ run'[q].job \in ExportJobs => run'[q].object \in files'

\* A step that links no object and finishes no export.
ResultsKept ==
  /\ UNCHANGED resultFile
  /\ files \subseteq files'
  /\ \A j \in ExportJobs : status'[j] = "SUCCEEDED" => status[j] = "SUCCEEDED"

LEMMA ExportStep ==
  ASSUME TypeInv, ExportInv, [WorkerNext]_workerVars
  PROVE  ExportInv'
<1>1. /\ run \in [Runs -> RunState] /\ status \in [Jobs -> JobStatuses]
      /\ \A q \in Runs : run[q].object \in Nat /\ run[q].object <= objects
      /\ objects \in Nat /\ files \subseteq 1..objects
      /\ resultFile \in [ExportJobs -> 0..objects]
  BY DEF TypeInv, WorkerTypeOK, RunState
<1>2. \A j \in ExportJobs : j \in Jobs
  BY DEF Jobs
<1>3. ASSUME ResultsKept, \A q \in Runs : ObjectKept(q) PROVE ExportInv'
  BY <1>1, <1>3 DEF ResultsKept, ObjectKept, ExportInv, At, Job
<1>4. ASSUME NEW q \in Runs, Untouched(q), ResultsKept PROVE ObjectKept(q)
  <2>1. Idle.pc = "idle" /\ Idle.object = 0
    BY DEF Idle
  <2>2. QED
    BY <1>4, <2>1 DEF Untouched, ResultsKept, ObjectKept, ExportInv, At, Job
<1>5. ASSUME NEW p \in Runs, \A q \in Runs \ {p} : Untouched(q), ResultsKept, ObjectKept(p)
      PROVE  ExportInv'
  BY <1>3, <1>4, <1>5
<1>6. ASSUME NEW p \in Runs, Step(p) PROVE ExportInv'
  <2>1. \A q \in Runs \ {p} : Untouched(q)
    BY <1>6, OthersUntouched
  <2>2. CASE Upload(p)
    <3>1. /\ run'[p].object = objects + 1 /\ run'[p].pc = "file" /\ run'[p].job = run[p].job
          /\ UNCHANGED <<status, files, resultFile>>
          /\ \A q \in Runs \ {p} : run'[q] = run[q]
      BY <1>1, <2>2 DEF Upload, RunState
    <3>2. \A q \in Runs \ {p} : run[q].object # objects + 1
      BY <1>1
    <3>3. \A k \in ExportJobs : resultFile[k] # objects + 1
      BY <1>1
    <3>4. QED
      BY <3>1, <3>2, <3>3 DEF ExportInv, At, Job
  <2>3. CASE FinishExport(p)
    <3>1. /\ At(p, "finish") /\ Job(p) \in ExportJobs
          /\ run[p].object \in files /\ run[p].object # 0
      BY <1>1, <2>3 DEF FinishExport, ExportInv
    <3>2. /\ UNCHANGED files
          /\ \A q \in Runs : run'[q].object = run[q].object /\ run'[q].job = run[q].job
          /\ run'[p].pc = "audit" /\ \A q \in Runs \ {p} : run'[q].pc = run[q].pc
      BY <1>1, <2>3 DEF FinishExport, Goto, RunState
    <3>3. \A k \in ExportJobs : /\ k = Job(p) => resultFile'[k] = run[p].object
                                /\ k # Job(p) => /\ resultFile'[k] = resultFile[k]
                                                 /\ status'[k] = status[k]
      BY <1>1, <1>2, <2>3 DEF FinishExport, Finish
    <3>4. QED
      BY <3>1, <3>2, <3>3 DEF ExportInv, At, Job
  <2>4. CASE Claim(p) \/ FinishImport(p) \/ Audit(p) \/ Fail(p)
    <3>1. UNCHANGED <<resultFile, files>>
      BY <2>4 DEF Claim, FinishImport, Audit, Fail, jobVars
    <3>2. \A j \in ExportJobs : status'[j] = "SUCCEEDED" => status[j] = "SUCCEEDED"
      BY <1>1, <1>2, <2>4, WorkerJobsAssumption
      DEF Claim, TakeJob, FinishImport, Audit, Fail, Finish, jobVars
    <3>3. \/ run'[p] = Idle
          \/ /\ run'[p].object = run[p].object /\ run'[p].job = run[p].job
             /\ run'[p].pc \in {"open", "audit"}
      <4>1. CASE Claim(p)
        <5>1. \/ run'[p] = Idle
              \/ \E b \in BOOLEAN : run'[p] = [run[p] EXCEPT !.pc = "open", !.alone = b]
          BY <1>1, <4>1 DEF Claim, TakeJob, End
        <5>2. run[p] \in RunState
          BY <1>1
        <5>3. QED
          BY <5>1, <5>2 DEF RunState
      <4>2. CASE FinishImport(p)
        BY <1>1, <4>2 DEF FinishImport, Goto, RunState
      <4>3. CASE Audit(p) \/ Fail(p)
        BY <1>1, <4>3 DEF Audit, Fail, End
      <4>4. QED
        BY <2>4, <4>1, <4>2, <4>3
    <3>4. Idle.pc = "idle" /\ Idle.object = 0
      BY DEF Idle
    <3>5. QED
      BY <1>5, <2>1, <3>1, <3>2, <3>3, <3>4 DEF ResultsKept, ObjectKept
  <2>5. CASE OpenImport(p) \/ SaveVendor(p) \/ RecordRow(p) \/ AuditRow(p) \/ FailRow(p)
    <3>1. UNCHANGED <<status, resultFile, files>> /\ Job(p) \in ImportJobs
      BY <2>5 DEF OpenImport, SaveVendor, RecordRow, AuditRow, FailRow, jobVars, TypeInv,
           WorkerTypeOK, At
    <3>2. run'[p].object = run[p].object /\ run'[p].job = run[p].job
      BY <1>1, <2>5 DEF OpenImport, SaveVendor, RecordRow, AuditRow, FailRow, NextRow, Goto,
           RunState
    <3>3. run'[p].job \notin ExportJobs
      BY <3>1, <3>2, WorkerJobsAssumption DEF Job
    <3>4. QED
      BY <1>5, <2>1, <3>1, <3>2, <3>3 DEF ResultsKept, ObjectKept
  <2>6. CASE OpenExport(p) \/ CreateFile(p)
    <3>1. UNCHANGED <<status, resultFile>> /\ files \subseteq files'
      BY <2>6 DEF OpenExport, CreateFile, jobVars
    <3>2. run'[p].object = run[p].object /\ run'[p].job = run[p].job
      BY <1>1, <2>6 DEF OpenExport, CreateFile, Goto, RunState
    <3>3. run'[p].pc = "finish" => run'[p].object \in files'
      BY <1>1, <2>6, <3>2 DEF OpenExport, CreateFile, Goto, RunState
    <3>4. QED
      BY <1>5, <2>1, <3>1, <3>2, <3>3 DEF ResultsKept, ObjectKept
  <2>7. QED
    BY <1>6, <2>2, <2>3, <2>4, <2>5, <2>6 DEF Step
<1>7. ASSUME NEW p \in Runs, Find(p, ImportJobs) \/ Find(p, ExportJobs) PROVE ExportInv'
  <2>1. UNCHANGED <<status, resultFile, files>>
    BY <1>7 DEF Find, jobVars
  <2>2. run'[p].object = 0 /\ run'[p].pc = "claim"
    BY <1>1, <1>7 DEF Find, Idle
  <2>3. \A q \in Runs \ {p} : Untouched(q)
    BY <1>7, OthersUntouched
  <2>4. QED
    BY <1>5, <2>1, <2>2, <2>3 DEF ResultsKept, ObjectKept
<1>8. ASSUME NEW p \in Runs, Error(p) PROVE ExportInv'
  <2>1. UNCHANGED <<status, resultFile, files>>
    BY <1>8 DEF Error, jobVars
  <2>2. /\ run'[p].object = run[p].object /\ run'[p].job = run[p].job
        /\ run'[p].pc # "finish"
    BY <1>1, <1>8 DEF Error, Goto, Handler, RunState
  <2>3. \A q \in Runs \ {p} : Untouched(q)
    BY <1>8, OthersUntouched
  <2>4. QED
    BY <1>5, <2>1, <2>2, <2>3 DEF ResultsKept, ObjectKept
<1>9. CASE Crash \/ TimePasses \/ UNCHANGED workerVars \/ \E j \in Jobs : CreateJob(j)
  <2>1. UNCHANGED <<resultFile, files>>
    BY <1>9 DEF Crash, TimePasses, CreateJob, workerVars, jobVars
  <2>2. \A j \in ExportJobs : status'[j] = "SUCCEEDED" => status[j] = "SUCCEEDED"
    BY <1>1, <1>2, <1>9 DEF Crash, TimePasses, CreateJob, workerVars, jobVars
  <2>3. \A q \in Runs : Untouched(q)
    BY <1>1, <1>9 DEF Crash, TimePasses, CreateJob, workerVars, jobVars, Untouched, At, RunState
  <2>4. ResultsKept
    BY <2>1, <2>2 DEF ResultsKept
  <2>5. QED
    BY <1>3, <1>4, <2>3, <2>4
<1>10. QED
  BY <1>6, <1>7, <1>8, <1>9 DEF WorkerNext

LEMMA ResultInit == WorkerInit => ImportInv /\ ExportInv
<1>1. SUFFICES ASSUME WorkerInit PROVE ImportInv /\ ExportInv
  OBVIOUS
<1>2. \A p \in Runs : run[p].pc = "idle" /\ run[p].object = 0
  BY <1>1 DEF WorkerInit, Idle
<1>3. /\ \A j \in Jobs : status[j] = "NONE"
      /\ \A j \in ExportJobs : resultFile[j] = 0
  BY <1>1 DEF WorkerInit
<1>4. ImportInv
  BY <1>2, <1>3 DEF ImportInv, InLoop, Jobs
<1>5. ExportInv
  BY <1>2, <1>3 DEF ExportInv, At, Jobs
<1>6. QED
  BY <1>4, <1>5

\* A SUCCEEDED import has recorded every row of its file and saved its vendor, a
\* SUCCEEDED export points to an uploaded file no other export points to, for any
\* files, overlap of runs, retries and faults.
THEOREM SuccessIsReal == WorkerSpec => []SucceededJobLeftItsResult
<1>1. WorkerInit => TypeInv /\ ImportInv /\ ExportInv
  BY WorkerTypeInit, ResultInit
<1>2. TypeInv /\ ImportInv /\ ExportInv /\ [WorkerNext]_workerVars
        => (TypeInv /\ ImportInv /\ ExportInv)'
  BY WorkerTypeStep, ImportStep, ExportStep
<1>3. TypeInv /\ ImportInv /\ ExportInv => SucceededJobLeftItsResult
  <2>1. ASSUME TypeInv, ImportInv, ExportInv PROVE SucceededJobLeftItsResult
    <3>1. 0 \notin files
      BY <2>1 DEF TypeInv, WorkerTypeOK
    <3>2. QED
      BY <2>1, <3>1 DEF ImportInv, ExportInv, Saved, SucceededJobLeftItsResult
  <2>2. QED
    BY <2>1
<1>4. QED
  BY <1>1, <1>2, <1>3, PTL DEF WorkerSpec

(***************************************************************************)
(* What a lone run tells.  A run that is alone has seen every other run    *)
(* let go of its import, so the rows behind it are as it recorded them,    *)
(* those an earlier run had left included; it has counted a failure        *)
(* exactly if one of them has FAILED.                                      *)
(***************************************************************************)
Tells(p) ==
  LET j == Job(p)
      behind == {k \in DOMAIN FileOf[j] : k < run[p].row}
  IN  /\ behind \subseteq DOMAIN rows[j]
      /\ run[p].failed <=> \E k \in behind : rows[j][k] # "SUCCEEDED"
      /\ At(p, "auditRow") => /\ run[p].row \in DOMAIN rows[j]
                              /\ rows[j][run[p].row] = "SUCCEEDED"
      /\ At(p, "finish") => behind = DOMAIN FileOf[j]

LoneInv ==
  \A p \in Runs :
    /\ run[p].pc \in {"idle", "claim", "open"} => ~run[p].failed
    /\ run[p].alone => /\ run[p].pc \notin {"idle", "claim"}
                       /\ \A q \in Runs \ {p} : ~Holds(q, Job(p))
    /\ run[p].alone /\ InLoop(p) => Tells(p)

\* If run q is alone after the step it was so before, is where it was, and so are the
\* rows of its import.
Undisturbed(q) ==
  run'[q].alone => /\ run[q].alone
                   /\ run'[q].pc = run[q].pc /\ run'[q].job = run[q].job
                   /\ run'[q].row = run[q].row /\ run'[q].failed = run[q].failed
                   /\ Job(q) \in ImportJobs => rows'[Job(q)] = rows[Job(q)]

\* Nobody takes a job.
NoneTaken == \A q \in Runs : \A j : Holds(q, j)' => Holds(q, j)

LEMMA UndisturbedTells ==
  ASSUME LoneInv, NEW q \in Runs, Undisturbed(q), run'[q].alone, InLoop(q)'
  PROVE  Tells(q)'
<1>1. /\ run'[q].pc = run[q].pc /\ run'[q].job = run[q].job
      /\ run'[q].row = run[q].row /\ run'[q].failed = run[q].failed
      /\ run[q].alone
  BY DEF Undisturbed
<1>2. InLoop(q) /\ Job(q) \in ImportJobs
  BY <1>1 DEF InLoop, Job
<1>3. Tells(q) /\ rows'[Job(q)] = rows[Job(q)]
  BY <1>1, <1>2 DEF LoneInv, Undisturbed
<1>4. QED
  BY <1>1, <1>3 DEF Tells, Job, At

\* A step of run p that takes no job keeps the invariant if it keeps p's part.
LEMMA LoneKept ==
  ASSUME LoneInv, NoneTaken, NEW p \in Runs,
         \A q \in Runs \ {p} : Undisturbed(q) /\ (Untouched(q) \/ ~run'[q].failed),
         run'[p].pc \in {"idle", "claim", "open"} => ~run'[p].failed,
         run'[p].alone => /\ run[p].alone /\ run'[p].job = run[p].job
                          /\ run'[p].pc \notin {"idle", "claim"},
         run'[p].alone /\ InLoop(p)' => Tells(p)'
  PROVE  LoneInv'
<1>1. \A q \in Runs : run'[q].alone => /\ run[q].alone /\ run'[q].job = run[q].job
                                       /\ run'[q].pc \notin {"idle", "claim"}
  BY DEF Undisturbed, LoneInv
<1>2. \A q \in Runs : run'[q].alone => \A r \in Runs \ {q} : ~Holds(r, Job(q))'
  BY <1>1 DEF LoneInv, NoneTaken, Holds, Job
<1>3. \A q \in Runs : run'[q].alone /\ InLoop(q)' => Tells(q)'
  BY UndisturbedTells
<1>4. \A q \in Runs : run'[q].pc \in {"idle", "claim", "open"} => ~run'[q].failed
  BY DEF LoneInv, Untouched, Idle
<1>5. QED
  BY <1>1, <1>2, <1>3, <1>4 DEF LoneInv, Job

\* Another run that is alone works on another import than p, so p's rows are not its.
LEMMA OthersUndisturbed ==
  ASSUME TypeInv, LoneInv, NEW p \in Runs,
         Find(p, ImportJobs) \/ Find(p, ExportJobs) \/ Step(p) \/ Error(p)
  PROVE  \A q \in Runs \ {p} : Undisturbed(q)
<1>1. SUFFICES ASSUME NEW q \in Runs \ {p}, run'[q].alone PROVE Undisturbed(q)
  BY DEF Undisturbed
<1>2. run \in [Runs -> RunState]
  BY DEF TypeInv, WorkerTypeOK
<1>3. run'[q] = run[q]
  <2>1. CASE Claim(p)
    <3>1. run'[q] = run[q] \/ run'[q] = [run[q] EXCEPT !.alone = FALSE]
      BY <1>2, <2>1 DEF Claim, TakeJob, End
    <3>2. run[q] \in RunState
      BY <1>2
    <3>3. QED
      BY <1>1, <3>1, <3>2 DEF RunState
  <2>2. CASE Find(p, ImportJobs) \/ Find(p, ExportJobs)
    <3>1. PICK found : run' = [run EXCEPT ![p] = found]
      BY <2>2 DEF Find
    <3>2. QED
      BY <1>2, <3>1
  <2>3. CASE Error(p) \/ OpenImport(p) \/ SaveVendor(p) \/ RecordRow(p)
    BY <1>2, <2>3 DEF Error, OpenImport, SaveVendor, RecordRow, Goto
  <2>4. CASE AuditRow(p) \/ FailRow(p)
    BY <1>2, <2>4 DEF AuditRow, FailRow, NextRow
  <2>5. CASE FinishImport(p) \/ OpenExport(p) \/ Upload(p) \/ CreateFile(p) \/ FinishExport(p)
    BY <1>2, <2>5 DEF FinishImport, OpenExport, Upload, CreateFile, FinishExport, Goto
  <2>6. CASE Audit(p) \/ Fail(p)
    BY <1>2, <2>6 DEF Audit, Fail, End
  <2>7. QED
    BY <2>1, <2>2, <2>3, <2>4, <2>5, <2>6 DEF Step
<1>4. Job(q) \in ImportJobs => rows'[Job(q)] = rows[Job(q)]
  <2>1. CASE RecordRow(p) \/ FailRow(p)
    <3>1. Holds(p, Job(p))
      BY <2>1 DEF RecordRow, FailRow, Holds, At
    <3>2. Job(p) # Job(q)
      BY <1>1, <1>3, <3>1 DEF LoneInv
    <3>3. \E new : rows' = [rows EXCEPT ![Job(p)] = new]
      BY <2>1 DEF RecordRow, FailRow, Record
    <3>4. QED
      BY <3>2, <3>3 DEF TypeInv, WorkerTypeOK
  <2>2. CASE ~RecordRow(p) /\ ~FailRow(p)
    BY <2>2 DEF Step, Find, Error, Claim, OpenImport, SaveVendor, AuditRow, FinishImport,
         OpenExport, Upload, CreateFile, FinishExport, Audit, Fail, jobVars
  <2>3. QED
    BY <2>1, <2>2
<1>5. QED
  BY <1>1, <1>3, <1>4 DEF Undisturbed

\* The loop goes on to the row after p's, which it has just recorded.
LEMMA LoopGoesOn ==
  ASSUME TypeInv, NEW p \in Runs, InLoop(p), Tells(p), run[p].row \in DOMAIN FileOf[Job(p)],
         NEW failed \in BOOLEAN,
         run' = [run EXCEPT ![p].row = run[p].row + 1, ![p].failed = failed,
                            ![p].pc = RowStart(Job(p), run[p].row + 1)],
         DOMAIN rows[Job(p)] \cup {run[p].row} \subseteq DOMAIN rows'[Job(p)],
         \A k \in DOMAIN rows[Job(p)] \ {run[p].row} : rows'[Job(p)][k] = rows[Job(p)][k],
         failed <=> run[p].failed \/ rows'[Job(p)][run[p].row] # "SUCCEEDED"
  PROVE  /\ Tells(p)'
         /\ run'[p].job = run[p].job /\ run'[p].alone = run[p].alone
         /\ run'[p].pc \in {"finish", "vendor", "failRow"}
<1> DEFINE i == run[p].row
           j == Job(p)
<1>1. FileOf[j] \in Seq(Codes \cup {NoCode})
  BY WorkerJobsAssumption DEF InLoop
<1>2. /\ DOMAIN FileOf[j] = 1..Len(FileOf[j]) /\ Len(FileOf[j]) \in Nat
      /\ i \in Nat \ {0}
  BY <1>1
<1>3. /\ run'[p].row = i + 1 /\ run'[p].failed = failed /\ Job(p)' = j
      /\ run'[p].pc = RowStart(j, i + 1)
      /\ run'[p].alone = run[p].alone
  <2>1. run \in [Runs -> RunState]
    BY DEF TypeInv, WorkerTypeOK
  <2>2. run[p] \in RunState
    BY <2>1
  <2> DEFINE there == [run[p] EXCEPT !.row = run[p].row + 1, !.failed = failed,
                                     !.pc = RowStart(Job(p), run[p].row + 1)]
  <2>3. run' = [run EXCEPT ![p] = there]
    BY <2>1
  <2>4. run'[p] = there
    BY <2>1, <2>3
  <2>5. /\ there.row = run[p].row + 1 /\ there.failed = failed
        /\ there.pc = RowStart(Job(p), run[p].row + 1)
        /\ there.job = run[p].job /\ there.alone = run[p].alone
    BY <2>2 DEF RunState
  <2> HIDE DEF there
  <2>6. QED
    BY <2>4, <2>5 DEF Job
<1> DEFINE before == {k \in DOMAIN FileOf[j] : k < i}
           behind == {k \in DOMAIN FileOf[j] : k < i + 1}
<1>4. behind = before \cup {i} /\ i \notin before
  BY <1>2
<1>5. /\ before \subseteq DOMAIN rows[j]
      /\ run[p].failed <=> \E k \in before : rows[j][k] # "SUCCEEDED"
  BY DEF Tells
<1>6. behind \subseteq DOMAIN rows'[j]
  BY <1>4, <1>5
<1>7. failed <=> \E k \in behind : rows'[j][k] # "SUCCEEDED"
  <2>1. \A k \in before : rows'[j][k] = rows[j][k]
    BY <1>4, <1>5
  <2>2. QED
    BY <1>4, <1>5, <2>1
<1>8. /\ RowStart(j, i + 1) \in {"finish", "vendor", "failRow"}
      /\ RowStart(j, i + 1) = "finish" => behind = DOMAIN FileOf[j]
  BY <1>2 DEF RowStart
<1>9. Tells(p)'
  <2> HIDE DEF i, j
  <2>1. QED
    BY <1>3, <1>6, <1>7, <1>8 DEF Tells, At
<1>10. QED
  BY <1>3, <1>8, <1>9 DEF Job

\* What Record leaves of the rows of p's import.
LEMMA RecordedHere ==
  ASSUME TypeInv, NEW p \in Runs, Job(p) \in ImportJobs, NEW outcome, Record(p, outcome)
  PROVE  /\ DOMAIN rows'[Job(p)] = DOMAIN rows[Job(p)] \cup {run[p].row}
         /\ rows'[Job(p)][run[p].row] = outcome
         /\ \A k \in DOMAIN rows[Job(p)] \ {run[p].row} : rows'[Job(p)][k] = rows[Job(p)][k]
<1> DEFINE old == rows[Job(p)]
           new == [i \in DOMAIN old \cup {run[p].row} |-> IF i = run[p].row THEN outcome ELSE old[i]]
<1>1. DOMAIN rows = ImportJobs /\ rows' = [rows EXCEPT ![Job(p)] = new]
  BY DEF Record, TypeInv, WorkerTypeOK
<1>2. rows'[Job(p)] = new
  <2> HIDE DEF new
  <2>1. QED
    BY <1>1
<1>3. QED
  BY <1>2

LEMMA LoneStep ==
  ASSUME TypeInv, LoneInv, [WorkerNext]_workerVars
  PROVE  LoneInv'
<1>1. run \in [Runs -> RunState] /\ \A q \in Runs : run[q] \in RunState
  BY DEF TypeInv, WorkerTypeOK
<1>2. ASSUME NEW p \in Runs,
             Find(p, ImportJobs) \/ Find(p, ExportJobs) \/ Step(p) \/ Error(p)
      PROVE  \A q \in Runs \ {p} : Undisturbed(q) /\ (Untouched(q) \/ ~run'[q].failed)
  BY <1>2, OthersUndisturbed, OthersUntouched
<1>3. ASSUME NEW p \in Runs, \A q \in Runs \ {p} : Untouched(q),
             \/ run'[p].pc \in {"idle", "claim"}
             \/ run'[p].job = run[p].job /\ run[p].pc \notin {"idle", "claim"}
      PROVE  NoneTaken
  <2>1. Idle.pc = "idle"
    BY DEF Idle
  <2>2. QED
    BY <1>3, <2>1 DEF NoneTaken, Untouched, Holds, Job
\* The steps of a run that is in no loop afterwards.
<1>4. ASSUME NEW p \in Runs, Find(p, ImportJobs) \/ Find(p, ExportJobs) PROVE LoneInv'
  <2>1. run'[p].pc = "claim" /\ ~run'[p].failed /\ ~run'[p].alone
    BY <1>1, <1>4 DEF Find, Idle
  <2>2. NoneTaken
    BY <1>3, <1>4, <2>1, OthersUntouched
  <2>3. QED
    BY <1>2, <1>4, <2>1, <2>2, LoneKept
<1>5. ASSUME NEW p \in Runs, Audit(p) \/ Fail(p) PROVE LoneInv'
  <2>1. run'[p].pc = "idle" /\ ~run'[p].failed /\ ~run'[p].alone
    BY <1>1, <1>5 DEF Audit, Fail, End, Idle
  <2>2. Step(p)
    BY <1>5 DEF Step
  <2>3. NoneTaken
    BY <1>3, <2>1, <2>2, OthersUntouched
  <2>4. QED
    BY <1>2, <2>1, <2>2, <2>3, LoneKept
<1>6. ASSUME NEW p \in Runs,
             \/ OpenExport(p) \/ Upload(p) \/ CreateFile(p) \/ FinishExport(p) \/ FinishImport(p)
             \/ Error(p) /\ run[p].pc \notin {"vendor", "recordRow", "auditRow"}
      PROVE  LoneInv'
  <2>1. /\ run'[p].pc \in {"upload", "file", "finish", "audit", "fail"}
        /\ run'[p].job = run[p].job /\ run'[p].alone = run[p].alone
        /\ run[p].pc \notin {"idle", "claim"}
    BY <1>1, <1>6 DEF OpenExport, Upload, CreateFile, FinishExport, FinishImport, Error,
         Handler, Goto, At, RunState
  <2>2. ~InLoop(p)'
    <3>1. CASE run'[p].pc = "finish"
      <4>1. CreateFile(p)
        BY <1>1, <1>6, <3>1 DEF OpenExport, Upload, FinishExport, FinishImport, Error,
             Handler, Goto, RunState
      <4>2. Job(p) \in ExportJobs
        BY <4>1 DEF CreateFile, TypeInv, WorkerTypeOK, At
      <4>3. QED
        BY <2>1, <4>2, WorkerJobsAssumption DEF InLoop, Job
    <3>2. CASE run'[p].pc # "finish"
      BY <2>1, <3>2 DEF InLoop
    <3>3. QED
      BY <3>1, <3>2
  <2>3. Step(p) \/ Error(p)
    BY <1>6 DEF Step
  <2>4. NoneTaken
    BY <1>3, <2>1, <2>3, OthersUntouched
  <2>5. QED
    BY <1>2, <2>1, <2>2, <2>3, <2>4, LoneKept
\* A claim: the runs that held the job are no longer alone.
<1>7. ASSUME NEW p \in Runs, Claim(p) PROVE LoneInv'
  <2>1. CASE Claimable(Job(p), run[p].age)
    <3> DEFINE others == {q \in Runs \ {p} : Holds(q, Job(p))}
    <3>1. /\ run[p].pc = "claim" /\ ~run[p].failed
          /\ \A q \in Runs : run'[q] =
               (IF q = p THEN [run[q] EXCEPT !.pc = "open", !.alone = others = {}]
                ELSE IF q \in others THEN [run[q] EXCEPT !.alone = FALSE] ELSE run[q])
      BY <1>7, <2>1 DEF Claim, TakeJob, At, LoneInv
    <3>2. /\ run'[p].pc = "open" /\ run'[p].alone = (others = {})
          /\ run'[p].job = run[p].job /\ run'[p].failed = run[p].failed
      <4>1. run'[p] = [run[p] EXCEPT !.pc = "open", !.alone = others = {}]
        BY <3>1
      <4> HIDE DEF others
      <4>2. QED
        BY <1>1, <4>1 DEF RunState
    <3>3. ASSUME NEW q \in Runs \ {p}
          PROVE  /\ run'[q].job = run[q].job /\ run'[q].pc = run[q].pc
                 /\ run'[q].failed = run[q].failed
                 /\ q \in others => ~run'[q].alone
      <4>1. run'[q] = IF q \in others THEN [run[q] EXCEPT !.alone = FALSE] ELSE run[q]
        BY <3>1
      <4> HIDE DEF others
      <4>2. QED
        BY <1>1, <4>1 DEF RunState
    <3>4. \A q \in Runs \ {p} : Undisturbed(q)
      BY <1>2, <1>7 DEF Step
    <3>5. \A q \in Runs \ {p} : \A j : Holds(q, j)' <=> Holds(q, j)
      BY <3>3 DEF Holds, Job
    <3>6. ASSUME NEW q \in Runs, run'[q].alone
          PROVE  /\ run'[q].pc \notin {"idle", "claim"}
                 /\ \A r \in Runs \ {q} : ~Holds(r, Job(q))'
                 /\ InLoop(q)' => Tells(q)'
      <4>1. CASE q = p
        <5>1. others = {}
          BY <3>2, <3>6, <4>1
        <5>2. QED
          BY <3>2, <3>5, <4>1, <5>1 DEF Job, InLoop
      <4>2. CASE q # p
        <5>1. /\ run[q].alone /\ q \notin others
              /\ run'[q].job = run[q].job /\ run'[q].pc = run[q].pc
          BY <3>3, <3>4, <3>6, <4>2 DEF Undisturbed
        <5>2. run[q].pc \notin {"idle", "claim"} /\ \A r \in Runs \ {q} : ~Holds(r, Job(q))
          BY <5>1 DEF LoneInv
        <5>3. Job(q) # Job(p)
          BY <4>2, <5>1, <5>2 DEF Holds
        <5>4. \A r \in Runs \ {q} : ~Holds(r, Job(q))'
          BY <3>2, <3>5, <5>1, <5>2, <5>3 DEF Holds, Job
        <5>5. InLoop(q)' => Tells(q)'
          BY <3>4, <3>6, <4>2, UndisturbedTells
        <5>6. QED
          BY <5>1, <5>2, <5>4, <5>5
      <4>3. QED
        BY <4>1, <4>2
    <3>7. \A q \in Runs : run'[q].pc \in {"idle", "claim", "open"} => ~run'[q].failed
      BY <3>1, <3>2, <3>3 DEF LoneInv
    <3>8. QED
      BY <3>6, <3>7 DEF LoneInv
  <2>2. CASE ~Claimable(Job(p), run[p].age)
    <3>1. run'[p] = Idle
      BY <1>1, <1>7, <2>2 DEF Claim, End
    <3>2. run'[p].pc = "idle" /\ ~run'[p].failed /\ ~run'[p].alone
      BY <3>1 DEF Idle
    <3>3. Step(p)
      BY <1>7 DEF Step
    <3>4. NoneTaken
      BY <1>3, <3>2, <3>3, OthersUntouched
    <3>5. QED
      BY <1>2, <3>2, <3>3, <3>4, LoneKept
  <2>3. QED
    BY <2>1, <2>2
\* The loop over the rows.
<1>8. ASSUME NEW p \in Runs, Step(p) \/ Error(p), run[p].pc \notin {"idle", "claim"},
             run'[p].job = run[p].job, run'[p].alone = run[p].alone,
             run'[p].pc \in {"finish", "vendor", "recordRow", "auditRow", "failRow"},
             run[p].alone => Tells(p)'
      PROVE  LoneInv'
  <2>1. NoneTaken
    BY <1>3, <1>8, OthersUntouched
  <2>2. QED
    BY <1>2, <1>8, <2>1, LoneKept
<1>9. ASSUME NEW p \in Runs, OpenImport(p) PROVE LoneInv'
  <2>1. /\ Job(p) \in ImportJobs /\ run[p].pc = "open" /\ ~run[p].failed
        /\ UNCHANGED rows
    BY <1>9 DEF OpenImport, At, LoneInv, jobVars
  <2>2. /\ run'[p].row = 1 /\ run'[p].pc = RowStart(Job(p), 1)
        /\ run'[p].job = run[p].job /\ run'[p].alone = run[p].alone
        /\ run'[p].failed = run[p].failed
    BY <1>1, <1>9 DEF OpenImport, RunState
  <2>3. FileOf[Job(p)] \in Seq(Codes \cup {NoCode})
    BY <2>1, WorkerJobsAssumption
  <2>4. {k \in DOMAIN FileOf[Job(p)] : k < 1} = {}
    BY <2>3
  <2>5. /\ RowStart(Job(p), 1) \in {"finish", "vendor", "failRow"}
        /\ RowStart(Job(p), 1) = "finish" => DOMAIN FileOf[Job(p)] = {}
    BY <2>3 DEF RowStart
  <2>6. Tells(p)'
    BY <2>1, <2>2, <2>4, <2>5 DEF Tells, At, Job
  <2>7. Step(p)
    BY <1>9 DEF Step
  <2>8. QED
    BY <1>8, <2>1, <2>2, <2>5, <2>6, <2>7
<1>10. ASSUME NEW p \in Runs,
              \/ SaveVendor(p)
              \/ Error(p) /\ run[p].pc \in {"vendor", "recordRow", "auditRow"}
       PROVE  LoneInv'
  <2>1. /\ run[p].pc \in {"vendor", "recordRow", "auditRow"} /\ Job(p) \in ImportJobs
        /\ UNCHANGED rows
    BY <1>10 DEF SaveVendor, Error, At, jobVars, TypeInv, WorkerTypeOK
  <2>2. /\ run'[p].pc \in {"recordRow", "failRow"}
        /\ run'[p].job = run[p].job /\ run'[p].alone = run[p].alone
        /\ run'[p].row = run[p].row /\ run'[p].failed = run[p].failed
    BY <1>1, <1>10 DEF SaveVendor, Error, Goto, Handler, RunState
  <2>3. run[p].alone => Tells(p)
    BY <2>1 DEF LoneInv, InLoop
  <2>4. Tells(p) => Tells(p)'
    BY <2>1, <2>2 DEF Tells, At, Job
  <2>5. Step(p) \/ Error(p)
    BY <1>10 DEF Step
  <2>6. QED
    BY <1>8, <2>1, <2>2, <2>3, <2>4, <2>5
<1>11. ASSUME NEW p \in Runs, RecordRow(p) PROVE LoneInv'
  <2>1. /\ run[p].pc = "recordRow" /\ Job(p) \in ImportJobs /\ Record(p, "SUCCEEDED")
        /\ run[p].row \in DOMAIN FileOf[Job(p)]
    BY <1>11 DEF RecordRow, At, TypeInv, WorkerTypeOK
  <2>2. /\ run'[p].pc = "auditRow"
        /\ run'[p].job = run[p].job /\ run'[p].alone = run[p].alone
        /\ run'[p].row = run[p].row /\ run'[p].failed = run[p].failed
    BY <1>1, <1>11 DEF RecordRow, Goto, RunState
  <2>3. ASSUME Tells(p) PROVE Tells(p)'
    <3> DEFINE behind == {k \in DOMAIN FileOf[Job(p)] : k < run[p].row}
    <3>1. run[p].row \notin behind
      BY <1>1 DEF RunState
    <3>2. /\ behind \subseteq DOMAIN rows[Job(p)]
          /\ run[p].failed <=> \E k \in behind : rows[Job(p)][k] # "SUCCEEDED"
      BY <2>3 DEF Tells
    <3>3. /\ behind \subseteq DOMAIN rows'[Job(p)]
          /\ \A k \in behind : rows'[Job(p)][k] = rows[Job(p)][k]
          /\ run[p].row \in DOMAIN rows'[Job(p)]
          /\ rows'[Job(p)][run[p].row] = "SUCCEEDED"
      BY <2>1, <3>1, <3>2, RecordedHere
    <3>4. QED
      BY <2>2, <3>2, <3>3 DEF Tells, At, Job
  <2>4. run[p].alone => Tells(p)'
    BY <2>1, <2>3 DEF LoneInv, InLoop
  <2>5. Step(p)
    BY <1>11 DEF Step
  <2>6. QED
    BY <1>8, <2>1, <2>2, <2>4, <2>5
<1>12. ASSUME NEW p \in Runs, AuditRow(p) \/ FailRow(p) PROVE LoneInv'
  <2>1. /\ run[p].pc \in {"auditRow", "failRow"} /\ InLoop(p) /\ Job(p) \in ImportJobs
        /\ run[p].row \in DOMAIN FileOf[Job(p)]
    BY <1>12 DEF AuditRow, FailRow, At, InLoop, TypeInv, WorkerTypeOK
  <2>2. run[p].failed \in BOOLEAN
    BY <1>1 DEF RunState
  <2>3. \E failed \in BOOLEAN :
          /\ run' = [run EXCEPT ![p].row = run[p].row + 1, ![p].failed = failed,
                                ![p].pc = RowStart(Job(p), run[p].row + 1)]
          /\ \/ AuditRow(p) /\ failed = run[p].failed
             \/ FailRow(p) /\ failed = TRUE
    BY <1>12, <2>2 DEF AuditRow, FailRow, NextRow
  <2>4. PICK failed \in BOOLEAN :
          /\ run' = [run EXCEPT ![p].row = run[p].row + 1, ![p].failed = failed,
                                ![p].pc = RowStart(Job(p), run[p].row + 1)]
          /\ \/ AuditRow(p) /\ failed = run[p].failed
             \/ FailRow(p) /\ failed = TRUE
    BY <2>3
  <2>5. /\ run'[p].row = run[p].row + 1 /\ run'[p].pc = RowStart(Job(p), run[p].row + 1)
        /\ run'[p].job = run[p].job /\ run'[p].alone = run[p].alone
    BY <1>1, <2>4 DEF RunState
  <2>6. RowStart(Job(p), run[p].row + 1) \in {"finish", "vendor", "failRow"}
    BY DEF RowStart
  <2>7. ASSUME Tells(p) PROVE Tells(p)'
    <3>1. CASE AuditRow(p) /\ failed = run[p].failed
      <4>1. UNCHANGED rows /\ At(p, "auditRow")
        BY <3>1 DEF AuditRow, jobVars
      <4>2. /\ run[p].row \in DOMAIN rows[Job(p)]
            /\ rows[Job(p)][run[p].row] = "SUCCEEDED"
        BY <2>7, <4>1 DEF Tells
      <4>3. QED
        BY <2>1, <2>4, <2>7, <3>1, <4>1, <4>2, LoopGoesOn
    <3>2. CASE FailRow(p) /\ failed = TRUE
      <4>1. Record(p, "FAILED")
        BY <3>2 DEF FailRow
      <4>2. /\ DOMAIN rows'[Job(p)] = DOMAIN rows[Job(p)] \cup {run[p].row}
            /\ rows'[Job(p)][run[p].row] = "FAILED"
            /\ \A k \in DOMAIN rows[Job(p)] \ {run[p].row} :
                 rows'[Job(p)][k] = rows[Job(p)][k]
        BY <2>1, <4>1, RecordedHere
      <4>3. QED
        BY <2>1, <2>4, <2>7, <3>2, <4>2, LoopGoesOn
    <3>3. QED
      BY <2>4, <3>1, <3>2
  <2>8. run[p].alone => Tells(p)'
    BY <2>1, <2>7 DEF LoneInv
  <2>9. Step(p)
    BY <1>12 DEF Step
  <2>10. QED
    BY <1>8, <2>1, <2>5, <2>6, <2>8, <2>9
<1>13. CASE Crash
  <2>1. \A q \in Runs : run'[q] = Idle
    BY <1>13 DEF Crash
  <2>2. Idle.pc = "idle" /\ ~Idle.failed /\ ~Idle.alone
    BY DEF Idle
  <2>3. QED
    BY <2>1, <2>2 DEF LoneInv
<1>14. CASE TimePasses \/ UNCHANGED workerVars \/ \E j \in Jobs : CreateJob(j)
  <2>1. UNCHANGED rows
    BY <1>14 DEF TimePasses, CreateJob, workerVars, jobVars
  <2>2. \A q \in Runs : /\ run'[q].pc = run[q].pc /\ run'[q].job = run[q].job
                        /\ run'[q].row = run[q].row /\ run'[q].failed = run[q].failed
                        /\ run'[q].alone = run[q].alone
    BY <1>1, <1>14 DEF TimePasses, CreateJob, workerVars, jobVars, RunState
  <2>3. \A q \in Runs : /\ Tells(q) => Tells(q)'
                        /\ InLoop(q)' = InLoop(q)
                        /\ \A j : Holds(q, j)' = Holds(q, j)
    BY <2>1, <2>2 DEF Tells, InLoop, Holds, At, Job
  <2>4. QED
    BY <2>2, <2>3 DEF LoneInv, Job
<1>15. QED
  BY <1>4, <1>5, <1>6, <1>7, <1>9, <1>10, <1>11, <1>12, <1>13, <1>14 DEF WorkerNext, Step

\* A run that nobody overlapped reports its import SUCCEEDED exactly if every row is
\* recorded and has succeeded, for any file, whatever runs, errors and restarts came
\* before it: it records every row anew.
THEOREM LoneRunsTellTheTruth == WorkerSpec => LoneRunTellsRows
<1> DEFINE Truth(p) ==
      At(p, "finish") /\ run'[p].pc = "audit" /\ run[p].alone /\ Job(p) \in ImportJobs
        => LET j == Job(p)
           IN  /\ DOMAIN rows[j] = DOMAIN FileOf[j]
               /\ status'[j] = "SUCCEEDED" <=>
                    \A i \in DOMAIN rows[j] : rows[j][i] = "SUCCEEDED"
<1>1. WorkerInit => LoneInv
  BY DEF WorkerInit, LoneInv, Idle
<1>2. ASSUME TypeInv, LoneInv, [WorkerNext]_workerVars, NEW p \in Runs PROVE Truth(p)
  <2>1. SUFFICES ASSUME At(p, "finish"), run'[p].pc = "audit", run[p].alone,
                        Job(p) \in ImportJobs
                 PROVE  /\ DOMAIN rows[Job(p)] = DOMAIN FileOf[Job(p)]
                        /\ status'[Job(p)] = "SUCCEEDED" <=>
                             \A i \in DOMAIN rows[Job(p)] : rows[Job(p)][i] = "SUCCEEDED"
    OBVIOUS
  <2>2. run \in [Runs -> RunState] /\ \A q \in Runs : run[q] \in RunState
    BY <1>2 DEF TypeInv, WorkerTypeOK
  <2>3. Tells(p) /\ InLoop(p)
    BY <1>2, <2>1 DEF LoneInv, InLoop, At
  <2>4. DOMAIN rows[Job(p)] \subseteq DOMAIN FileOf[Job(p)] /\ Job(p) \in Jobs
    BY <1>2, <2>1 DEF TypeInv, WorkerTypeOK, Jobs
  <2>5. /\ DOMAIN rows[Job(p)] = DOMAIN FileOf[Job(p)]
        /\ run[p].failed <=> \E k \in DOMAIN rows[Job(p)] : rows[Job(p)][k] # "SUCCEEDED"
    BY <2>1, <2>3, <2>4 DEF Tells
  <2>6. FinishImport(p)
    <3>1. ASSUME NEW q \in Runs, q # p,
                 Find(q, ImportJobs) \/ Find(q, ExportJobs) \/ Step(q) \/ Error(q)
          PROVE FALSE
      <4>1. Untouched(p) /\ Idle.pc = "idle"
        BY <1>2, <3>1, OthersUntouched DEF Idle
      <4>2. QED
        BY <2>1, <4>1 DEF Untouched, At
    <3>2. ~Find(p, ImportJobs) /\ ~Find(p, ExportJobs) /\ ~FinishExport(p)
      BY <2>1, WorkerJobsAssumption DEF Find, FinishExport, At
    <3>3. ~Error(p)
      BY <2>1, <2>2 DEF Error, Goto, Handler, At, RunState
    <3>4. ~Crash /\ ~TimePasses /\ ~UNCHANGED workerVars /\ ~\E j \in Jobs : CreateJob(j)
      BY <2>1, <2>2 DEF Crash, TimePasses, CreateJob, workerVars, At, Idle, RunState
    <3>5. Step(p)
      BY <1>2, <3>1, <3>2, <3>3, <3>4 DEF WorkerNext
    <3>6. QED
      BY <2>1, <3>2, <3>5 DEF Step, Claim, OpenImport, SaveVendor, RecordRow, AuditRow, FailRow,
           OpenExport, Upload, CreateFile, Audit, Fail, At
  <2>7. status'[Job(p)] = IF run[p].failed THEN "FAILED" ELSE "SUCCEEDED"
    BY <1>2, <2>4, <2>6 DEF FinishImport, Finish, TypeInv, WorkerTypeOK
  <2>8. QED
    BY <2>5, <2>7
<1>3. TypeInv /\ LoneInv /\ [WorkerNext]_workerVars
        => (TypeInv /\ LoneInv)' /\ [\A p \in Runs : Truth(p)]_workerVars
  BY <1>2, WorkerTypeStep, LoneStep
<1> HIDE DEF Truth
<1>4. WorkerSpec => [][\A p \in Runs : Truth(p)]_workerVars
  BY <1>1, <1>3, WorkerTypeInit, PTL DEF WorkerSpec
<1>5. QED
  BY <1>4 DEF Truth, LoneRunTellsRows

=============================================================================
