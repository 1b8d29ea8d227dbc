-------------------------- MODULE ApprovalRequests --------------------------
(***************************************************************************)
(* The handlers of ApprovalsService and LeaveService.createLeaveRequest /  *)
(* createAttendanceCorrection as what they are: sequences of awaited       *)
(* database statements without a transaction around them.  Requests that   *)
(* are in flight together interleave between statements, and the API       *)
(* process may stop between any two of them.                               *)
(*                                                                         *)
(* The database is the state of module Approvals; one action below is one  *)
(* statement.  A request's first action is its first read of the line (or  *)
(* its first write, if it begins with one): its arrival alone changes      *)
(* nothing.  Left out: the audit rows, the SUBMIT, RESUBMIT, CANCEL rows   *)
(* (only that a new round begins is kept) and reads that decide nothing.   *)
(***************************************************************************)
EXTENDS Approvals

CONSTANTS
  Requests,         \* the slots for requests in flight
  NoUser,           \* the user of an idle slot
  Ops,              \* the operations clients call
  RequestRoutings,  \* the routings they configure
  OnePerUser,       \* TRUE if no user has two requests in flight
  MaxCrashes        \* how many requests stop between two statements

ASSUME RequestsAssumption ==
  /\ NoUser \notin Users
  /\ Ops \subseteq {"createDocument", "addVersion", "create", "configure", "submit",
                    "resubmit", "approve", "reject", "cancel"}
  /\ RequestRoutings \subseteq Routings
  /\ \A routing \in RequestRoutings : DOMAIN routing # {}
  /\ OnePerUser \in BOOLEAN
  /\ MaxCrashes \in Nat

VARIABLES
  req,      \* the local state of the request in each slot
  crashes   \* how many requests have been cut short

reqVars == <<vars, req, crashes>>

Statements == {"findLine", "createLine", "deleteActions", "deleteSteps", "resetLine",
               "createSteps", "readLine", "resetSteps", "cancelSteps", "decideStep",
               "logDecision", "readSteps", "forward", "writeLine", "writeDocument",
               "logSubmission", "findRequest", "syncRequest", "insertRequest"}

Idle == [pc |-> "idle", op |-> "none", user |-> NoUser, routing |-> NoSteps,
         order |-> NoOrder, next |-> NoOrder, plan |-> NoSteps,
         stale |-> FALSE, alone |-> FALSE]

InFlight == {r \in Requests : req[r].pc # "idle"}

RequestsInit == Init /\ req = [r \in Requests |-> Idle] /\ crashes = 0

\* The database a submitted leave request leaves behind, for any routing.
SubmittedInit ==
  /\ \E routing \in RequestRoutings, u \in Users, n \in Orders :
       /\ EmployeeOf[u] # NoEmployee
       /\ IsNextActionable(routing, 0, n)
       /\ steps = Forwarded(FreshSteps(routing), 0, n)
       /\ currentOrder = n
       /\ submittedBy = EmployeeOf[u]
  /\ documentStatus = "IN_REVIEW"
  /\ lineStatus = "IN_REVIEW"
  /\ actions = {}
  /\ requestStatus = "REQUESTED"
  /\ req = [r \in Requests |-> Idle]
  /\ crashes = 0

(***************************************************************************)
(* Control flow of a request.                                              *)
(***************************************************************************)
Request(name, u, pc) == [Idle EXCEPT !.pc = pc, !.op = name, !.user = u,
                                     !.alone = InFlight = {}]

\* Slot r takes up a request; from here on nobody else in flight is alone.
Begin(r, request) ==
  /\ request.op \in Ops
  /\ req[r].pc = "idle"
  /\ OnePerUser => \A q \in Requests : req[q].user # request.user
  /\ req' = [q \in Requests |-> IF q = r THEN request
                                         ELSE [req[q] EXCEPT !.alone = FALSE]]
  /\ UNCHANGED crashes

Goto(r, pc) == req' = [req EXCEPT ![r].pc = pc] /\ UNCHANGED crashes

\* The request answers, or throws: its slot is free again.
End(r) == req' = [req EXCEPT ![r] = Idle] /\ UNCHANGED crashes

At(r, pc) == req[r].pc = pc

\* The line status the request is about to write, and to synchronise.
Outcome(r) ==
  CASE req[r].op = "reject" -> "REJECTED"
    [] req[r].op = "cancel" -> "CANCELED"
    [] OTHER -> IF req[r].next = NoOrder THEN "APPROVED" ELSE "IN_REVIEW"

Submits(r) == req[r].op \in {"submit", "resubmit", "create"}

(***************************************************************************)
(* Documents: one transaction each.                                        *)
(***************************************************************************)
BeginCreateDocument(r, u) ==
  /\ "createDocument" \in Ops /\ At(r, "idle")
  /\ CreateDocument(u)
  /\ UNCHANGED <<req, crashes>>

BeginAddVersion(r, u) ==
  /\ "addVersion" \in Ops /\ At(r, "idle")
  /\ AddVersion(u)
  /\ UNCHANGED <<req, crashes>>

(***************************************************************************)
(* configureLine.                                                          *)
(***************************************************************************)
BeginConfigure(r, u, routing) ==
  /\ documentStatus # "NONE" /\ lineStatus # "IN_REVIEW"
  /\ LET pc == IF lineStatus = "NONE" THEN "createLine" ELSE "deleteActions"
     IN  Begin(r, [Request("configure", u, pc) EXCEPT !.routing = routing])
  /\ UNCHANGED vars

\* documentId is unique: the second of two creates throws.
CreateLine(r) ==
  /\ At(r, "createLine")
  /\ IF lineStatus = "NONE"
     THEN /\ lineStatus' = "DRAFT"
          /\ currentOrder' = NoOrder
          /\ submittedBy' = EmployeeOf[req[r].user]
          /\ Goto(r, "createSteps")
     ELSE UNCHANGED <<lineStatus, currentOrder, submittedBy>> /\ End(r)
  /\ UNCHANGED <<documentStatus, steps, actions, requestStatus>>

DeleteActions(r) ==
  /\ At(r, "deleteActions")
  /\ actions' = {}
  /\ Goto(r, "deleteSteps")
  /\ UNCHANGED <<documentStatus, lineStatus, currentOrder, submittedBy, steps, requestStatus>>

\* Rows other requests have read are gone: writing to them by id will throw.
DeleteSteps(r) ==
  /\ At(r, "deleteSteps")
  /\ steps' = NoSteps
  /\ req' = [q \in Requests |->
       IF q = r THEN [req[q] EXCEPT !.pc = "resetLine"]
       ELSE IF req[q].pc = "idle" THEN req[q] ELSE [req[q] EXCEPT !.stale = TRUE]]
  /\ UNCHANGED <<documentStatus, lineStatus, currentOrder, submittedBy, actions,
                 requestStatus, crashes>>

ResetLine(r) ==
  /\ At(r, "resetLine")
  /\ lineStatus' = "DRAFT"
  /\ currentOrder' = NoOrder
  /\ submittedBy' = EmployeeOf[req[r].user]
  /\ Goto(r, "createSteps")
  /\ UNCHANGED <<documentStatus, steps, actions, requestStatus>>

\* createMany inserts all rows or none: (lineId, orderNo) is unique.
CreateSteps(r) ==
  /\ At(r, "createSteps")
  /\ LET rows == FreshSteps(req[r].routing)
     IN  IF DOMAIN rows \cap DOMAIN steps # {}
         THEN UNCHANGED steps /\ End(r)
         ELSE /\ steps' = [o \in DOMAIN rows \cup DOMAIN steps |->
                             IF o \in DOMAIN rows THEN rows[o] ELSE steps[o]]
              /\ IF req[r].op = "create" THEN Goto(r, "readLine") ELSE End(r)
  /\ UNCHANGED <<documentStatus, lineStatus, currentOrder, submittedBy, actions, requestStatus>>

(***************************************************************************)
(* submit, resubmit.                                                       *)
(***************************************************************************)
BeginSubmit(r, u) ==
  /\ lineStatus = "DRAFT" /\ EmployeeOf[u] # NoEmployee
  /\ Begin(r, Request("submit", u, "resetSteps"))
  /\ UNCHANGED vars

BeginResubmit(r, u) ==
  /\ lineStatus \in {"REJECTED", "CANCELED"} /\ EmployeeOf[u] # NoEmployee
  /\ Begin(r, Request("resubmit", u, "resetSteps"))
  /\ UNCHANGED vars

\* The submit createLeaveRequest and createAttendanceCorrection call.
ReadLine(r) ==
  /\ At(r, "readLine")
  /\ IF lineStatus = "DRAFT" THEN Goto(r, "resetSteps") ELSE End(r)
  /\ UNCHANGED vars

ResetSteps(r) ==
  /\ At(r, "resetSteps")
  /\ steps' = Waiting(steps)
  /\ Goto(r, "readSteps")
  /\ UNCHANGED <<documentStatus, lineStatus, currentOrder, submittedBy, actions, requestStatus>>

(***************************************************************************)
(* moveForwardToNextActionable: the rows are read once, then written one   *)
(* by one in ascending order, from what was read.                          *)
(***************************************************************************)
ReadSteps(r) ==
  /\ At(r, "readSteps")
  /\ \E n \in Orders \cup {NoOrder} :
       /\ IsNextActionable(steps, req[r].order, n)
       /\ LET rows == Forwarded(steps, req[r].order, n)
              changed == {o \in DOMAIN steps : rows[o] # steps[o]}
          IN  req' = [req EXCEPT ![r].next = n,
                                 ![r].plan = [o \in changed |-> rows[o].status],
                                 ![r].stale = FALSE,
                                 ![r].pc = IF changed = {} THEN "writeLine" ELSE "forward"]
  /\ UNCHANGED <<vars, crashes>>

Forward(r) ==
  /\ At(r, "forward")
  /\ IF req[r].stale
     THEN UNCHANGED steps /\ End(r)
     ELSE \E o \in DOMAIN req[r].plan :
            LET rest == DOMAIN req[r].plan \ {o}
            IN  /\ \A p \in rest : o < p
                /\ steps' = [steps EXCEPT ![o].status = req[r].plan[o]]
                /\ req' = [req EXCEPT ![r].plan = [p \in rest |-> req[r].plan[p]],
                                      ![r].pc = IF rest = {} THEN "writeLine" ELSE "forward"]
                /\ UNCHANGED crashes
  /\ UNCHANGED <<documentStatus, lineStatus, currentOrder, submittedBy, actions, requestStatus>>

(***************************************************************************)
(* approve, reject, cancel.                                                *)
(***************************************************************************)
BeginDecision(r, u, name) ==
  /\ MayDecide(u)
  /\ Begin(r, [Request(name, u, "decideStep") EXCEPT !.order = currentOrder])
  /\ UNCHANGED vars

\* Mutant: the step is written by its order, whatever row that now is
\* (AssignedApproverDecides).
DecideStepByOrder(r) ==
  /\ At(r, "decideStep")
  /\ steps' = [steps EXCEPT ![req[r].order].status =
                  IF req[r].op = "approve" THEN "APPROVED" ELSE "REJECTED"]
  /\ Goto(r, IF req[r].op = "approve" THEN "logDecision" ELSE "writeLine")
  /\ UNCHANGED <<documentStatus, lineStatus, currentOrder, submittedBy, actions, requestStatus>>

\* The step is written by the id that was read.
DecideStep(r) ==
  /\ At(r, "decideStep")
  /\ IF req[r].stale
     THEN UNCHANGED steps /\ End(r)
     ELSE /\ steps' = [steps EXCEPT ![req[r].order].status =
                         IF req[r].op = "approve" THEN "APPROVED" ELSE "REJECTED"]
          /\ Goto(r, IF req[r].op = "approve" THEN "logDecision" ELSE "writeLine")
  /\ UNCHANGED <<documentStatus, lineStatus, currentOrder, submittedBy, actions, requestStatus>>

\* The action row refers to the step row, which must still exist.
LogDecision(r) ==
  /\ At(r, "logDecision")
  /\ IF req[r].stale
     THEN UNCHANGED actions /\ End(r)
     ELSE /\ actions' = actions \cup
               {[type |-> IF req[r].op = "approve" THEN "APPROVE" ELSE "REJECT",
                 order |-> req[r].order, actor |-> req[r].user]}
          /\ Goto(r, IF req[r].op = "approve" THEN "readSteps" ELSE "findRequest")
  /\ UNCHANGED <<documentStatus, lineStatus, currentOrder, submittedBy, steps, requestStatus>>

BeginCancel(r, u) ==
  /\ MayCancel(u)
  /\ Begin(r, Request("cancel", u, "cancelSteps"))
  /\ UNCHANGED vars

CancelSteps(r) ==
  /\ At(r, "cancelSteps")
  /\ steps' = Canceled(steps)
  /\ Goto(r, "writeLine")
  /\ UNCHANGED <<documentStatus, lineStatus, currentOrder, submittedBy, actions, requestStatus>>

(***************************************************************************)
(* The writes that end submit, resubmit, approve, reject and cancel.       *)
(***************************************************************************)
\* Mutant: an approval that is not the last one writes the document as well
\* (ImplementsAtomicHandlers).
WriteLineThenDocument(r) ==
  /\ At(r, "writeLine")
  /\ lineStatus' = Outcome(r)
  /\ currentOrder' = IF Outcome(r) = "IN_REVIEW" THEN req[r].next ELSE NoOrder
  /\ submittedBy' = IF Submits(r) THEN EmployeeOf[req[r].user] ELSE submittedBy
  /\ Goto(r, "writeDocument")
  /\ UNCHANGED <<documentStatus, steps, actions, requestStatus>>

WriteLine(r) ==
  /\ At(r, "writeLine")
  /\ lineStatus' = Outcome(r)
  /\ currentOrder' = IF Outcome(r) = "IN_REVIEW" THEN req[r].next ELSE NoOrder
  /\ submittedBy' = IF Submits(r) THEN EmployeeOf[req[r].user] ELSE submittedBy
  /\ Goto(r, IF req[r].op = "approve" /\ Outcome(r) = "IN_REVIEW"
             THEN "findRequest" ELSE "writeDocument")
  /\ UNCHANGED <<documentStatus, steps, actions, requestStatus>>

WriteDocument(r) ==
  /\ At(r, "writeDocument")
  /\ documentStatus' = Outcome(r)
  /\ Goto(r, CASE Submits(r) -> "logSubmission"
               [] req[r].op = "reject" -> "logDecision"
               [] OTHER -> "findRequest")
  /\ UNCHANGED <<lineStatus, currentOrder, submittedBy, steps, actions, requestStatus>>

\* The SUBMIT or RESUBMIT row: the APPROVE and REJECT rows of a new round follow it.
LogSubmission(r) ==
  /\ At(r, "logSubmission")
  /\ actions' = {}
  /\ Goto(r, "findRequest")
  /\ UNCHANGED <<documentStatus, lineStatus, currentOrder, submittedBy, steps, requestStatus>>

\* syncBusinessStatusForDocument: the linked row is read, and written if it differs.
FindRequest(r) ==
  /\ At(r, "findRequest")
  /\ IF Synced(requestStatus, Outcome(r)) # requestStatus THEN Goto(r, "syncRequest")
     ELSE IF req[r].op = "create" THEN Goto(r, "insertRequest") ELSE End(r)
  /\ UNCHANGED vars

SyncRequest(r) ==
  /\ At(r, "syncRequest")
  /\ requestStatus' = Synced(requestStatus, Outcome(r))
  /\ End(r)
  /\ UNCHANGED <<documentStatus, lineStatus, currentOrder, submittedBy, steps, actions>>

(***************************************************************************)
(* createLeaveRequest, createAttendanceCorrection: the document and its    *)
(* submitted line first, the row that carries the outcome last.            *)
(***************************************************************************)
BeginCreate(r, u, approvers) ==
  /\ documentStatus = "NONE" /\ EmployeeOf[u] # NoEmployee
  /\ documentStatus' = "DRAFT"
  /\ LET pc == IF DOMAIN approvers = {} THEN "insertRequest" ELSE "findLine"
         routing == [o \in DOMAIN approvers |-> [type |-> "APPROVE", approver |-> approvers[o]]]
     IN  Begin(r, [Request("create", u, pc) EXCEPT !.routing = routing])
  /\ UNCHANGED <<lineStatus, currentOrder, submittedBy, steps, actions, requestStatus>>

FindLine(r) ==
  /\ At(r, "findLine")
  /\ CASE lineStatus = "NONE" -> Goto(r, "createLine")
       [] lineStatus = "IN_REVIEW" -> End(r)
       [] OTHER -> Goto(r, "deleteActions")
  /\ UNCHANGED vars

InsertRequest(r) ==
  /\ At(r, "insertRequest")
  /\ requestStatus' = "REQUESTED"
  /\ End(r)
  /\ UNCHANGED <<documentStatus, lineStatus, currentOrder, submittedBy, steps, actions>>

\* The API process stops, or the connection to the database breaks, while the
\* request is between two statements: the ones before it stay done.
Crash(r) ==
  /\ req[r].pc # "idle"
  /\ crashes < MaxCrashes
  /\ crashes' = crashes + 1
  /\ req' = [req EXCEPT ![r] = Idle]
  /\ UNCHANGED vars

Arrive(r, u) ==
  \/ BeginCreateDocument(r, u)
  \/ BeginAddVersion(r, u)
  \/ \E approvers \in ApproverLists : BeginCreate(r, u, approvers)
  \/ \E routing \in RequestRoutings : BeginConfigure(r, u, routing)
  \/ BeginSubmit(r, u)
  \/ BeginResubmit(r, u)
  \/ BeginDecision(r, u, "approve")
  \/ BeginDecision(r, u, "reject")
  \/ BeginCancel(r, u)

Continue(r) ==
  \/ FindLine(r) \/ CreateLine(r) \/ DeleteActions(r) \/ DeleteSteps(r) \/ ResetLine(r)
  \/ CreateSteps(r) \/ ReadLine(r) \/ ResetSteps(r) \/ CancelSteps(r) \/ DecideStep(r)
  \/ LogDecision(r) \/ ReadSteps(r) \/ Forward(r) \/ WriteLine(r) \/ WriteDocument(r)
  \/ LogSubmission(r) \/ FindRequest(r) \/ SyncRequest(r) \/ InsertRequest(r)

RequestsNext ==
  \E r \in Requests :
    \/ \E u \in Users : Arrive(r, u)
    \/ Continue(r)
    \/ Crash(r)

RequestsSpec == RequestsInit /\ [][RequestsNext]_reqVars

\* The same requests against a line that has been submitted.
SubmittedSpec == SubmittedInit /\ [][RequestsNext]_reqVars

(***************************************************************************)
(* Properties.                                                             *)
(***************************************************************************)
\* The rows stay within the schema's enums and orders, and a request in flight
\* holds the local values of the statement it is at, however requests overlap.
RequestsTypeOK ==
  /\ TypeOK
  /\ crashes \in 0..MaxCrashes
  /\ \A r \in Requests :
       /\ req[r].pc \in Statements \cup {"idle"}
       /\ req[r].pc = "idle" <=> req[r] = Idle
       /\ req[r].order \in Orders \cup {NoOrder}
       /\ req[r].next \in Orders \cup {NoOrder}
       /\ req[r].pc = "forward" =>
            DOMAIN req[r].plan # {} /\ (~req[r].stale => DOMAIN req[r].plan \subseteq DOMAIN steps)

\* Request r has just done the last statement of its handler.
Completes(r) == /\ req[r].pc # "idle" /\ req'[r].pc = "idle" /\ crashes' = crashes
                /\ req[r].pc \in {"findRequest", "syncRequest", "insertRequest"}

\* Submit and resubmit repair: one that no other request overlaps leaves step
\* rows, line, document and linked request telling one story, whatever crashed
\* or racing requests had left of them before.
LoneSubmitRepairs ==
  [][\A r \in Requests :
        Completes(r) /\ req[r].alone /\ Submits(r)
          => (StepsMatchLine /\ DocumentFollowsLine /\ RequestFollowsLine)']_reqVars

\* Cancel closes: one that no other request overlaps leaves no step open and a
\* canceled line, document and linked request, whatever it found.
LoneCancelCloses ==
  [][\A r \in Requests :
        Completes(r) /\ req[r].alone /\ req[r].op = "cancel"
          => (/\ lineStatus = "CANCELED" /\ currentOrder = NoOrder
              /\ StepsMatchLine /\ DocumentFollowsLine /\ RequestFollowsLine)']_reqVars

\* Only the approver a step names decides it: a decision made on rows that have
\* been reconfigured away in the meantime never lands on the new rows.
AssignedApproverDecides ==
  [][\A o \in DOMAIN steps \cap DOMAIN steps' :
        /\ IsActionable(steps[o])
        /\ steps'[o].status # steps[o].status
        /\ steps'[o].status \in {"APPROVED", "REJECTED"}
        => \E r \in Requests : /\ At(r, "decideStep")
                               /\ EmployeeOf[req[r].user] = steps[o].approver]_reqVars

Settled == InFlight = {}

\* While every user has one request in flight at a time and requests do not
\* crash, decisions of the approvers of one line leave it coherent: a decision
\* starts only after the one before it has written the line.
SettledLineCoherent ==
  Settled => StepsMatchLine /\ DocumentFollowsLine /\ ApprovedByEveryApprover

\* "Approval terminal outcomes are synchronized to linked leave/correction
\* records" (docs/ops/security-checklist.md): once nothing is in flight, the
\* linked request shows the outcome of its line.
TerminalOutcomeSynced == Settled => RequestFollowsLine

\* "At least one approval step is required" (configureLine): no line is approved
\* that never had a step anybody could decide on or read.
ApprovedLineHasSteps == lineStatus = "APPROVED" => DOMAIN steps # {}
=============================================================================
