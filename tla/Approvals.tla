------------------------------ MODULE Approvals ------------------------------
(***************************************************************************)
(* The approval line of one document, each handler of ApprovalsService     *)
(* taken as one atomic step: what the component promises when requests do  *)
(* not overlap and none is cut short.  ApprovalRequests models the same    *)
(* handlers statement by statement and is checked against this module.     *)
(*                                                                         *)
(* A document has at most one approval line (ApprovalLine.documentId is    *)
(* unique) and no handler touches two documents, so one document stands    *)
(* for all of them.  The leave request or attendance correction the        *)
(* document was generated for is requestStatus ("NONE" if there is none).  *)
(*                                                                         *)
(* A definition introduced by "Mutant:" is a slip the code could contain.  *)
(* No action uses one; it is put in place of the definition after it to    *)
(* see that the property it names can fail.                                *)
(***************************************************************************)
EXTENDS Integers, FiniteSets

CONSTANTS
  Users,        \* authenticated members of the company
  Employees,    \* its employees
  NoEmployee,   \* a user without an active employee row
  EmployeeOf,   \* the active employee of each user, or NoEmployee
  Admins,       \* users whose role is SUPER_ADMIN, ORG_ADMIN or HR_MANAGER
  Orders,       \* the orderNo values the configured steps may use
  Types         \* the step types the configured steps may use

StepTypes == {"APPROVE", "CONSULT", "AGREE", "CC", "RECEIVE"}

ASSUME ApprovalsAssumption ==
  /\ NoEmployee \notin Employees
  /\ EmployeeOf \in [Users -> Employees \cup {NoEmployee}]
  /\ Admins \subseteq Users
  /\ Orders \subseteq Nat \ {0}          \* @Min(1) on orderNo
  /\ Types \subseteq StepTypes

VARIABLES
  documentStatus,  \* Document.status; "NONE" before the document exists
  lineStatus,      \* ApprovalLine.status; "NONE" before the line exists
  currentOrder,    \* ApprovalLine.currentOrder; NoOrder for null
  submittedBy,     \* ApprovalLine.submittedByEmployeeId
  steps,           \* orderNo -> ApprovalStep row, for the orders that have one
  actions,         \* the APPROVE and REJECT rows since the last (re)submission
  requestStatus    \* LeaveRequest / AttendanceCorrection status

vars == <<documentStatus, lineStatus, currentOrder, submittedBy, steps, actions,
          requestStatus>>

NoOrder == 0
DocumentStatuses == {"NONE", "DRAFT", "IN_REVIEW", "APPROVED", "REJECTED", "CANCELED"}
LineStatuses == DocumentStatuses
RequestStatuses == {"NONE", "REQUESTED", "APPROVED", "REJECTED", "CANCELED"}
StepStatuses == {"PENDING", "WAITING", "APPROVED", "REJECTED", "CANCELED"}
Step == [type : StepTypes, approver : Employees, status : StepStatuses]
Action == [type : {"APPROVE", "REJECT"}, order : Orders, actor : Users]

(***************************************************************************)
(* Helpers of the service.                                                 *)
(***************************************************************************)
NoSteps == [o \in {} |-> NoOrder]

IsActionable(step) == step.type \in {"APPROVE", "AGREE", "CONSULT"}

\* Mutant: the step right after "from" is skipped (ApprovedByEveryApprover).
SkipsOne(rows, from, n) ==
  LET later == {o \in DOMAIN rows : o > from + 1 /\ IsActionable(rows[o])}
  IN  IF later = {} THEN n = NoOrder
                    ELSE n \in later /\ \A o \in later : n <= o

\* n is the order moveForwardToNextActionable returns from order "from" on.
IsNextActionable(rows, from, n) ==
  LET later == {o \in DOMAIN rows : o > from /\ IsActionable(rows[o])}
  IN  IF later = {} THEN n = NoOrder
                    ELSE n \in later /\ \A o \in later : n <= o

\* Mutant: the next actionable step is not opened (InReviewHasOneInbox).
ForwardedUnopened(rows, from, n) ==
  [o \in DOMAIN rows |->
     IF /\ o > from /\ (n = NoOrder \/ o < n)
        /\ ~IsActionable(rows[o]) /\ rows[o].status \in {"WAITING", "PENDING"}
     THEN [rows[o] EXCEPT !.status = "APPROVED"] ELSE rows[o]]

\* The rows it leaves: steps to be informed only are acknowledged on the way,
\* the next actionable one is opened.
Forwarded(rows, from, n) ==
  [o \in DOMAIN rows |->
     IF /\ o > from /\ (n = NoOrder \/ o < n)
        /\ ~IsActionable(rows[o]) /\ rows[o].status \in {"WAITING", "PENDING"}
     THEN [rows[o] EXCEPT !.status = "APPROVED"]
     ELSE IF o = n /\ rows[o].status = "WAITING"
          THEN [rows[o] EXCEPT !.status = "PENDING"]
          ELSE rows[o]]

\* Mutant: the line's status is copied as it is (TypeOK).
Copied(request, line) == IF request = "NONE" THEN "NONE" ELSE line

\* mapBusinessStatusFromApproval, applied to the linked row if there is one.
Synced(request, line) ==
  IF request = "NONE" THEN "NONE"
  ELSE IF line \in {"APPROVED", "REJECTED", "CANCELED"} THEN line ELSE "REQUESTED"

\* The step rows a routing (order -> type and approver) is created with.
FreshSteps(routing) ==
  [o \in DOMAIN routing |->
     [type |-> routing[o].type, approver |-> routing[o].approver, status |-> "WAITING"]]

\* Mutant: a new round keeps the approvals of the last (StepsMatchLine).
WaitingUnlessApproved(rows) ==
  [o \in DOMAIN rows |-> IF rows[o].status = "APPROVED" THEN rows[o]
                         ELSE [rows[o] EXCEPT !.status = "WAITING"]]

\* updateMany at the start of submit and resubmit.
Waiting(rows) == [o \in DOMAIN rows |-> [rows[o] EXCEPT !.status = "WAITING"]]

\* What configureLine accepts: at least one step, every orderNo once.
Routings == UNION {[D -> [type : Types, approver : Employees]] :
                     D \in (SUBSET Orders) \ {{}}}

Init ==
  /\ documentStatus = "NONE"
  /\ lineStatus = "NONE"
  /\ currentOrder = NoOrder
  /\ submittedBy = NoEmployee
  /\ steps = NoSteps
  /\ actions = {}
  /\ requestStatus = "NONE"

(***************************************************************************)
(* Documents.                                                              *)
(***************************************************************************)
CreateDocument(u) ==
  /\ documentStatus = "NONE"
  /\ documentStatus' = "DRAFT"
  /\ UNCHANGED <<lineStatus, currentOrder, submittedBy, steps, actions, requestStatus>>

\* A new version reopens the document, whatever its approval line says.
AddVersion(u) ==
  /\ documentStatus # "NONE"
  /\ documentStatus' = "DRAFT"
  /\ UNCHANGED <<lineStatus, currentOrder, submittedBy, steps, actions, requestStatus>>

(***************************************************************************)
(* Leave requests and attendance corrections: the document, its line (one  *)
(* APPROVE step per approver, submitted at once) and the row itself.       *)
(***************************************************************************)
CreateRequest(u, approvers) ==
  /\ documentStatus = "NONE"
  /\ EmployeeOf[u] # NoEmployee
  /\ requestStatus' = "REQUESTED"
  /\ actions' = {}
  /\ IF DOMAIN approvers = {}
     THEN /\ documentStatus' = "DRAFT"
          /\ UNCHANGED <<lineStatus, currentOrder, submittedBy, steps>>
     ELSE /\ documentStatus' = "IN_REVIEW"
          /\ lineStatus' = "IN_REVIEW"
          /\ currentOrder' = 1
          /\ submittedBy' = EmployeeOf[u]
          /\ steps' = [o \in DOMAIN approvers |->
                         [type |-> "APPROVE", approver |-> approvers[o],
                          status |-> IF o = 1 THEN "PENDING" ELSE "WAITING"]]

\* approverEmployeeIds: the approvers in order, numbered from 1.
ApproverLists == UNION {[1..n -> Employees] : n \in {m \in Orders \cup {0} : 1..m \subseteq Orders}}

(***************************************************************************)
(* Approval lines.                                                         *)
(***************************************************************************)
ConfigureLine(u, routing) ==
  /\ documentStatus # "NONE"
  /\ lineStatus # "IN_REVIEW"
  /\ lineStatus' = "DRAFT"
  /\ currentOrder' = NoOrder
  /\ submittedBy' = EmployeeOf[u]
  /\ steps' = FreshSteps(routing)
  /\ actions' = {}
  /\ UNCHANGED <<documentStatus, requestStatus>>

\* What submit and resubmit share once their guard has passed.
StartReview(u) ==
  /\ EmployeeOf[u] # NoEmployee
  /\ \E n \in Orders \cup {NoOrder} :
       /\ IsNextActionable(steps, 0, n)
       /\ steps' = Forwarded(Waiting(steps), 0, n)
       /\ lineStatus' = IF n = NoOrder THEN "APPROVED" ELSE "IN_REVIEW"
       /\ currentOrder' = n
  /\ documentStatus' = lineStatus'
  /\ submittedBy' = EmployeeOf[u]
  /\ actions' = {}
  /\ requestStatus' = Synced(requestStatus, lineStatus')

Submit(u) == lineStatus = "DRAFT" /\ StartReview(u)

Resubmit(u) == lineStatus \in {"REJECTED", "CANCELED"} /\ StartReview(u)

\* Mutant: any employee decides the open step (ApprovedByEveryApprover).
AnyoneMayDecide(u) ==
  /\ lineStatus = "IN_REVIEW"
  /\ EmployeeOf[u] # NoEmployee
  /\ currentOrder \in DOMAIN steps
  /\ steps[currentOrder].status = "PENDING"

\* The checks approve and reject begin with.
MayDecide(u) ==
  /\ lineStatus = "IN_REVIEW"
  /\ EmployeeOf[u] # NoEmployee
  /\ currentOrder \in DOMAIN steps
  /\ steps[currentOrder].status = "PENDING"
  /\ steps[currentOrder].approver = EmployeeOf[u]

Decided(status) == [steps EXCEPT ![currentOrder].status = status]

Approve(u) ==
  /\ MayDecide(u)
  /\ \E n \in Orders \cup {NoOrder} :
       /\ IsNextActionable(steps, currentOrder, n)
       /\ steps' = Forwarded(Decided("APPROVED"), currentOrder, n)
       /\ lineStatus' = IF n = NoOrder THEN "APPROVED" ELSE "IN_REVIEW"
       /\ currentOrder' = n
       /\ documentStatus' = IF n = NoOrder THEN "APPROVED" ELSE documentStatus
  /\ actions' = actions \cup {[type |-> "APPROVE", order |-> currentOrder, actor |-> u]}
  /\ requestStatus' = Synced(requestStatus, lineStatus')
  /\ UNCHANGED submittedBy

\* Mutant: the linked request is not synchronised (RequestFollowsLine).
RejectUnsynced(u) ==
  /\ MayDecide(u)
  /\ steps' = Decided("REJECTED")
  /\ lineStatus' = "REJECTED"
  /\ currentOrder' = NoOrder
  /\ documentStatus' = "REJECTED"
  /\ actions' = actions \cup {[type |-> "REJECT", order |-> currentOrder, actor |-> u]}
  /\ UNCHANGED <<submittedBy, requestStatus>>

Reject(u) ==
  /\ MayDecide(u)
  /\ steps' = Decided("REJECTED")
  /\ lineStatus' = "REJECTED"
  /\ currentOrder' = NoOrder
  /\ documentStatus' = "REJECTED"
  /\ actions' = actions \cup {[type |-> "REJECT", order |-> currentOrder, actor |-> u]}
  /\ requestStatus' = Synced(requestStatus, "REJECTED")
  /\ UNCHANGED submittedBy

\* Mutant: an approved line can be canceled (ApprovedRequestRevokedOnlyFromDraft).
MayCancelApproved(u) ==
  /\ lineStatus \in {"DRAFT", "IN_REVIEW", "REJECTED", "APPROVED"}
  /\ submittedBy = NoEmployee \/ submittedBy = EmployeeOf[u] \/ u \in Admins

\* A line nobody is recorded as the submitter of may be canceled by anyone.
MayCancel(u) ==
  /\ lineStatus \in {"DRAFT", "IN_REVIEW", "REJECTED"}
  /\ submittedBy = NoEmployee \/ submittedBy = EmployeeOf[u] \/ u \in Admins

\* Mutant: decided steps are canceled too (DecisionsStand).
CanceledAll(rows) == [o \in DOMAIN rows |-> [rows[o] EXCEPT !.status = "CANCELED"]]

\* Mutant: steps not reached yet are left waiting (LoneCancelCloses).
CanceledPending(rows) ==
  [o \in DOMAIN rows |->
     IF rows[o].status = "PENDING" THEN [rows[o] EXCEPT !.status = "CANCELED"] ELSE rows[o]]

Canceled(rows) ==
  [o \in DOMAIN rows |->
     IF rows[o].status \in {"PENDING", "WAITING"}
     THEN [rows[o] EXCEPT !.status = "CANCELED"] ELSE rows[o]]

\* Mutant: the document keeps its status (DocumentFollowsLine).
CancelLeavesDocument(u) ==
  /\ MayCancel(u)
  /\ steps' = Canceled(steps)
  /\ lineStatus' = "CANCELED"
  /\ currentOrder' = NoOrder
  /\ requestStatus' = Synced(requestStatus, "CANCELED")
  /\ UNCHANGED <<documentStatus, submittedBy, actions>>

Cancel(u) ==
  /\ MayCancel(u)
  /\ steps' = Canceled(steps)
  /\ lineStatus' = "CANCELED"
  /\ currentOrder' = NoOrder
  /\ documentStatus' = "CANCELED"
  /\ requestStatus' = Synced(requestStatus, "CANCELED")
  /\ UNCHANGED <<submittedBy, actions>>

Next ==
  \E u \in Users :
    \/ CreateDocument(u)
    \/ AddVersion(u)
    \/ \E approvers \in ApproverLists : CreateRequest(u, approvers)
    \/ \E routing \in Routings : ConfigureLine(u, routing)
    \/ Submit(u)
    \/ Resubmit(u)
    \/ Approve(u)
    \/ Reject(u)
    \/ Cancel(u)

Spec == Init /\ [][Next]_vars

(***************************************************************************)
(* Properties.                                                             *)
(***************************************************************************)
\* Every variable has its type: the rows hold values of the schema's enums, and
\* currentOrder is null or an order a step may have (schema.prisma).
TypeOK ==
  /\ documentStatus \in DocumentStatuses
  /\ lineStatus \in LineStatuses
  /\ currentOrder \in Orders \cup {NoOrder}
  /\ submittedBy \in Employees \cup {NoEmployee}
  /\ DOMAIN steps \subseteq Orders
  /\ steps \in [DOMAIN steps -> Step]
  /\ actions \subseteq Action
  /\ requestStatus \in RequestStatuses

\* Step o has this status, it is one somebody decides, everything before it has
\* been approved and nothing after it has been touched.
Frontier(o, status) ==
  /\ o \in DOMAIN steps
  /\ IsActionable(steps[o])
  /\ steps[o].status = status
  /\ \A p \in DOMAIN steps : /\ p < o => steps[p].status = "APPROVED"
                             /\ o < p => steps[p].status = "WAITING"

\* configureLine asks for at least one step: a line always has somebody to go to.
LineHasSteps == lineStatus = "NONE" <=> DOMAIN steps = {}

\* The step rows tell the same story as the line row, so the two tables the
\* handlers update separately never disagree: exactly one step is open while the
\* line is in review, it is the one currentOrder names, and steps are decided in
\* order; an approved line has no undecided step, a rejected one stopped at the
\* rejected step, a canceled one has nothing open.
StepsMatchLine ==
  /\ (lineStatus = "IN_REVIEW") <=> (currentOrder # NoOrder)
  /\ lineStatus = "DRAFT" => \A o \in DOMAIN steps : steps[o].status = "WAITING"
  /\ lineStatus = "IN_REVIEW" => Frontier(currentOrder, "PENDING")
  /\ lineStatus = "APPROVED" => \A o \in DOMAIN steps : steps[o].status = "APPROVED"
  /\ lineStatus = "REJECTED" => \E o \in DOMAIN steps : Frontier(o, "REJECTED")
  /\ lineStatus = "CANCELED" =>
       \A o \in DOMAIN steps : steps[o].status \in {"APPROVED", "REJECTED", "CANCELED"}

\* Order o was approved since the last (re)submission by the employee it names.
ApprovedByItsApprover(o) ==
  \E a \in actions : /\ a.type = "APPROVE" /\ a.order = o
                     /\ EmployeeOf[a.actor] = steps[o].approver

\* The approval trail supports the outcome: an approved line holds, for every
\* step that asks for a decision, an APPROVE action of that step's own approver
\* made in the current round; no resubmission inherits an earlier round's votes.
ApprovedByEveryApprover ==
  lineStatus = "APPROVED" =>
    \A o \in DOMAIN steps :
      steps[o].type \in {"APPROVE", "AGREE", "CONSULT"} => ApprovedByItsApprover(o)

\* The linked leave request or correction carries the outcome of its line
\* (syncBusinessStatusForDocument), from the moment the line is submitted.
RequestFollowsLine ==
  lineStatus \in {"IN_REVIEW", "APPROVED", "REJECTED", "CANCELED"} /\ requestStatus # "NONE"
    => requestStatus = Synced(requestStatus, lineStatus)

\* A submitted line's document shows the line's status, unless a new version has
\* put it back to DRAFT: it never shows a different outcome.
DocumentFollowsLine ==
  lineStatus \in {"IN_REVIEW", "APPROVED", "REJECTED", "CANCELED"}
    => documentStatus \in {lineStatus, "DRAFT"}

\* listInbox: the line is in the inbox of employee e.
InInbox(e) ==
  /\ lineStatus = "IN_REVIEW"
  /\ currentOrder \in DOMAIN steps
  /\ steps[currentOrder].status = "PENDING"
  /\ steps[currentOrder].approver = e

\* A line in review waits in exactly one employee's inbox: it is never lost
\* between two approvers and never asks two at once.
InReviewHasOneInbox ==
  lineStatus = "IN_REVIEW" => \E e \in Employees : \A f \in Employees : InInbox(f) <=> f = e

\* A decision stands until a new round or a new routing: no approve, reject or
\* cancel rewrites a step that was already approved or rejected.
DecisionsStand ==
  [][\A o \in DOMAIN steps :
        steps[o].status \in {"APPROVED", "REJECTED"} =>
          \/ o \in DOMAIN steps' /\ steps'[o] = steps[o]
          \/ lineStatus' = "DRAFT"
          \/ lineStatus \in {"REJECTED", "CANCELED"}
             /\ lineStatus' \in {"IN_REVIEW", "APPROVED"}]_vars

\* An approved leave request or correction loses its approval only after its
\* line was configured anew: no cancel, reject or resubmit reaches it before.
ApprovedRequestRevokedOnlyFromDraft ==
  [][requestStatus = "APPROVED" /\ requestStatus' # "APPROVED"
       => lineStatus = "DRAFT"]_vars

=============================================================================
