------------------------ MODULE ApprovalRequestsProofs ------------------------
(***************************************************************************)
(* Proofs about modules Approvals and ApprovalRequests, for every company  *)
(* (users, employees, administrators), routing and choice of step types:   *)
(* first what the handlers keep when each is one step, then what           *)
(* overlapping and cut short requests can and cannot do to an approval     *)
(* line, for any number of requests in flight and of crashes.              *)
(***************************************************************************)
EXTENDS ApprovalRequests, TLAPS

(***************************************************************************)
(* Orders are positive, so 0 can stand for a currentOrder that is null.    *)
(***************************************************************************)
LEMMA OrdersArePositive ==
  /\ NoOrder \notin Orders
  /\ Orders \subseteq Nat
  /\ \A o \in Orders : o > 0
<1>1. Orders \subseteq Nat \ {0} BY ApprovalsAssumption
<1> QED BY <1>1 DEF NoOrder

(***************************************************************************)
(* moveForwardToNextActionable leaves rows with the orders, types and      *)
(* approvers it found, and touches no row at or before "from".             *)
(***************************************************************************)
LEMMA ForwardedRows ==
  ASSUME NEW rows, NEW from \in Nat, NEW n \in Orders \cup {NoOrder},
         DOMAIN rows \subseteq Orders, rows \in [DOMAIN rows -> Step]
  PROVE  /\ DOMAIN Forwarded(rows, from, n) = DOMAIN rows
         /\ Forwarded(rows, from, n) \in [DOMAIN rows -> Step]
         /\ \A o \in DOMAIN rows :
              /\ Forwarded(rows, from, n)[o].type = rows[o].type
              /\ Forwarded(rows, from, n)[o].approver = rows[o].approver
              /\ o <= from /\ n # o => Forwarded(rows, from, n)[o] = rows[o]
<1> DEFINE fwd == Forwarded(rows, from, n)
<1>1. DOMAIN fwd = DOMAIN rows BY DEF Forwarded
<1>2. ASSUME NEW o \in DOMAIN rows
      PROVE  /\ fwd[o] \in Step
             /\ fwd[o].type = rows[o].type
             /\ fwd[o].approver = rows[o].approver
             /\ o <= from /\ n # o => fwd[o] = rows[o]
  <2>1. rows[o] \in Step /\ o \in Nat BY <1>2, OrdersArePositive
  <2>2. fwd[o] \in {rows[o], [rows[o] EXCEPT !.status = "APPROVED"],
                    [rows[o] EXCEPT !.status = "PENDING"]}
    BY <1>2 DEF Forwarded
  <2>3. o <= from /\ n # o => fwd[o] = rows[o]
    BY <1>2, <2>1 DEF Forwarded
  <2> QED BY <2>1, <2>2, <2>3 DEF Step, StepStatuses
<1>3. fwd \in [DOMAIN rows -> Step]
  <2>1. fwd = [o \in DOMAIN rows |-> fwd[o]] BY <1>1 DEF Forwarded
  <2> QED BY <1>2, <2>1
<1> QED BY <1>1, <1>2, <1>3

(***************************************************************************)
(* What the other row helpers return.                                      *)
(***************************************************************************)
LEMMA RowHelpers ==
  ASSUME NEW rows, DOMAIN rows \subseteq Orders, rows \in [DOMAIN rows -> Step]
  PROVE  /\ DOMAIN Waiting(rows) = DOMAIN rows
         /\ Waiting(rows) \in [DOMAIN rows -> Step]
         /\ DOMAIN Canceled(rows) = DOMAIN rows
         /\ Canceled(rows) \in [DOMAIN rows -> Step]
<1>1. \A o \in DOMAIN rows : /\ [rows[o] EXCEPT !.status = "WAITING"] \in Step
                             /\ [rows[o] EXCEPT !.status = "CANCELED"] \in Step
  BY DEF Step, StepStatuses
<1> QED BY <1>1 DEF Waiting, Canceled

LEMMA SyncedStatus ==
  ASSUME NEW request \in RequestStatuses, NEW line
  PROVE  Synced(request, line) \in RequestStatuses
BY DEF Synced, RequestStatuses

(***************************************************************************)
(* Types.                                                                  *)
(***************************************************************************)
LEMMA TypeInit == Init => TypeOK
BY DEF Init, TypeOK, NoSteps, DocumentStatuses, LineStatuses, RequestStatuses

LEMMA TypeStep == TypeOK /\ [Next]_vars => TypeOK'
<1> SUFFICES ASSUME TypeOK, [Next]_vars PROVE TypeOK'
  OBVIOUS
<1> USE OrdersArePositive
<1>1. ASSUME NEW u \in Users, CreateDocument(u) PROVE TypeOK'
  BY <1>1 DEF CreateDocument, TypeOK, DocumentStatuses
<1>2. ASSUME NEW u \in Users, AddVersion(u) PROVE TypeOK'
  BY <1>2 DEF AddVersion, TypeOK, DocumentStatuses
<1>3. ASSUME NEW u \in Users, NEW approvers \in ApproverLists, CreateRequest(u, approvers)
      PROVE TypeOK'
  <2>1. PICK m \in Orders \cup {0} : 1..m \subseteq Orders /\ approvers \in [1..m -> Employees]
    BY DEF ApproverLists
  <2>2. CASE DOMAIN approvers = {}
    BY <1>3, <2>2 DEF CreateRequest, TypeOK, DocumentStatuses, RequestStatuses
  <2>3. CASE DOMAIN approvers # {}
    <3>1. 1 \in Orders BY <2>1, <2>3
    <3>2. DOMAIN steps' \subseteq Orders /\ steps' \in [DOMAIN steps' -> Step]
      <4>1. steps' = [o \in DOMAIN approvers |->
                        [type |-> "APPROVE", approver |-> approvers[o],
                         status |-> IF o = 1 THEN "PENDING" ELSE "WAITING"]]
        BY <1>3, <2>3 DEF CreateRequest
      <4>2. /\ DOMAIN approvers \subseteq Orders
            /\ \A o \in DOMAIN approvers : approvers[o] \in Employees
        BY <2>1
      <4>3. ASSUME NEW e \in Employees, NEW st \in StepStatuses
            PROVE [type |-> "APPROVE", approver |-> e, status |-> st] \in Step
        BY DEF Step, StepTypes
      <4>4. "PENDING" \in StepStatuses /\ "WAITING" \in StepStatuses
        BY DEF StepStatuses
      <4>5. \A o \in DOMAIN approvers :
              [type |-> "APPROVE", approver |-> approvers[o],
               status |-> IF o = 1 THEN "PENDING" ELSE "WAITING"] \in Step
        BY <4>2, <4>3, <4>4
      <4>6. QED
        BY <4>1, <4>2, <4>5
    <3>3. submittedBy' \in Employees \cup {NoEmployee}
      BY <1>3, <2>3, ApprovalsAssumption DEF CreateRequest
    <3> QED BY <1>3, <2>3, <3>1, <3>2, <3>3
            DEF CreateRequest, TypeOK, DocumentStatuses, LineStatuses, RequestStatuses
  <2> QED BY <2>2, <2>3
<1>4. ASSUME NEW u \in Users, NEW routing \in Routings, ConfigureLine(u, routing)
      PROVE TypeOK'
  <2>1. PICK D \in SUBSET Orders : routing \in [D -> [type : Types, approver : Employees]]
    BY DEF Routings
  <2>2. DOMAIN steps' \subseteq Orders /\ steps' \in [DOMAIN steps' -> Step]
    BY <1>4, <2>1, ApprovalsAssumption DEF ConfigureLine, FreshSteps, Step, StepStatuses
  <2>3. submittedBy' \in Employees \cup {NoEmployee}
    BY <1>4, ApprovalsAssumption DEF ConfigureLine
  <2> QED BY <1>4, <2>2, <2>3 DEF ConfigureLine, TypeOK, LineStatuses, DocumentStatuses
<1>5. ASSUME NEW u \in Users, StartReview(u) PROVE TypeOK'
  <2>1. PICK n \in Orders \cup {NoOrder} :
          /\ steps' = Forwarded(Waiting(steps), 0, n)
          /\ lineStatus' = IF n = NoOrder THEN "APPROVED" ELSE "IN_REVIEW"
          /\ currentOrder' = n
    BY <1>5 DEF StartReview
  <2>2. DOMAIN steps' \subseteq Orders /\ steps' \in [DOMAIN steps' -> Step]
    <3>1. DOMAIN Waiting(steps) = DOMAIN steps /\ Waiting(steps) \in [DOMAIN steps -> Step]
      BY RowHelpers DEF TypeOK
    <3>2. /\ DOMAIN Waiting(steps) \subseteq Orders
          /\ Waiting(steps) \in [DOMAIN Waiting(steps) -> Step] /\ 0 \in Nat
      BY <3>1 DEF TypeOK
    <3>3. /\ DOMAIN Forwarded(Waiting(steps), 0, n) = DOMAIN Waiting(steps)
          /\ Forwarded(Waiting(steps), 0, n) \in [DOMAIN Waiting(steps) -> Step]
      BY <3>2, ForwardedRows
    <3> QED BY <2>1, <3>2, <3>3
  <2>3. requestStatus' \in RequestStatuses
    BY <1>5, SyncedStatus DEF StartReview, TypeOK
  <2>4. submittedBy' \in Employees \cup {NoEmployee}
    BY <1>5, ApprovalsAssumption DEF StartReview
  <2>5. lineStatus' \in LineStatuses /\ documentStatus' \in DocumentStatuses /\ actions' = {}
    BY <1>5, <2>1 DEF StartReview, LineStatuses, DocumentStatuses
  <2> QED BY <2>1, <2>2, <2>3, <2>4, <2>5 DEF TypeOK
<1>6. ASSUME NEW u \in Users, Approve(u) PROVE TypeOK'
  <2>1. PICK n \in Orders \cup {NoOrder} :
          /\ steps' = Forwarded(Decided("APPROVED"), currentOrder, n)
          /\ lineStatus' = IF n = NoOrder THEN "APPROVED" ELSE "IN_REVIEW"
          /\ currentOrder' = n
          /\ documentStatus' = IF n = NoOrder THEN "APPROVED" ELSE documentStatus
    BY <1>6 DEF Approve
  <2>2. currentOrder \in Orders BY <1>6 DEF Approve, MayDecide, TypeOK
  <2>3. DOMAIN steps' \subseteq Orders /\ steps' \in [DOMAIN steps' -> Step]
    <3>1. /\ DOMAIN Decided("APPROVED") = DOMAIN steps
          /\ Decided("APPROVED") \in [DOMAIN steps -> Step]
      BY DEF Decided, TypeOK, Step, StepStatuses
    <3> QED BY <2>1, <2>2, <3>1, ForwardedRows DEF TypeOK
  <2>4. requestStatus' \in RequestStatuses
    BY <1>6, SyncedStatus DEF Approve, TypeOK
  <2>5. actions' \subseteq Action
    BY <1>6, <2>2 DEF Approve, TypeOK, Action
  <2>6. lineStatus' \in LineStatuses /\ documentStatus' \in DocumentStatuses
    BY <2>1 DEF TypeOK, LineStatuses, DocumentStatuses
  <2> QED BY <1>6, <2>1, <2>3, <2>4, <2>5, <2>6 DEF Approve, TypeOK
<1>7. ASSUME NEW u \in Users, Reject(u) PROVE TypeOK'
  <2>1. currentOrder \in Orders BY <1>7 DEF Reject, MayDecide, TypeOK
  <2>2. DOMAIN steps' \subseteq Orders /\ steps' \in [DOMAIN steps' -> Step]
    BY <1>7 DEF Reject, Decided, TypeOK, Step, StepStatuses
  <2>3. actions' \subseteq Action
    BY <1>7, <2>1 DEF Reject, TypeOK, Action
  <2>4. requestStatus' \in RequestStatuses
    BY <1>7, SyncedStatus DEF Reject, TypeOK
  <2> QED BY <1>7, <2>2, <2>3, <2>4 DEF Reject, TypeOK, LineStatuses, DocumentStatuses
<1>8. ASSUME NEW u \in Users, Cancel(u) PROVE TypeOK'
  <2>1. DOMAIN steps' \subseteq Orders /\ steps' \in [DOMAIN steps' -> Step]
    BY <1>8, RowHelpers DEF Cancel, TypeOK
  <2>2. requestStatus' \in RequestStatuses
    BY <1>8, SyncedStatus DEF Cancel, TypeOK
  <2> QED BY <1>8, <2>1, <2>2 DEF Cancel, TypeOK, LineStatuses, DocumentStatuses
<1>9. CASE UNCHANGED vars
  BY <1>9 DEF vars, TypeOK
<1> QED BY <1>1, <1>2, <1>3, <1>4, <1>5, <1>6, <1>7, <1>8, <1>9 DEF Next, Submit, Resubmit

\* The rows of the approval tables stay within the schema's types: currentOrder
\* is null or one of the line's possible orders, whatever requests are served.
THEOREM TypeCorrect == Spec => []TypeOK
BY TypeInit, TypeStep, PTL DEF Spec

(***************************************************************************)
(* The inductive invariant.  Beside the properties themselves it says      *)
(* where the votes, the document and the linked request stand:             *)
(*  - a decision step shown as approved has its approver's APPROVE action  *)
(*    of the current round (an approved line then has all of them);        *)
(*  - nothing else exists before the document does, so a request created   *)
(*    together with its document finds no line in its way;                 *)
(*  - an approved request's line is approved, or has been configured anew. *)
(***************************************************************************)
ApprovalsOnRecord ==
  \A o \in DOMAIN steps :
    IsActionable(steps[o]) /\ steps[o].status = "APPROVED" => ApprovedByItsApprover(o)

DocumentComesFirst ==
  documentStatus = "NONE" => lineStatus = "NONE" /\ requestStatus = "NONE"

ApprovedRequestHasApprovedLine ==
  requestStatus = "APPROVED" => lineStatus \in {"APPROVED", "DRAFT"}

IInv ==
  /\ TypeOK
  /\ LineHasSteps
  /\ StepsMatchLine
  /\ ApprovalsOnRecord
  /\ DocumentComesFirst
  /\ DocumentFollowsLine
  /\ RequestFollowsLine
  /\ ApprovedRequestHasApprovedLine

(***************************************************************************)
(* moveForwardToNextActionable: it opens the order it returns, and of the  *)
(* steps it passes over none asks for a decision.                          *)
(***************************************************************************)
OpensNext(rows, from, n) ==
  /\ n # NoOrder =>
       /\ n \in DOMAIN rows /\ n > from /\ IsActionable(rows[n])
       /\ rows[n].status = "WAITING" =>
            Forwarded(rows, from, n)[n] = [rows[n] EXCEPT !.status = "PENDING"]
  /\ \A o \in DOMAIN rows :
       /\ o > from /\ (n = NoOrder \/ o < n) =>
            /\ ~IsActionable(rows[o])
            /\ rows[o].status = "WAITING" =>
                 Forwarded(rows, from, n)[o] = [rows[o] EXCEPT !.status = "APPROVED"]
       /\ o <= from \/ (n # NoOrder /\ o > n) =>
            n = o \/ Forwarded(rows, from, n)[o] = rows[o]

LEMMA ForwardedStatuses ==
  ASSUME NEW rows, NEW from \in Nat, NEW n \in Orders \cup {NoOrder},
         DOMAIN rows \subseteq Orders, IsNextActionable(rows, from, n)
  PROVE  OpensNext(rows, from, n)
<1> USE OrdersArePositive
<1> DEFINE later == {o \in DOMAIN rows : o > from /\ IsActionable(rows[o])}
<1>1. n # NoOrder => n \in later /\ \A o \in later : n <= o
  BY DEF IsNextActionable
<1>2. n = NoOrder => later = {}
  BY DEF IsNextActionable
<1>3. n # NoOrder => n \in Nat
  OBVIOUS
<1>4. n # NoOrder =>
        /\ n \in DOMAIN rows /\ n > from /\ IsActionable(rows[n])
        /\ rows[n].status = "WAITING" =>
             Forwarded(rows, from, n)[n] = [rows[n] EXCEPT !.status = "PENDING"]
  BY <1>1, <1>3 DEF Forwarded
<1>5. ASSUME NEW o \in DOMAIN rows, o > from, n = NoOrder \/ o < n
      PROVE  /\ ~IsActionable(rows[o])
             /\ rows[o].status = "WAITING" =>
                  Forwarded(rows, from, n)[o] = [rows[o] EXCEPT !.status = "APPROVED"]
  <2>1. o \notin later
    <3>1. CASE n = NoOrder BY <3>1, <1>2
    <3>2. CASE n # NoOrder
      <4>1. o < n /\ o \in Nat /\ n \in Nat BY <3>2, <1>5, <1>3
      <4> QED BY <4>1, <3>2, <1>1
    <3> QED BY <3>1, <3>2
  <2>2. ~IsActionable(rows[o]) BY <2>1, <1>5
  <2> QED BY <1>5, <2>2 DEF Forwarded
<1>6. ASSUME NEW o \in DOMAIN rows, o <= from \/ (n # NoOrder /\ o > n), n # o
      PROVE  Forwarded(rows, from, n)[o] = rows[o]
  <2>1. o \in Nat /\ from \in Nat OBVIOUS
  <2>2. ~(o > from /\ (n = NoOrder \/ o < n)) BY <2>1, <1>6, <1>3
  <2> QED BY <1>6, <2>2 DEF Forwarded
<1> QED BY <1>4, <1>5, <1>6 DEF OpensNext

(***************************************************************************)
(* A round that starts from reset rows opens on its first decision step.   *)
(***************************************************************************)
LEMMA StartReviewCoherent ==
  ASSUME TypeOK, LineHasSteps, lineStatus # "NONE", NEW u \in Users, StartReview(u)
  PROVE  LineHasSteps' /\ StepsMatchLine' /\ ApprovalsOnRecord'
<1>1. PICK n \in Orders \cup {NoOrder} :
        /\ IsNextActionable(steps, 0, n)
        /\ steps' = Forwarded(Waiting(steps), 0, n)
        /\ lineStatus' = IF n = NoOrder THEN "APPROVED" ELSE "IN_REVIEW"
        /\ currentOrder' = n
  BY DEF StartReview
<1> DEFINE fresh == Waiting(steps)
<1>2. /\ DOMAIN fresh = DOMAIN steps /\ DOMAIN fresh \subseteq Orders
      /\ fresh \in [DOMAIN fresh -> Step]
      /\ \A o \in DOMAIN fresh : fresh[o].type = steps[o].type /\ fresh[o].status = "WAITING"
  BY RowHelpers DEF TypeOK, Waiting, Step
<1>3. 0 \in Nat
  OBVIOUS
<1> HIDE DEF fresh
<1>4. IsNextActionable(fresh, 0, n)
  BY <1>1, <1>2 DEF IsNextActionable, IsActionable
<1>5. steps' = Forwarded(fresh, 0, n)
  BY <1>1 DEF fresh
<1>6. /\ DOMAIN steps' = DOMAIN fresh
      /\ \A o \in DOMAIN fresh : steps'[o].type = fresh[o].type
  BY <1>5, <1>3, <1>2, ForwardedRows
<1>7. /\ n # NoOrder => n \in DOMAIN fresh /\ IsActionable(fresh[n]) /\ steps'[n].status = "PENDING"
      /\ \A o \in DOMAIN fresh :
           /\ n = NoOrder \/ o < n => ~IsActionable(fresh[o]) /\ steps'[o].status = "APPROVED"
           /\ n # NoOrder /\ o > n => steps'[o].status = "WAITING"
  <2>1. fresh[n] \in Step \/ n = NoOrder \/ n \notin DOMAIN fresh BY <1>2
  <2>2. \A o \in DOMAIN fresh : fresh[o] \in Step /\ o > 0 /\ o \in Nat
    BY <1>2, OrdersArePositive
  <2>3. /\ n # NoOrder =>
             /\ n \in DOMAIN fresh /\ n > 0 /\ IsActionable(fresh[n])
             /\ fresh[n].status = "WAITING" =>
                  Forwarded(fresh, 0, n)[n] = [fresh[n] EXCEPT !.status = "PENDING"]
        /\ \A o \in DOMAIN fresh :
             /\ o > 0 /\ (n = NoOrder \/ o < n) =>
                  /\ ~IsActionable(fresh[o])
                  /\ fresh[o].status = "WAITING" =>
                       Forwarded(fresh, 0, n)[o] = [fresh[o] EXCEPT !.status = "APPROVED"]
             /\ o <= 0 \/ (n # NoOrder /\ o > n) =>
                  n = o \/ Forwarded(fresh, 0, n)[o] = fresh[o]
    <3>1. OpensNext(fresh, 0, n)
      BY <1>3, <1>2, <1>4, ForwardedStatuses
    <3> QED BY <3>1 DEF OpensNext
  <2>4. ASSUME NEW o \in DOMAIN fresh, n = NoOrder \/ o < n
        PROVE  ~IsActionable(fresh[o]) /\ steps'[o].status = "APPROVED"
    BY <1>5, <1>2, <2>2, <2>3, <2>4 DEF Step
  <2>5. ASSUME NEW o \in DOMAIN fresh, n # NoOrder, o > n
        PROVE  steps'[o].status = "WAITING"
    <3>1. n # o BY <2>2, <2>5, OrdersArePositive
    <3> QED BY <3>1, <1>5, <1>2, <2>3, <2>5
  <2> QED BY <1>5, <1>2, <2>3, <2>4, <2>5 DEF Step
<1>8. \A o \in DOMAIN steps' : IsActionable(steps'[o]) <=> IsActionable(fresh[o])
  BY <1>6 DEF IsActionable
<1>9. LineHasSteps'
  BY <1>1, <1>2, <1>6 DEF LineHasSteps
<1>10. StepsMatchLine'
  <2>1. CASE n = NoOrder
    BY <2>1, <1>1, <1>6, <1>7 DEF StepsMatchLine
  <2>2. CASE n # NoOrder
    <3>1. Frontier(n, "PENDING")'
      BY <2>2, <1>6, <1>7, <1>8 DEF Frontier
    <3> QED BY <2>2, <3>1, <1>1 DEF StepsMatchLine
  <2> QED BY <2>1, <2>2
<1>11. ApprovalsOnRecord'
  <2> SUFFICES ASSUME NEW o \in DOMAIN steps', IsActionable(steps'[o]),
                      steps'[o].status = "APPROVED"
               PROVE  FALSE
    BY DEF ApprovalsOnRecord
  <2>1. IsActionable(fresh[o]) /\ o \in DOMAIN fresh BY <1>6, <1>8
  <2>2. n # NoOrder /\ ~(o < n) /\ ~(o > n) BY <2>1, <1>7
  <2>3. o = n BY <2>1, <2>2, <1>2, OrdersArePositive
  <2> QED BY <2>2, <2>3, <1>7
<1> QED BY <1>9, <1>10, <1>11

(***************************************************************************)
(* An approval moves the frontier to the next decision step, or past the   *)
(* last one, and puts the vote on record.                                  *)
(***************************************************************************)
LEMMA ApproveCoherent ==
  ASSUME TypeOK, LineHasSteps, StepsMatchLine, ApprovalsOnRecord,
         NEW u \in Users, Approve(u)
  PROVE  LineHasSteps' /\ StepsMatchLine' /\ ApprovalsOnRecord'
<1> DEFINE c == currentOrder
           decided == Decided("APPROVED")
<1>1. PICK n \in Orders \cup {NoOrder} :
        /\ IsNextActionable(steps, c, n)
        /\ steps' = Forwarded(decided, c, n)
        /\ lineStatus' = IF n = NoOrder THEN "APPROVED" ELSE "IN_REVIEW"
        /\ currentOrder' = n
  BY DEF Approve
<1>2. /\ lineStatus = "IN_REVIEW" /\ c \in DOMAIN steps /\ c \in Nat
      /\ EmployeeOf[u] = steps[c].approver
      /\ \A o \in DOMAIN steps : /\ o < c => steps[o].status = "APPROVED"
                                 /\ c < o => steps[o].status = "WAITING"
  BY OrdersArePositive DEF Approve, MayDecide, StepsMatchLine, Frontier, TypeOK
<1>3. /\ DOMAIN decided = DOMAIN steps /\ DOMAIN decided \subseteq Orders
      /\ decided \in [DOMAIN decided -> Step]
      /\ decided[c].status = "APPROVED"
      /\ \A o \in DOMAIN steps : /\ decided[o].type = steps[o].type
                                 /\ decided[o].approver = steps[o].approver
                                 /\ o # c => decided[o] = steps[o]
  BY <1>2 DEF Decided, TypeOK, Step, StepStatuses
<1> HIDE DEF c, decided
<1>4. IsNextActionable(decided, c, n)
  BY <1>1, <1>3 DEF IsNextActionable, IsActionable
<1>5. /\ DOMAIN steps' = DOMAIN steps
      /\ \A o \in DOMAIN steps : /\ steps'[o].type = steps[o].type
                                 /\ steps'[o].approver = steps[o].approver
  <2>1. /\ DOMAIN Forwarded(decided, c, n) = DOMAIN decided
        /\ \A o \in DOMAIN decided :
             /\ Forwarded(decided, c, n)[o].type = decided[o].type
             /\ Forwarded(decided, c, n)[o].approver = decided[o].approver
    BY <1>2, <1>3, ForwardedRows
  <2> QED BY <2>1, <1>1, <1>3
<1>6. /\ n # NoOrder =>
           /\ n \in DOMAIN decided /\ n > c /\ IsActionable(decided[n])
           /\ decided[n].status = "WAITING" =>
                Forwarded(decided, c, n)[n] = [decided[n] EXCEPT !.status = "PENDING"]
      /\ \A o \in DOMAIN decided :
           /\ o > c /\ (n = NoOrder \/ o < n) =>
                /\ ~IsActionable(decided[o])
                /\ decided[o].status = "WAITING" =>
                     Forwarded(decided, c, n)[o] = [decided[o] EXCEPT !.status = "APPROVED"]
           /\ o <= c \/ (n # NoOrder /\ o > n) =>
                n = o \/ Forwarded(decided, c, n)[o] = decided[o]
  <2>1. OpensNext(decided, c, n)
    BY <1>2, <1>3, <1>4, ForwardedStatuses
  <2> QED BY <2>1 DEF OpensNext
<1>7. \A o \in DOMAIN steps : o \in Nat /\ decided[o] \in Step
  BY <1>3, OrdersArePositive
<1>8. /\ n \in Nat /\ (n = NoOrder => ~(n > c))
  BY <1>2, <1>3, OrdersArePositive DEF NoOrder
<1>9. ASSUME NEW o \in DOMAIN steps, o < c \/ o = c
      PROVE  steps'[o] = decided[o] /\ steps'[o].status = "APPROVED"
  <2>1. n # o
    <3>1. o \in Orders /\ o # NoOrder BY <1>3, OrdersArePositive
    <3>2. n # NoOrder => n > c BY <1>6
    <3> QED BY <3>1, <3>2, <1>2, <1>7, <1>8, <1>9
  <2>2. o <= c BY <1>2, <1>7, <1>9
  <2>3. steps'[o] = decided[o] BY <2>1, <2>2, <1>1, <1>3, <1>6
  <2> QED BY <2>3, <1>2, <1>3, <1>9
<1>10. ASSUME NEW o \in DOMAIN steps, c < o, n = NoOrder \/ o < n
       PROVE  ~IsActionable(decided[o]) /\ steps'[o].status = "APPROVED"
  <2>1. o # c /\ o > c BY <1>2, <1>7, <1>10
  <2>2. decided[o].status = "WAITING" BY <2>1, <1>2, <1>3, <1>10
  <2>3. /\ ~IsActionable(decided[o])
        /\ steps'[o] = [decided[o] EXCEPT !.status = "APPROVED"]
    BY <2>1, <2>2, <1>1, <1>3, <1>6, <1>10
  <2> QED BY <2>3, <1>7 DEF Step
<1>11. ASSUME n # NoOrder
       PROVE  /\ n \in DOMAIN steps /\ IsActionable(decided[n]) /\ n > c
              /\ steps'[n].status = "PENDING"
              /\ \A o \in DOMAIN steps : n < o => steps'[o].status = "WAITING"
  <2>1. n \in DOMAIN steps /\ IsActionable(decided[n]) /\ n > c BY <1>3, <1>6, <1>11
  <2>2. decided[n].status = "WAITING" BY <2>1, <1>2, <1>3, <1>7
  <2>3. steps'[n].status = "PENDING" BY <2>1, <2>2, <1>1, <1>6, <1>7, <1>11 DEF Step
  <2>4. ASSUME NEW o \in DOMAIN steps, n < o PROVE steps'[o].status = "WAITING"
    <3>1. o > n /\ o # n /\ c < o /\ o # c BY <2>1, <2>4, <1>2, <1>7, <1>8
    <3>2. steps'[o] = decided[o] BY <3>1, <1>1, <1>3, <1>6, <1>11
    <3> QED BY <3>1, <3>2, <1>2, <1>3
  <2> QED BY <2>1, <2>3, <2>4
<1>12. \A o \in DOMAIN steps' : IsActionable(steps'[o]) <=> IsActionable(decided[o])
  BY <1>3, <1>5 DEF IsActionable
<1>13. LineHasSteps'
  BY <1>1, <1>2, <1>5 DEF LineHasSteps
<1>14. StepsMatchLine'
  <2>1. CASE n = NoOrder
    <3>1. \A o \in DOMAIN steps' : steps'[o].status = "APPROVED"
      BY <2>1, <1>2, <1>5, <1>7, <1>9, <1>10
    <3> QED BY <2>1, <3>1, <1>1 DEF StepsMatchLine
  <2>2. CASE n # NoOrder
    <3>1. \A p \in DOMAIN steps' : p < n => steps'[p].status = "APPROVED"
      BY <2>2, <1>2, <1>5, <1>7, <1>9, <1>10
    <3>2. Frontier(n, "PENDING")'
      BY <2>2, <3>1, <1>5, <1>11, <1>12 DEF Frontier
    <3> QED BY <2>2, <3>2, <1>1 DEF StepsMatchLine
  <2> QED BY <2>1, <2>2
<1>15. ApprovalsOnRecord'
  <2> SUFFICES ASSUME NEW o \in DOMAIN steps', IsActionable(steps'[o]),
                      steps'[o].status = "APPROVED"
               PROVE  ApprovedByItsApprover(o)'
    BY DEF ApprovalsOnRecord
  <2>1. o \in DOMAIN steps /\ IsActionable(decided[o]) BY <1>5, <1>12
  <2>2. actions' = actions \cup {[type |-> "APPROVE", order |-> c, actor |-> u]}
    BY DEF Approve, c
  <2>3. CASE o < c
    <3>1. IsActionable(steps[o]) /\ steps[o].status = "APPROVED"
      BY <2>1, <2>3, <1>2, <1>3 DEF IsActionable
    <3>2. ApprovedByItsApprover(o) BY <2>1, <3>1 DEF ApprovalsOnRecord
    <3> QED BY <2>1, <2>2, <3>2, <1>5 DEF ApprovedByItsApprover
  <2>4. CASE o = c
    <3> DEFINE vote == [type |-> "APPROVE", order |-> c, actor |-> u]
    <3>1. vote \in actions' /\ vote.type = "APPROVE" /\ vote.order = o
      BY <2>2, <2>4
    <3>2. EmployeeOf[vote.actor] = steps'[o].approver
      BY <2>1, <2>4, <1>2, <1>5
    <3> QED BY <3>1, <3>2 DEF ApprovedByItsApprover
  <2>5. CASE c < o
    <3>1. n # NoOrder /\ ~(o < n) BY <2>1, <2>5, <1>10
    <3>2. ~(n < o) BY <2>1, <3>1, <1>11
    <3>3. o = n BY <2>1, <3>1, <3>2, <1>7, <1>8
    <3> QED BY <3>1, <3>3, <1>11
  <2> QED BY <2>1, <2>3, <2>4, <2>5, <1>2, <1>7
<1> QED BY <1>13, <1>14, <1>15

(***************************************************************************)
(* The linked request after a handler that synchronises it.                *)
(***************************************************************************)
LEMMA SyncedRequest ==
  ASSUME requestStatus' = Synced(requestStatus, lineStatus'),
         lineStatus' \in {"IN_REVIEW", "APPROVED", "REJECTED", "CANCELED"}
  PROVE  RequestFollowsLine' /\ ApprovedRequestHasApprovedLine'
BY DEF Synced, RequestFollowsLine, ApprovedRequestHasApprovedLine

(***************************************************************************)
(* Every handler preserves the inductive invariant.                        *)
(***************************************************************************)
LEMMA InvariantInit == Init => IInv
<1> SUFFICES ASSUME Init PROVE IInv
  OBVIOUS
<1>1. TypeOK BY TypeInit
<1>2. DOMAIN steps = {} BY DEF Init, NoSteps
<1>3. StepsMatchLine
  BY <1>2 DEF Init, StepsMatchLine
<1> QED BY <1>1, <1>2, <1>3
        DEF IInv, Init, LineHasSteps, ApprovalsOnRecord, DocumentComesFirst,
            DocumentFollowsLine, RequestFollowsLine, ApprovedRequestHasApprovedLine

LEMMA InvariantStep == IInv /\ [Next]_vars => IInv'
<1> SUFFICES ASSUME IInv, [Next]_vars PROVE IInv'
  OBVIOUS
<1>1. TypeOK' BY TypeStep DEF IInv
<1>2. ASSUME NEW u \in Users, CreateDocument(u) \/ AddVersion(u) PROVE IInv'
  <2>1. /\ documentStatus' = "DRAFT"
        /\ documentStatus = "NONE" \/ documentStatus # "NONE"
        /\ UNCHANGED <<lineStatus, currentOrder, submittedBy, steps, actions, requestStatus>>
    BY <1>2 DEF CreateDocument, AddVersion
  <2>2. LineHasSteps' /\ StepsMatchLine' /\ ApprovalsOnRecord'
    BY <2>1 DEF IInv, LineHasSteps, StepsMatchLine, Frontier, ApprovalsOnRecord,
                ApprovedByItsApprover
  <2>3. DocumentComesFirst' /\ DocumentFollowsLine'
    BY <2>1 DEF DocumentComesFirst, DocumentFollowsLine
  <2>4. RequestFollowsLine' /\ ApprovedRequestHasApprovedLine'
    BY <2>1 DEF IInv, RequestFollowsLine, ApprovedRequestHasApprovedLine
  <2> QED BY <1>1, <2>2, <2>3, <2>4 DEF IInv
<1>3. ASSUME NEW u \in Users, NEW approvers \in ApproverLists, CreateRequest(u, approvers)
      PROVE IInv'
  <2>1. lineStatus = "NONE" /\ DOMAIN steps = {} /\ requestStatus' = "REQUESTED" /\ actions' = {}
    BY <1>3 DEF IInv, CreateRequest, DocumentComesFirst, LineHasSteps
  <2>2. documentStatus' \in {"DRAFT", "IN_REVIEW"}
    BY <1>3 DEF CreateRequest
  <2>3. ApprovedRequestHasApprovedLine' /\ DocumentComesFirst' /\ RequestFollowsLine'
    BY <1>3, <2>1, <2>2 DEF CreateRequest, ApprovedRequestHasApprovedLine, DocumentComesFirst,
                       RequestFollowsLine, Synced
  <2>4. CASE DOMAIN approvers = {}
    <3>1. UNCHANGED <<lineStatus, currentOrder, submittedBy, steps>> /\ documentStatus' = "DRAFT"
      BY <1>3, <2>4 DEF CreateRequest
    <3>2. LineHasSteps' /\ ApprovalsOnRecord' /\ DocumentFollowsLine'
      BY <2>1, <3>1 DEF LineHasSteps, ApprovalsOnRecord, DocumentFollowsLine
    <3>3. StepsMatchLine'
      BY <2>1, <3>1 DEF IInv, StepsMatchLine
    <3> QED BY <1>1, <2>3, <3>2, <3>3 DEF IInv
  <2>5. CASE DOMAIN approvers # {}
    <3>1. PICK m \in Orders \cup {0} : 1..m \subseteq Orders /\ DOMAIN approvers = 1..m
      BY DEF ApproverLists
    <3>2. /\ lineStatus' = "IN_REVIEW" /\ documentStatus' = "IN_REVIEW" /\ currentOrder' = 1
          /\ steps' = [o \in DOMAIN approvers |->
                         [type |-> "APPROVE", approver |-> approvers[o],
                          status |-> IF o = 1 THEN "PENDING" ELSE "WAITING"]]
      BY <1>3, <2>5 DEF CreateRequest
    <3>3. /\ DOMAIN steps' = 1..m /\ 1 \in 1..m /\ m \in Nat
          /\ \A o \in 1..m : /\ steps'[o].type = "APPROVE"
                             /\ steps'[o].status = IF o = 1 THEN "PENDING" ELSE "WAITING"
      BY <2>5, <3>1, <3>2, OrdersArePositive
    <3>4. Frontier(1, "PENDING")'
      BY <3>3 DEF Frontier, IsActionable
    <3>5. StepsMatchLine'
      BY <3>2, <3>4 DEF StepsMatchLine, NoOrder
    <3>6. LineHasSteps' /\ ApprovalsOnRecord' /\ DocumentFollowsLine'
      BY <3>2, <3>3 DEF LineHasSteps, ApprovalsOnRecord, DocumentFollowsLine
    <3> QED BY <1>1, <2>3, <3>5, <3>6 DEF IInv
  <2> QED BY <2>4, <2>5
<1>4. ASSUME NEW u \in Users, NEW routing \in Routings, ConfigureLine(u, routing)
      PROVE IInv'
  <2>1. /\ lineStatus' = "DRAFT" /\ currentOrder' = NoOrder /\ documentStatus # "NONE"
        /\ steps' = FreshSteps(routing)
        /\ UNCHANGED <<documentStatus, requestStatus>>
    BY <1>4 DEF ConfigureLine
  <2>2. DOMAIN steps' # {} /\ \A o \in DOMAIN steps' : steps'[o].status = "WAITING"
    <3>1. PICK D \in (SUBSET Orders) \ {{}} : routing \in [D -> [type : Types, approver : Employees]]
      BY DEF Routings
    <3>2. DOMAIN routing = D /\ D # {}
      BY <3>1
    <3>3. steps' = [o \in D |-> [type |-> routing[o].type, approver |-> routing[o].approver,
                                 status |-> "WAITING"]]
      BY <2>1, <3>2 DEF FreshSteps
    <3> QED BY <3>2, <3>3
  <2>3. LineHasSteps' /\ StepsMatchLine' /\ ApprovalsOnRecord'
    BY <2>1, <2>2 DEF LineHasSteps, StepsMatchLine, ApprovalsOnRecord
  <2>4. DocumentComesFirst' /\ DocumentFollowsLine' /\ RequestFollowsLine'
    BY <2>1 DEF DocumentComesFirst, DocumentFollowsLine, RequestFollowsLine
  <2>5. ApprovedRequestHasApprovedLine'
    BY <2>1 DEF ApprovedRequestHasApprovedLine
  <2> QED BY <1>1, <2>3, <2>4, <2>5 DEF IInv
<1>5. ASSUME NEW u \in Users, Submit(u) \/ Resubmit(u) PROVE IInv'
  <2>1. lineStatus # "NONE" /\ StartReview(u)
    BY <1>5 DEF Submit, Resubmit
  <2>2. LineHasSteps' /\ StepsMatchLine' /\ ApprovalsOnRecord'
    BY <2>1, StartReviewCoherent DEF IInv
  <2>3. /\ lineStatus' \in {"APPROVED", "IN_REVIEW"} /\ documentStatus' = lineStatus'
        /\ requestStatus' = Synced(requestStatus, lineStatus')
    BY <2>1 DEF StartReview
  <2>4. DocumentComesFirst' /\ DocumentFollowsLine'
    BY <2>3 DEF DocumentComesFirst, DocumentFollowsLine
  <2>5. RequestFollowsLine' /\ ApprovedRequestHasApprovedLine'
    BY <2>3, SyncedRequest
  <2> QED BY <1>1, <2>2, <2>4, <2>5 DEF IInv
<1>6. ASSUME NEW u \in Users, Approve(u) PROVE IInv'
  <2>1. LineHasSteps' /\ StepsMatchLine' /\ ApprovalsOnRecord'
    BY <1>6, ApproveCoherent DEF IInv
  <2>2. /\ lineStatus = "IN_REVIEW" /\ requestStatus' = Synced(requestStatus, lineStatus')
        /\ \/ lineStatus' = "APPROVED" /\ documentStatus' = "APPROVED"
           \/ lineStatus' = "IN_REVIEW" /\ documentStatus' = documentStatus
    BY <1>6 DEF Approve, MayDecide
  <2>3. DocumentComesFirst' /\ DocumentFollowsLine'
    BY <2>2 DEF IInv, DocumentComesFirst, DocumentFollowsLine
  <2>4. RequestFollowsLine' /\ ApprovedRequestHasApprovedLine'
    BY <2>2, SyncedRequest
  <2> QED BY <1>1, <2>1, <2>3, <2>4 DEF IInv
<1>7. ASSUME NEW u \in Users, Reject(u) PROVE IInv'
  <2>1. /\ lineStatus = "IN_REVIEW" /\ lineStatus' = "REJECTED" /\ documentStatus' = "REJECTED"
        /\ currentOrder' = NoOrder /\ actions \subseteq actions'
        /\ requestStatus' = Synced(requestStatus, lineStatus')
        /\ steps' = [steps EXCEPT ![currentOrder].status = "REJECTED"]
    BY <1>7 DEF Reject, MayDecide, Decided
  <2>2. Frontier(currentOrder, "PENDING")
    BY <2>1 DEF IInv, StepsMatchLine
  <2>3. /\ DOMAIN steps' = DOMAIN steps
        /\ steps'[currentOrder].status = "REJECTED"
        /\ \A o \in DOMAIN steps : /\ o # currentOrder => steps'[o] = steps[o]
                                   /\ steps'[o].type = steps[o].type
                                   /\ steps'[o].approver = steps[o].approver
    BY <2>1, <2>2 DEF IInv, TypeOK, Step, Frontier
  <2>4. \A o \in DOMAIN steps : o \in Nat
    BY OrdersArePositive DEF IInv, TypeOK
  <2>5. \E o \in DOMAIN steps' : Frontier(o, "REJECTED")'
    <3>1. currentOrder \in DOMAIN steps /\ IsActionable(steps'[currentOrder])
      <4>1. currentOrder \in DOMAIN steps /\ IsActionable(steps[currentOrder])
        BY <2>2 DEF Frontier
      <4>2. steps'[currentOrder].type = steps[currentOrder].type
        BY <4>1, <2>3
      <4> QED BY <4>1, <4>2 DEF IsActionable
    <3>2. \A p \in DOMAIN steps : /\ p < currentOrder => steps'[p].status = "APPROVED"
                                  /\ currentOrder < p => steps'[p].status = "WAITING"
      BY <2>2, <2>3, <2>4, <3>1 DEF Frontier
    <3>3. ASSUME NEW c \in DOMAIN steps, c = currentOrder PROVE Frontier(c, "REJECTED")'
      <4>1. IsActionable(steps'[c]) /\ steps'[c].status = "REJECTED"
        BY <2>3, <3>1, <3>3
      <4> QED BY <2>3, <3>2, <3>3, <4>1 DEF Frontier
    <3> QED BY <2>3, <3>1, <3>3
  <2>6. StepsMatchLine'
    BY <2>1, <2>5 DEF StepsMatchLine
  <2>7. LineHasSteps'
    BY <2>1, <2>3 DEF IInv, LineHasSteps
  <2>8. ApprovalsOnRecord'
    BY <2>1, <2>3 DEF IInv, ApprovalsOnRecord, ApprovedByItsApprover, IsActionable
  <2>9. DocumentComesFirst' /\ DocumentFollowsLine'
    BY <2>1 DEF DocumentComesFirst, DocumentFollowsLine
  <2>10. RequestFollowsLine' /\ ApprovedRequestHasApprovedLine'
    BY <2>1, SyncedRequest
  <2> QED BY <1>1, <2>6, <2>7, <2>8, <2>9, <2>10 DEF IInv
<1>8. ASSUME NEW u \in Users, Cancel(u) PROVE IInv'
  <2>1. /\ lineStatus # "NONE" /\ lineStatus' = "CANCELED" /\ documentStatus' = "CANCELED"
        /\ currentOrder' = NoOrder /\ actions' = actions
        /\ requestStatus' = Synced(requestStatus, lineStatus')
        /\ steps' = Canceled(steps)
    BY <1>8 DEF Cancel, MayCancel
  <2>2. /\ DOMAIN steps' = DOMAIN steps
        /\ \A o \in DOMAIN steps : /\ steps'[o].type = steps[o].type
                                   /\ steps'[o].approver = steps[o].approver
                                   /\ steps'[o] = steps[o] \/ steps'[o].status = "CANCELED"
                                   /\ steps'[o].status \in {"APPROVED", "REJECTED", "CANCELED"}
    BY <2>1 DEF Canceled, IInv, TypeOK, Step, StepStatuses
  <2>3. StepsMatchLine'
    BY <2>1, <2>2 DEF StepsMatchLine
  <2>4. LineHasSteps'
    BY <2>1, <2>2 DEF IInv, LineHasSteps
  <2>5. ApprovalsOnRecord'
    BY <2>1, <2>2 DEF IInv, ApprovalsOnRecord, ApprovedByItsApprover
  <2>6. DocumentComesFirst' /\ DocumentFollowsLine'
    BY <2>1 DEF DocumentComesFirst, DocumentFollowsLine
  <2>7. RequestFollowsLine' /\ ApprovedRequestHasApprovedLine'
    BY <2>1, SyncedRequest
  <2> QED BY <1>1, <2>3, <2>4, <2>5, <2>6, <2>7 DEF IInv
<1>9. CASE UNCHANGED vars
  BY <1>9, <1>1 DEF vars, IInv, LineHasSteps, StepsMatchLine, Frontier, ApprovalsOnRecord,
       ApprovedByItsApprover, DocumentComesFirst, DocumentFollowsLine, RequestFollowsLine,
       ApprovedRequestHasApprovedLine
<1> QED BY <1>2, <1>3, <1>4, <1>5, <1>6, <1>7, <1>8, <1>9 DEF Next

\* What every run of the handlers keeps true, in the form induction needs.
THEOREM InvariantCorrect == Spec => []IInv
BY InvariantInit, InvariantStep, PTL DEF Spec

(***************************************************************************)
(* The properties.                                                         *)
(***************************************************************************)
\* Once a line exists it has somebody to go to (configureLine's first check).
THEOREM LinesHaveSteps == Spec => []LineHasSteps
BY InvariantCorrect, PTL DEF IInv

\* The step rows and the line row, which the handlers write separately, tell the
\* same story after every handler.
THEOREM StepsAlwaysMatchLine == Spec => []StepsMatchLine
<1>1. IInv => StepsMatchLine BY DEF IInv
<1> QED BY <1>1, InvariantCorrect, PTL

\* An approved line holds, for every decision step, the APPROVE action of that
\* step's approver, made in the current round.
THEOREM ApprovalsAreComplete == Spec => []ApprovedByEveryApprover
<1>1. IInv => ApprovedByEveryApprover
  BY DEF IInv, StepsMatchLine, ApprovalsOnRecord, ApprovedByEveryApprover, IsActionable
<1> QED BY <1>1, InvariantCorrect, PTL

\* The linked leave request or correction shows the outcome of the line from its
\* submission on (syncBusinessStatusForDocument).
THEOREM OutcomesFollowLine == Spec => []RequestFollowsLine
<1>1. IInv => RequestFollowsLine BY DEF IInv
<1> QED BY <1>1, InvariantCorrect, PTL

\* So does the document, unless a new version has reopened it.
THEOREM DocumentsFollowTheirLine == Spec => []DocumentFollowsLine
<1>1. IInv => DocumentFollowsLine BY DEF IInv
<1> QED BY <1>1, InvariantCorrect, PTL

\* A line in review waits in the inbox of exactly one employee (listInbox).
THEOREM OneInbox == Spec => []InReviewHasOneInbox
<1>1. IInv => InReviewHasOneInbox
  <2> SUFFICES ASSUME IInv, lineStatus = "IN_REVIEW"
               PROVE  \E e \in Employees : \A f \in Employees : InInbox(f) <=> f = e
    BY DEF InReviewHasOneInbox
  <2>1. currentOrder \in DOMAIN steps /\ steps[currentOrder].status = "PENDING"
    BY DEF IInv, StepsMatchLine, Frontier
  <2>2. steps[currentOrder].approver \in Employees
    BY <2>1 DEF IInv, TypeOK, Step
  <2>3. \A f \in Employees : InInbox(f) <=> f = steps[currentOrder].approver
    BY <2>1 DEF InInbox
  <2> QED BY <2>2, <2>3
<1> QED BY <1>1, InvariantCorrect, PTL

\* Only after its line was configured anew does an approved leave request or
\* correction lose its approval.
THEOREM ApprovalIsLasting == Spec => ApprovedRequestRevokedOnlyFromDraft
<1> DEFINE Kept == requestStatus = "APPROVED" /\ requestStatus' # "APPROVED"
                     => lineStatus = "DRAFT"
<1>1. IInv /\ [Next]_vars => [Kept]_vars
  <2> SUFFICES ASSUME IInv, Next, requestStatus = "APPROVED", requestStatus' # "APPROVED",
                      lineStatus # "DRAFT"
               PROVE  FALSE
    OBVIOUS
  <2>1. lineStatus = "APPROVED"
    BY DEF IInv, ApprovedRequestHasApprovedLine
  <2>2. PICK u \in Users :
          \/ CreateDocument(u) \/ AddVersion(u)
          \/ \E approvers \in ApproverLists : CreateRequest(u, approvers)
          \/ \E routing \in Routings : ConfigureLine(u, routing)
    BY <2>1 DEF Next, Submit, Resubmit, Approve, Reject, MayDecide, Cancel, MayCancel
  <2>3. documentStatus # "NONE"
    BY <2>1 DEF IInv, DocumentComesFirst
  <2> QED BY <2>2, <2>3 DEF CreateDocument, AddVersion, CreateRequest, ConfigureLine
<1> QED BY <1>1, InvariantCorrect, PTL DEF Spec, ApprovedRequestRevokedOnlyFromDraft

\* No approve, reject or cancel rewrites a step that was decided before: decisions
\* go only with a new round or a new routing.
THEOREM DecisionsAreFinal == Spec => DecisionsStand
<1> DEFINE Decision(o) == o \in DOMAIN steps /\ steps[o].status \in {"APPROVED", "REJECTED"}
           Stays(o) == o \in DOMAIN steps' /\ steps'[o] = steps[o]
           NewRound == lineStatus \in {"REJECTED", "CANCELED"}
                       /\ lineStatus' \in {"IN_REVIEW", "APPROVED"}
           Stands == \A o \in DOMAIN steps :
                        steps[o].status \in {"APPROVED", "REJECTED"} =>
                          \/ Stays(o)
                          \/ lineStatus' = "DRAFT"
                          \/ NewRound
<1>1. ASSUME IInv, Next PROVE Stands
  <2> SUFFICES ASSUME NEW o, Decision(o)
               PROVE  Stays(o) \/ lineStatus' = "DRAFT" \/ NewRound
    OBVIOUS
  <2>1. ASSUME NEW u \in Users, CreateDocument(u) \/ AddVersion(u) PROVE Stays(o)
    BY <2>1 DEF CreateDocument, AddVersion
  <2>2. ASSUME NEW u \in Users, NEW approvers \in ApproverLists, CreateRequest(u, approvers)
        PROVE  FALSE
    BY <1>1, <2>2 DEF IInv, CreateRequest, DocumentComesFirst, LineHasSteps
  <2>3. ASSUME NEW u \in Users, NEW routing \in Routings, ConfigureLine(u, routing)
        PROVE  lineStatus' = "DRAFT"
    BY <2>3 DEF ConfigureLine
  <2>4. ASSUME NEW u \in Users, Submit(u) PROVE FALSE
    BY <1>1, <2>4 DEF Submit, IInv, StepsMatchLine
  <2>5. ASSUME NEW u \in Users, Resubmit(u) PROVE NewRound
    BY <2>5 DEF Resubmit, StartReview
  <2>6. ASSUME NEW u \in Users, Approve(u) PROVE Stays(o)
    <3>1. o # currentOrder
      BY <2>6 DEF Approve, MayDecide
    <3>2. DOMAIN Decided("APPROVED") = DOMAIN steps /\ Decided("APPROVED")[o] = steps[o]
      BY <3>1 DEF Decided
    <3>3. PICK n \in Orders \cup {NoOrder} :
            steps' = Forwarded(Decided("APPROVED"), currentOrder, n)
      BY <2>6 DEF Approve
    <3> QED BY <3>2, <3>3 DEF Forwarded
  <2>7. ASSUME NEW u \in Users, Reject(u) PROVE Stays(o)
    <3>1. o # currentOrder
      BY <2>7 DEF Reject, MayDecide
    <3> QED BY <2>7, <3>1 DEF Reject, Decided
  <2>8. ASSUME NEW u \in Users, Cancel(u) PROVE Stays(o)
    BY <2>8 DEF Cancel, Canceled
  <2> QED BY <1>1, <2>1, <2>2, <2>3, <2>4, <2>5, <2>6, <2>7, <2>8 DEF Next
<1>2. IInv /\ [Next]_vars => [Stands]_vars
  BY <1>1
<1> QED BY <1>2, InvariantCorrect, PTL DEF Spec, DecisionsStand

(***************************************************************************)
(* Types.  Beside what RequestsTypeOK says of the requests, TypeInv gives  *)
(* their local variables types, and says that who is to decide a step has  *)
(* an order and that a request in flight has a user.                       *)
(***************************************************************************)
RoutingsOrNone ==
  UNION {[D -> [type : StepTypes, approver : Employees]] : D \in SUBSET Orders}
Plans == UNION {[D -> StepStatuses] : D \in SUBSET Orders}

OpNames == {"none", "create", "configure", "submit", "resubmit", "approve", "reject", "cancel"}

Record == [pc : Statements \cup {"idle"}, op : OpNames, user : Users \cup {NoUser},
           routing : RoutingsOrNone, order : Orders \cup {NoOrder},
           next : Orders \cup {NoOrder}, plan : Plans, stale : BOOLEAN, alone : BOOLEAN]

Sound(q) ==
  /\ q.pc = "idle" <=> q = Idle
  /\ q.pc # "idle" => q.user \in Users
  /\ q.op \in {"approve", "reject"} => q.order \in Orders
  /\ q.pc \in {"decideStep", "logDecision"} => q.op \in {"approve", "reject"}
  /\ q.pc = "forward" => DOMAIN q.plan # {}

TypeInv ==
  /\ TypeOK
  /\ crashes \in 0..MaxCrashes
  /\ req \in [Requests -> Record]
  /\ \A r \in Requests : Sound(req[r])

\* While its rows are there, a request about to decide holds the open step of its user,
\* and one about to move the line forward approves only steps nobody decides.
Holding(q) ==
  /\ q.pc = "decideStep" /\ ~q.stale =>
       q.order \in DOMAIN steps /\ steps[q.order].approver = EmployeeOf[q.user]
  /\ q.pc = "forward" /\ ~q.stale =>
       /\ DOMAIN q.plan \subseteq DOMAIN steps
       /\ \A o \in DOMAIN q.plan : IsActionable(steps[o]) => q.plan[o] = "PENDING"

HoldingInv == \A r \in Requests : Holding(req[r])

LEMMA NothingRouted ==
  /\ NoSteps \in RoutingsOrNone /\ NoSteps \in Plans
  /\ DOMAIN NoSteps = {} /\ NoSteps \in [DOMAIN NoSteps -> Step]
<1>1. \A S : NoSteps \in [{} -> S] BY DEF NoSteps
<1>2. {} \in SUBSET Orders OBVIOUS
<1> QED BY <1>1, <1>2 DEF RoutingsOrNone, Plans, NoSteps

LEMMA SameValue ==
  ASSUME NEW f, f = [x \in DOMAIN f |-> f[x]], f.alone = FALSE
  PROVE  [f EXCEPT !.alone = FALSE] = f
OBVIOUS

LEMMA IdleSound ==
  /\ Idle \in Record /\ Sound(Idle) /\ Idle.pc = "idle"
  /\ Idle = [Idle EXCEPT !.alone = FALSE]
<1>1. Idle \in Record /\ Sound(Idle) /\ Idle.pc = "idle"
  BY NothingRouted DEF Idle, Record, Sound, OpNames, NoOrder
<1>2. Idle = [x \in DOMAIN Idle |-> Idle[x]] /\ Idle.alone = FALSE
  BY DEF Idle
<1> QED BY <1>1, <1>2, SameValue

LEMMA TypesInit == RequestsInit \/ SubmittedInit => TypeInv /\ HoldingInv
<1>1. ASSUME RequestsInit \/ SubmittedInit
      PROVE  /\ crashes \in 0..MaxCrashes /\ req = [r \in Requests |-> Idle]
  BY <1>1, RequestsAssumption DEF RequestsInit, SubmittedInit
<1>2. ASSUME req = [r \in Requests |-> Idle]
      PROVE  req \in [Requests -> Record] /\ (\A r \in Requests : Sound(req[r])) /\ HoldingInv
  BY <1>2, IdleSound DEF HoldingInv, Holding, Idle
<1>3. RequestsInit => TypeOK
  BY TypeInit DEF RequestsInit
<1>4. ASSUME SubmittedInit PROVE TypeOK
  <2>1. PICK routing \in RequestRoutings, u \in Users, n \in Orders :
          /\ EmployeeOf[u] # NoEmployee
          /\ steps = Forwarded(FreshSteps(routing), 0, n)
          /\ currentOrder = n
          /\ submittedBy = EmployeeOf[u]
    BY <1>4 DEF SubmittedInit
  <2>2. PICK D \in SUBSET Orders : routing \in [D -> [type : Types, approver : Employees]]
    BY RequestsAssumption DEF Routings
  <2>3. /\ DOMAIN FreshSteps(routing) \subseteq Orders
        /\ FreshSteps(routing) \in [DOMAIN FreshSteps(routing) -> Step]
    BY <2>2, ApprovalsAssumption DEF FreshSteps, Step, StepStatuses
  <2>4. 0 \in Nat OBVIOUS
  <2>5. /\ DOMAIN steps = DOMAIN FreshSteps(routing)
        /\ steps \in [DOMAIN FreshSteps(routing) -> Step]
    BY <2>1, <2>3, <2>4, ForwardedRows
  <2>6. DOMAIN steps \subseteq Orders /\ steps \in [DOMAIN steps -> Step]
    BY <2>3, <2>5
  <2>7. submittedBy \in Employees \cup {NoEmployee}
    BY <2>1, ApprovalsAssumption
  <2> QED BY <1>4, <2>1, <2>6, <2>7
          DEF SubmittedInit, TypeOK, DocumentStatuses, LineStatuses, RequestStatuses
<1> QED BY <1>1, <1>2, <1>3, <1>4 DEF TypeInv

(***************************************************************************)
(* What the steps have in common.  Only DeleteSteps takes rows away, and   *)
(* no statement changes who a row asks, or for what.                       *)
(***************************************************************************)
RowsStay ==
  \A o \in DOMAIN steps :
    o \in DOMAIN steps' /\ steps'[o].type = steps[o].type /\ steps'[o].approver = steps[o].approver

LEMMA RowsUntouched == ASSUME steps' = steps PROVE RowsStay
BY DEF RowsStay

\* A request that goes on holding what it held.
LEMMA HeldStays ==
  ASSUME NEW q \in Requests, RowsStay, Holding(req[q]),
         req'[q].pc = req[q].pc, req'[q].order = req[q].order, req'[q].user = req[q].user,
         req'[q].plan = req[q].plan, req'[q].stale = req[q].stale
  PROVE  Holding(req[q])'
BY DEF Holding, RowsStay, IsActionable

\* Request r does a statement, the others do nothing.
LEMMA OneMoves ==
  ASSUME TypeInv, HoldingInv, NEW r \in Requests, NEW new \in Record, Sound(new),
         req' = [req EXCEPT ![r] = new], RowsStay, TypeOK', crashes' \in 0..MaxCrashes,
         Holding(req[r])'
  PROVE  TypeInv' /\ HoldingInv'
<1>1. req' \in [Requests -> Record] BY DEF TypeInv
<1>2. req'[r] = new /\ \A q \in Requests \ {r} : req'[q] = req[q] BY DEF TypeInv
<1>3. \A q \in Requests : Sound(req'[q]) BY <1>2 DEF TypeInv
<1>4. \A q \in Requests : Holding(req[q])'
  BY <1>2, HeldStays DEF HoldingInv
<1> QED BY <1>1, <1>3, <1>4 DEF TypeInv, HoldingInv

LEMMA Going ==
  ASSUME TypeInv, HoldingInv, NEW r \in Requests, req[r].pc # "idle",
         NEW pc \in Statements \ {"forward", "decideStep"}, Goto(r, pc),
         pc = "logDecision" => req[r].op \in {"approve", "reject"},
         RowsStay, TypeOK'
  PROVE  TypeInv' /\ HoldingInv'
<1> DEFINE new == [req[r] EXCEPT !.pc = pc]
<1>1. req[r] \in Record /\ Sound(req[r]) BY DEF TypeInv
<1>2. pc # "idle" BY DEF Statements
<1>3. new \in Record /\ new.pc = pc BY <1>1 DEF Record
<1>4. Sound(new) BY <1>1, <1>2, <1>3 DEF Sound, Idle, Record
<1>5. req' = [req EXCEPT ![r] = new] /\ crashes' = crashes BY DEF Goto
<1>6. req'[r] = new BY <1>5 DEF TypeInv
<1>7. Holding(req[r])' BY <1>3, <1>6 DEF Holding
<1> HIDE DEF new
<1>8. crashes' \in 0..MaxCrashes BY <1>5 DEF TypeInv
<1> QED BY <1>3, <1>4, <1>5, <1>7, <1>8, OneMoves

LEMMA Ending ==
  ASSUME TypeInv, HoldingInv, NEW r \in Requests, req' = [req EXCEPT ![r] = Idle],
         crashes' \in 0..MaxCrashes, RowsStay, TypeOK'
  PROVE  TypeInv' /\ HoldingInv'
<1>1. req'[r] = Idle BY DEF TypeInv
<1>2. Holding(req[r])' BY <1>1, IdleSound DEF Holding
<1> QED BY <1>2, IdleSound, OneMoves

LEMMA Answering ==
  ASSUME TypeInv, HoldingInv, NEW r \in Requests, End(r), RowsStay, TypeOK'
  PROVE  TypeInv' /\ HoldingInv'
BY Ending DEF End, TypeInv

LEMMA RequestTyped ==
  ASSUME NEW name \in OpNames, NEW u \in Users, NEW pc \in Statements
  PROVE  /\ Request(name, u, pc) \in Record
         /\ Request(name, u, pc).pc = pc /\ Request(name, u, pc).op = name
         /\ Request(name, u, pc).user = u
<1>1. Idle \in Record BY IdleSound
<1>2. (InFlight = {}) \in BOOLEAN OBVIOUS
<1> QED BY <1>1, <1>2 DEF Request, Record, Idle

LEMMA Beginning ==
  ASSUME TypeInv, HoldingInv, NEW r \in Requests, NEW request \in Record,
         Begin(r, request), request.user \in Users,
         request.pc \in Statements \ {"forward", "logDecision"},
         request.op \in {"approve", "reject"} => request.order \in Orders,
         request.pc = "decideStep" =>
           /\ request.op \in {"approve", "reject"}
           /\ request.order \in DOMAIN steps
           /\ steps[request.order].approver = EmployeeOf[request.user],
         RowsStay, TypeOK'
  PROVE  TypeInv' /\ HoldingInv'
<1>1. /\ req' = [q \in Requests |-> IF q = r THEN request
                                    ELSE [req[q] EXCEPT !.alone = FALSE]]
      /\ crashes' = crashes
  BY DEF Begin
<1>2. ASSUME NEW q \in Requests \ {r}
      PROVE  /\ req'[q] \in Record /\ Sound(req'[q])
             /\ req'[q].pc = req[q].pc /\ req'[q].order = req[q].order
             /\ req'[q].user = req[q].user /\ req'[q].plan = req[q].plan
             /\ req'[q].stale = req[q].stale
  <2>1. req[q] \in Record /\ Sound(req[q]) BY DEF TypeInv
  <2>2. req'[q] = [req[q] EXCEPT !.alone = FALSE] BY <1>1
  <2>3. /\ req'[q] \in Record
        /\ req'[q].pc = req[q].pc /\ req'[q].order = req[q].order /\ req'[q].op = req[q].op
        /\ req'[q].user = req[q].user /\ req'[q].plan = req[q].plan
        /\ req'[q].stale = req[q].stale
    BY <2>1, <2>2 DEF Record
  <2>4. req[q] = Idle => req'[q] = Idle
    <3>1. Idle = [Idle EXCEPT !.alone = FALSE] BY IdleSound
    <3> QED BY <2>2, <3>1
  <2>5. Idle.pc = "idle" BY IdleSound
  <2>6. Sound(req'[q]) BY <2>1, <2>3, <2>4, <2>5 DEF Sound
  <2> QED BY <2>3, <2>6
<1>3. req'[r] = request BY <1>1
<1>4. request.pc # "idle" BY DEF Statements
<1>5. Sound(request) BY <1>4 DEF Sound, Idle
<1>6. req' \in [Requests -> Record] BY <1>1, <1>2, <1>3
<1>7. \A q \in Requests : Sound(req'[q]) BY <1>2, <1>3, <1>5
<1>8. Holding(req[r])' BY <1>3 DEF Holding, RowsStay
<1>9. \A q \in Requests : Holding(req[q])' BY <1>2, <1>8, HeldStays DEF HoldingInv
<1> QED BY <1>1, <1>6, <1>7, <1>9 DEF TypeInv, HoldingInv

(***************************************************************************)
(* The statements, one by one.                                             *)
(***************************************************************************)
LEMMA FreshTyped ==
  ASSUME NEW routing \in RoutingsOrNone
  PROVE  /\ DOMAIN FreshSteps(routing) = DOMAIN routing
         /\ DOMAIN FreshSteps(routing) \subseteq Orders
         /\ FreshSteps(routing) \in [DOMAIN FreshSteps(routing) -> Step]
<1>1. PICK D \in SUBSET Orders : routing \in [D -> [type : StepTypes, approver : Employees]]
  BY DEF RoutingsOrNone
<1> QED BY <1>1 DEF FreshSteps, Step, StepStatuses

LEMMA SubmitterTyped ==
  ASSUME NEW u \in Users PROVE EmployeeOf[u] \in Employees \cup {NoEmployee}
BY ApprovalsAssumption

LEMMA OutcomeTyped ==
  ASSUME NEW r \in Requests
  PROVE  /\ Outcome(r) \in {"REJECTED", "CANCELED", "APPROVED", "IN_REVIEW"}
         /\ Outcome(r) \in LineStatuses /\ Outcome(r) \in DocumentStatuses
BY DEF Outcome, LineStatuses, DocumentStatuses

LEMMA InFlightUser ==
  ASSUME TypeInv, NEW r \in Requests, req[r].pc # "idle"
  PROVE  req[r].user \in Users
BY DEF TypeInv, Sound

\* Statements that write no row but those of the line, the document or the request.
LEMMA LineStatements ==
  ASSUME TypeInv, HoldingInv, NEW r \in Requests,
         \/ FindLine(r) \/ CreateLine(r) \/ DeleteActions(r) \/ ResetLine(r) \/ ReadLine(r)
         \/ LogDecision(r) \/ WriteLine(r) \/ WriteDocument(r) \/ LogSubmission(r)
         \/ FindRequest(r) \/ SyncRequest(r) \/ InsertRequest(r)
  PROVE  TypeInv' /\ HoldingInv'
<1>0. TypeOK /\ req[r] \in Record BY DEF TypeInv
<1> USE DEF At, Statements
<1>1. CASE FindLine(r)
  <2>1. TypeOK' BY <1>0, <1>1 DEF FindLine, TypeOK, vars
  <2> QED BY <1>1, <2>1, RowsUntouched, Going, Answering DEF FindLine, vars
<1>2. CASE CreateLine(r)
  <2>1. req[r].user \in Users BY <1>2, InFlightUser DEF CreateLine
  <2>2. TypeOK'
    BY <1>0, <1>2, <2>1, SubmitterTyped DEF CreateLine, TypeOK, LineStatuses, DocumentStatuses
  <2> QED BY <1>2, <2>2, RowsUntouched, Going, Answering DEF CreateLine
<1>3. CASE DeleteActions(r)
  <2>1. TypeOK' BY <1>0, <1>3 DEF DeleteActions, TypeOK
  <2> QED BY <1>3, <2>1, RowsUntouched, Going DEF DeleteActions
<1>4. CASE ResetLine(r)
  <2>1. req[r].user \in Users BY <1>4, InFlightUser DEF ResetLine
  <2>2. TypeOK'
    BY <1>0, <1>4, <2>1, SubmitterTyped DEF ResetLine, TypeOK, LineStatuses, DocumentStatuses
  <2> QED BY <1>4, <2>2, RowsUntouched, Going DEF ResetLine
<1>5. CASE ReadLine(r)
  <2>1. TypeOK' BY <1>0, <1>5 DEF ReadLine, TypeOK, vars
  <2> QED BY <1>5, <2>1, RowsUntouched, Going, Answering DEF ReadLine, vars
<1>6. CASE LogDecision(r)
  <2>1. req[r].user \in Users BY <1>6, InFlightUser DEF LogDecision
  <2>2. req[r].order \in Orders BY <1>6 DEF LogDecision, TypeInv, Sound
  <2>3. TypeOK' BY <1>0, <1>6, <2>1, <2>2 DEF LogDecision, TypeOK, Action
  <2> QED BY <1>6, <2>3, RowsUntouched, Going, Answering DEF LogDecision
<1>7. CASE WriteLine(r)
  <2>1. req[r].user \in Users BY <1>7, InFlightUser DEF WriteLine
  <2>2. submittedBy' \in Employees \cup {NoEmployee}
    BY <1>0, <1>7, <2>1, SubmitterTyped DEF WriteLine, TypeOK
  <2>3. lineStatus' \in LineStatuses BY <1>7, OutcomeTyped DEF WriteLine
  <2>4. currentOrder' \in Orders \cup {NoOrder} BY <1>0, <1>7 DEF WriteLine, Record
  <2>5. TypeOK' BY <1>0, <1>7, <2>2, <2>3, <2>4 DEF WriteLine, TypeOK
  <2> QED BY <1>7, <2>5, RowsUntouched, Going DEF WriteLine
<1>8. CASE WriteDocument(r)
  <2>1. documentStatus' \in DocumentStatuses BY <1>8, OutcomeTyped DEF WriteDocument
  <2>2. TypeOK' BY <1>0, <1>8, <2>1 DEF WriteDocument, TypeOK
  <2> QED BY <1>8, <2>2, RowsUntouched, Going DEF WriteDocument
<1>9. CASE LogSubmission(r)
  <2>1. TypeOK' BY <1>0, <1>9 DEF LogSubmission, TypeOK
  <2> QED BY <1>9, <2>1, RowsUntouched, Going DEF LogSubmission
<1>10. CASE FindRequest(r)
  <2>1. TypeOK' BY <1>0, <1>10 DEF FindRequest, TypeOK, vars
  <2> QED BY <1>10, <2>1, RowsUntouched, Going, Answering DEF FindRequest, vars
<1>11. CASE SyncRequest(r)
  <2>1. requestStatus' \in RequestStatuses BY <1>0, <1>11, SyncedStatus DEF SyncRequest, TypeOK
  <2>2. TypeOK' BY <1>0, <1>11, <2>1 DEF SyncRequest, TypeOK
  <2> QED BY <1>11, <2>2, RowsUntouched, Answering DEF SyncRequest
<1>12. CASE InsertRequest(r)
  <2>1. TypeOK' BY <1>0, <1>12 DEF InsertRequest, TypeOK, RequestStatuses
  <2> QED BY <1>12, <2>1, RowsUntouched, Answering DEF InsertRequest
<1> QED BY <1>1, <1>2, <1>3, <1>4, <1>5, <1>6, <1>7, <1>8, <1>9, <1>10, <1>11, <1>12

LEMMA DeleteStepsKeeps ==
  ASSUME TypeInv, HoldingInv, NEW r \in Requests, DeleteSteps(r)
  PROVE  TypeInv' /\ HoldingInv'
<1>1. ASSUME NEW q \in Requests
      PROVE  req'[q] \in Record /\ Sound(req'[q]) /\ Holding(req[q])'
  <2>1. req[q] \in Record /\ Sound(req[q]) BY DEF TypeInv
  <2>2. CASE q = r
    <3>1. req'[q] = [req[q] EXCEPT !.pc = "resetLine"] BY <2>2 DEF DeleteSteps
    <3>2. req'[q] \in Record /\ req'[q].pc = "resetLine" BY <2>1, <3>1 DEF Record, Statements
    <3>3. req'[q].user = req[q].user /\ req'[q].op = req[q].op /\ req'[q].order = req[q].order
      BY <2>1, <3>1 DEF Record
    <3>4. Sound(req'[q])
      BY <2>1, <2>2, <3>2, <3>3 DEF Sound, Idle, DeleteSteps, At
    <3> QED BY <3>2, <3>4 DEF Holding
  <2>3. CASE q # r /\ req[q].pc = "idle"
    <3>1. req'[q] = req[q] BY <2>3 DEF DeleteSteps
    <3> QED BY <2>1, <2>3, <3>1 DEF Holding
  <2>4. CASE q # r /\ req[q].pc # "idle"
    <3>1. req'[q] = [req[q] EXCEPT !.stale = TRUE] BY <2>4 DEF DeleteSteps
    <3>2. /\ req'[q] \in Record /\ req'[q].stale /\ req'[q].pc = req[q].pc
          /\ req'[q].user = req[q].user /\ req'[q].op = req[q].op
          /\ req'[q].order = req[q].order /\ req'[q].plan = req[q].plan
      BY <2>1, <3>1 DEF Record
    <3>3. req'[q] # Idle BY <2>4, <3>2, IdleSound
    <3>4. Sound(req'[q]) BY <2>1, <2>4, <3>2, <3>3 DEF Sound
    <3> QED BY <3>2, <3>4 DEF Holding
  <2> QED BY <2>2, <2>3, <2>4
<1>2. TypeOK' BY NothingRouted DEF DeleteSteps, TypeInv, TypeOK
<1>3. req' \in [Requests -> Record]
  <2>1. req' = [q \in Requests |-> req'[q]] BY DEF DeleteSteps
  <2> QED BY <1>1, <2>1
<1>4. crashes' \in 0..MaxCrashes BY DEF DeleteSteps, TypeInv
<1> QED BY <1>1, <1>2, <1>3, <1>4 DEF TypeInv, HoldingInv

LEMMA CreateStepsKeeps ==
  ASSUME TypeInv, HoldingInv, NEW r \in Requests, CreateSteps(r)
  PROVE  RowsStay /\ TypeInv' /\ HoldingInv'
<1> DEFINE rows == FreshSteps(req[r].routing)
<1>1. DOMAIN rows \subseteq Orders /\ rows \in [DOMAIN rows -> Step]
  BY FreshTyped DEF TypeInv, Record
<1>2. TypeOK BY DEF TypeInv
<1>3. req[r].pc = "createSteps" BY DEF CreateSteps, At
<1>4. CASE DOMAIN rows \cap DOMAIN steps # {}
  <2>1. UNCHANGED steps /\ End(r) BY <1>4 DEF CreateSteps
  <2>2. TypeOK' BY <1>2, <2>1 DEF CreateSteps, TypeOK
  <2> QED BY <2>1, <2>2, RowsUntouched, Answering
<1>5. CASE DOMAIN rows \cap DOMAIN steps = {}
  <2>1. /\ steps' = [o \in DOMAIN rows \cup DOMAIN steps |->
                       IF o \in DOMAIN rows THEN rows[o] ELSE steps[o]]
        /\ IF req[r].op = "create" THEN Goto(r, "readLine") ELSE End(r)
    BY <1>5 DEF CreateSteps
  <2> HIDE DEF rows
  <2>2. RowsStay BY <1>5, <2>1 DEF RowsStay
  <2>3. DOMAIN steps' \subseteq Orders /\ steps' \in [DOMAIN steps' -> Step]
    BY <1>1, <1>2, <2>1 DEF TypeOK
  <2>4. TypeOK' BY <1>2, <2>3 DEF CreateSteps, TypeOK
  <2>5. CASE req[r].op = "create"
    BY <1>3, <2>1, <2>2, <2>4, <2>5, Going DEF Statements
  <2>6. CASE req[r].op # "create"
    BY <2>1, <2>2, <2>4, <2>6, Answering
  <2> QED BY <2>2, <2>5, <2>6
<1> QED BY <1>4, <1>5

\* updateMany, or an update of one row: the rows stay, with other statuses.
LEMMA StatusesChange ==
  ASSUME TypeOK, DOMAIN steps' = DOMAIN steps,
         \A o \in DOMAIN steps : \E s \in StepStatuses : steps'[o] = [steps[o] EXCEPT !.status = s],
         steps' = [o \in DOMAIN steps |-> steps'[o]]
  PROVE  RowsStay /\ DOMAIN steps' \subseteq Orders /\ steps' \in [DOMAIN steps' -> Step]
<1>1. ASSUME NEW o \in DOMAIN steps
      PROVE  /\ steps'[o] \in Step
             /\ steps'[o].type = steps[o].type /\ steps'[o].approver = steps[o].approver
  <2>1. PICK s \in StepStatuses : steps'[o] = [steps[o] EXCEPT !.status = s] OBVIOUS
  <2>2. steps[o] \in Step BY DEF TypeOK
  <2> QED BY <2>1, <2>2 DEF Step
<1>2. \A o \in DOMAIN steps' : steps'[o] \in Step BY <1>1
<1>3. steps' = [o \in DOMAIN steps' |-> steps'[o]] OBVIOUS
<1>4. steps' \in [DOMAIN steps' -> Step] BY <1>2, <1>3
<1> QED BY <1>1, <1>4 DEF RowsStay, TypeOK

LEMMA SetStatus ==
  ASSUME TypeOK, NEW o, NEW s \in StepStatuses, steps' = [steps EXCEPT ![o].status = s]
  PROVE  RowsStay /\ DOMAIN steps' \subseteq Orders /\ steps' \in [DOMAIN steps' -> Step]
<1>1. DOMAIN steps' = DOMAIN steps /\ steps' = [p \in DOMAIN steps |-> steps'[p]]
  OBVIOUS
<1>2. ASSUME NEW p \in DOMAIN steps
      PROVE  \E t \in StepStatuses : steps'[p] = [steps[p] EXCEPT !.status = t]
  <2>1. CASE p = o BY <2>1
  <2>2. CASE p # o
    <3>1. steps[p] \in Step BY DEF TypeOK
    <3>2. steps[p].status \in StepStatuses /\ steps[p] = [steps[p] EXCEPT !.status = steps[p].status]
      BY <3>1 DEF Step
    <3> QED BY <2>2, <3>2
  <2> QED BY <2>1, <2>2
<1> QED BY <1>1, <1>2, StatusesChange

LEMMA UpdateManyKeeps ==
  ASSUME TypeInv, HoldingInv, NEW r \in Requests, ResetSteps(r) \/ CancelSteps(r)
  PROVE  RowsStay /\ TypeInv' /\ HoldingInv'
<1>0. TypeOK BY DEF TypeInv
<1>1. CASE ResetSteps(r)
  <2>1. steps' = Waiting(steps) BY <1>1 DEF ResetSteps
  <2>2. /\ DOMAIN steps' = DOMAIN steps /\ steps' = [o \in DOMAIN steps |-> steps'[o]]
        /\ \A o \in DOMAIN steps : steps'[o] = [steps[o] EXCEPT !.status = "WAITING"]
    BY <2>1 DEF Waiting
  <2>3. "WAITING" \in StepStatuses BY DEF StepStatuses
  <2>4. RowsStay /\ DOMAIN steps' \subseteq Orders /\ steps' \in [DOMAIN steps' -> Step]
    BY <1>0, <2>2, <2>3, StatusesChange
  <2>5. TypeOK' BY <1>0, <1>1, <2>4 DEF ResetSteps, TypeOK
  <2> QED BY <1>1, <2>4, <2>5, Going DEF ResetSteps, At, Statements
<1>2. CASE CancelSteps(r)
  <2>1. steps' = Canceled(steps) BY <1>2 DEF CancelSteps
  <2>2. /\ DOMAIN steps' = DOMAIN steps /\ steps' = [o \in DOMAIN steps |-> steps'[o]]
        /\ \A o \in DOMAIN steps :
             steps'[o] \in {steps[o], [steps[o] EXCEPT !.status = "CANCELED"]}
    BY <2>1 DEF Canceled
  <2>3. ASSUME NEW o \in DOMAIN steps
        PROVE  \E s \in StepStatuses : steps'[o] = [steps[o] EXCEPT !.status = s]
    <3>1. steps[o] \in Step BY <1>0 DEF TypeOK
    <3>2. steps[o].status \in StepStatuses /\ steps[o] = [steps[o] EXCEPT !.status = steps[o].status]
      BY <3>1 DEF Step
    <3>3. "CANCELED" \in StepStatuses BY DEF StepStatuses
    <3> QED BY <2>2, <3>2, <3>3
  <2>4. RowsStay /\ DOMAIN steps' \subseteq Orders /\ steps' \in [DOMAIN steps' -> Step]
    BY <1>0, <2>2, <2>3, StatusesChange
  <2>5. TypeOK' BY <1>0, <1>2, <2>4 DEF CancelSteps, TypeOK
  <2> QED BY <1>2, <2>4, <2>5, Going DEF CancelSteps, At, Statements
<1> QED BY <1>1, <1>2

LEMMA DecideStepKeeps ==
  ASSUME TypeInv, HoldingInv, NEW r \in Requests, DecideStep(r)
  PROVE  RowsStay /\ TypeInv' /\ HoldingInv'
<1>0. TypeOK BY DEF TypeInv
<1>1. req[r].pc = "decideStep" /\ req[r].op \in {"approve", "reject"}
  BY DEF DecideStep, At, TypeInv, Sound
<1>2. CASE req[r].stale
  <2>1. UNCHANGED steps /\ End(r) BY <1>2 DEF DecideStep
  <2>2. TypeOK' BY <1>0, <2>1 DEF DecideStep, TypeOK
  <2> QED BY <2>1, <2>2, RowsUntouched, Answering
<1>3. CASE ~req[r].stale
  <2> DEFINE s == IF req[r].op = "approve" THEN "APPROVED" ELSE "REJECTED"
             pc == IF req[r].op = "approve" THEN "logDecision" ELSE "writeLine"
  <2>1. steps' = [steps EXCEPT ![req[r].order].status = s] /\ Goto(r, pc)
    BY <1>3 DEF DecideStep
  <2>2. s \in StepStatuses /\ pc \in Statements \ {"forward", "decideStep"}
    BY DEF StepStatuses, Statements
  <2> HIDE DEF s, pc
  <2>3. RowsStay /\ DOMAIN steps' \subseteq Orders /\ steps' \in [DOMAIN steps' -> Step]
    BY <1>0, <2>1, <2>2, SetStatus
  <2>4. TypeOK' BY <1>0, <2>3 DEF DecideStep, TypeOK
  <2> QED BY <1>1, <2>1, <2>2, <2>3, <2>4, Going
<1> QED BY <1>2, <1>3

LEMMA ReadStepsKeeps ==
  ASSUME TypeInv, HoldingInv, NEW r \in Requests, ReadSteps(r)
  PROVE  TypeInv' /\ HoldingInv'
<1>0. TypeOK /\ req[r] \in Record /\ Sound(req[r]) BY DEF TypeInv
<1>1. PICK n \in Orders \cup {NoOrder} :
        /\ IsNextActionable(steps, req[r].order, n)
        /\ LET rows == Forwarded(steps, req[r].order, n)
               changed == {o \in DOMAIN steps : rows[o] # steps[o]}
           IN  req' = [req EXCEPT ![r].next = n,
                                  ![r].plan = [o \in changed |-> rows[o].status],
                                  ![r].stale = FALSE,
                                  ![r].pc = IF changed = {} THEN "writeLine" ELSE "forward"]
  BY DEF ReadSteps
<1> DEFINE rows == Forwarded(steps, req[r].order, n)
           changed == {o \in DOMAIN steps : rows[o] # steps[o]}
           plan == [o \in changed |-> rows[o].status]
           pc == IF changed = {} THEN "writeLine" ELSE "forward"
           new == [req[r] EXCEPT !.next = n, !.plan = plan, !.stale = FALSE, !.pc = pc]
<1>2. req' = [req EXCEPT ![r] = new] BY <1>1, <1>0 DEF TypeInv
<1>3. req[r].order \in Nat
  <2>1. req[r].order \in Orders \cup {NoOrder} BY <1>0 DEF Record
  <2>2. NoOrder \in Nat BY DEF NoOrder
  <2> QED BY <2>1, <2>2, OrdersArePositive
<1>4. rows \in [DOMAIN steps -> Step]
  BY <1>0, <1>3, ForwardedRows DEF TypeOK
<1>5. ASSUME NEW o \in changed, IsActionable(steps[o]) PROVE rows[o].status = "PENDING"
  <2>1. steps[o] \in Step BY <1>0 DEF TypeOK
  <2>2. rows[o] \in {steps[o], [steps[o] EXCEPT !.status = "PENDING"]}
    BY <1>5 DEF Forwarded
  <2> QED BY <2>1, <2>2 DEF Step
<1>6. changed \in SUBSET Orders BY <1>0 DEF TypeOK
<1> HIDE DEF rows
<1>7. \A o \in changed : plan[o] \in StepStatuses BY <1>4 DEF Step
<1>8. plan \in Plans /\ DOMAIN plan = changed
  <2>1. DOMAIN plan = changed /\ plan = [o \in changed |-> plan[o]] OBVIOUS
  <2> HIDE DEF plan, changed
  <2>2. plan \in [changed -> StepStatuses] BY <1>7, <2>1
  <2> QED BY <1>6, <2>1, <2>2 DEF Plans
<1>9. pc \in Statements /\ pc # "idle" /\ pc \notin {"decideStep", "logDecision"} BY DEF Statements
<1>10. pc = "forward" => changed # {} OBVIOUS
<1>11. \A o \in changed : IsActionable(steps[o]) => plan[o] = "PENDING" BY <1>5
<1>12. changed \subseteq DOMAIN steps OBVIOUS
<1> HIDE DEF plan, changed, pc
<1>13. /\ new \in Record /\ new.pc = pc /\ new.plan = plan /\ ~new.stale
       /\ new.user = req[r].user /\ new.op = req[r].op /\ new.order = req[r].order
  BY <1>0, <1>8, <1>9 DEF Record
<1>14. req[r].pc # "idle" BY DEF ReadSteps, At
<1> HIDE DEF new
<1>15. Sound(new) BY <1>0, <1>8, <1>9, <1>10, <1>13, <1>14, IdleSound DEF Sound
<1>16. req'[r] = new BY <1>2 DEF TypeInv
<1>17. UNCHANGED vars /\ UNCHANGED crashes BY DEF ReadSteps
<1>18. TypeOK' /\ RowsStay /\ crashes' \in 0..MaxCrashes
  BY <1>0, <1>17, RowsUntouched DEF TypeOK, vars, TypeInv
<1>19. Holding(req[r])'
  <2>1. steps' = steps BY <1>17 DEF vars
  <2> QED BY <2>1, <1>8, <1>9, <1>11, <1>12, <1>13, <1>16 DEF Holding
<1> QED BY <1>2, <1>13, <1>15, <1>18, <1>19, OneMoves

LEMMA ForwardKeeps ==
  ASSUME TypeInv, HoldingInv, NEW r \in Requests, Forward(r)
  PROVE  RowsStay /\ TypeInv' /\ HoldingInv'
<1>0. TypeOK /\ req[r] \in Record /\ Sound(req[r]) /\ req[r].pc = "forward"
  BY DEF TypeInv, Forward, At
<1>1. CASE req[r].stale
  <2>1. UNCHANGED steps /\ End(r) BY <1>1 DEF Forward
  <2>2. TypeOK' BY <1>0, <2>1 DEF Forward, TypeOK
  <2> QED BY <2>1, <2>2, RowsUntouched, Answering
<1>2. CASE ~req[r].stale
  <2>1. PICK o \in DOMAIN req[r].plan :
          LET rest == DOMAIN req[r].plan \ {o}
          IN  /\ steps' = [steps EXCEPT ![o].status = req[r].plan[o]]
              /\ req' = [req EXCEPT ![r].plan = [p \in rest |-> req[r].plan[p]],
                                    ![r].pc = IF rest = {} THEN "writeLine" ELSE "forward"]
              /\ UNCHANGED crashes
    BY <1>2 DEF Forward
  <2> DEFINE rest == DOMAIN req[r].plan \ {o}
             plan == [p \in rest |-> req[r].plan[p]]
             pc == IF rest = {} THEN "writeLine" ELSE "forward"
             new == [req[r] EXCEPT !.plan = plan, !.pc = pc]
  <2>2. req' = [req EXCEPT ![r] = new] BY <2>1 DEF TypeInv
  <2>3. PICK D \in SUBSET Orders : req[r].plan \in [D -> StepStatuses]
    <3>1. req[r].plan \in Plans BY <1>0 DEF Record
    <3> QED BY <3>1 DEF Plans
  <2>4. req[r].plan[o] \in StepStatuses BY <2>1, <2>3
  <2>5. RowsStay /\ DOMAIN steps' \subseteq Orders /\ steps' \in [DOMAIN steps' -> Step]
    BY <1>0, <2>1, <2>4, SetStatus
  <2>6. rest \subseteq DOMAIN req[r].plan /\ rest \in SUBSET Orders BY <2>3
  <2>7. DOMAIN plan = rest /\ \A p \in rest : plan[p] = req[r].plan[p] OBVIOUS
  <2>8. plan \in Plans
    <3>1. plan = [p \in rest |-> plan[p]] /\ \A p \in rest : plan[p] \in StepStatuses
      BY <2>3, <2>6, <2>7
    <3> HIDE DEF plan, rest
    <3>2. plan \in [rest -> StepStatuses] BY <3>1
    <3> QED BY <2>6, <3>2 DEF Plans
  <2>9. /\ pc \in Statements /\ pc # "idle" /\ pc \notin {"decideStep", "logDecision"}
        /\ pc = "forward" => rest # {}
    BY DEF Statements
  <2> HIDE DEF plan, rest, pc
  <2>10. /\ new \in Record /\ new.pc = pc /\ new.plan = plan /\ new.stale = req[r].stale
         /\ new.user = req[r].user /\ new.op = req[r].op /\ new.order = req[r].order
    BY <1>0, <2>8, <2>9 DEF Record
  <2> HIDE DEF new
  <2>11. Sound(new) BY <1>0, <2>7, <2>9, <2>10, IdleSound DEF Sound
  <2>12. req'[r] = new BY <2>2 DEF TypeInv
  <2>13. Holding(req[r])'
    <3>1. Holding(req[r]) BY DEF HoldingInv
    <3>2. /\ DOMAIN req[r].plan \subseteq DOMAIN steps
          /\ \A p \in DOMAIN req[r].plan : IsActionable(steps[p]) => req[r].plan[p] = "PENDING"
      BY <1>0, <1>2, <3>1 DEF Holding
    <3>3. \A p \in DOMAIN steps : p \in DOMAIN steps' /\ (IsActionable(steps'[p]) <=> IsActionable(steps[p]))
      BY <2>5 DEF RowsStay, IsActionable
    <3>4. /\ DOMAIN plan \subseteq DOMAIN steps'
          /\ \A p \in DOMAIN plan : IsActionable(steps'[p]) => plan[p] = "PENDING"
      BY <2>6, <2>7, <3>2, <3>3
    <3> QED BY <2>9, <2>10, <2>12, <3>4 DEF Holding
  <2>14. TypeOK' BY <1>0, <2>5 DEF Forward, TypeOK
  <2>15. crashes' \in 0..MaxCrashes BY <2>1 DEF TypeInv
  <2> QED BY <2>2, <2>5, <2>10, <2>11, <2>13, <2>14, <2>15, OneMoves
<1> QED BY <1>1, <1>2

LEMMA CrashKeeps ==
  ASSUME TypeInv, HoldingInv, NEW r \in Requests, Crash(r)
  PROVE  TypeInv' /\ HoldingInv'
<1>1. TypeOK' BY DEF Crash, TypeInv, TypeOK, vars
<1>2. crashes' \in 0..MaxCrashes BY RequestsAssumption DEF Crash, TypeInv
<1>3. RowsStay BY RowsUntouched DEF Crash, vars
<1> QED BY <1>1, <1>2, <1>3, Ending DEF Crash

LEMMA ArriveKeeps ==
  ASSUME TypeInv, HoldingInv, NEW r \in Requests, NEW u \in Users, Arrive(r, u)
  PROVE  RowsStay /\ TypeInv' /\ HoldingInv'
<1>0. TypeOK BY DEF TypeInv
<1>n. /\ "create" \in OpNames /\ "configure" \in OpNames
      /\ \A name \in {"submit", "resubmit", "cancel", "approve", "reject"} : name \in OpNames
  BY DEF OpNames
<1>s. /\ "decideStep" \in Statements
      /\ \A pc \in {"insertRequest", "findLine", "createLine", "deleteActions", "resetSteps",
                      "cancelSteps"} :
           pc \in Statements /\ pc \notin {"forward", "logDecision", "decideStep"}
  BY DEF Statements
<1>1. ASSUME BeginCreateDocument(r, u) \/ BeginAddVersion(r, u) PROVE RowsStay /\ TypeInv' /\ HoldingInv'
  <2>1. steps' = steps /\ req' = req /\ crashes' = crashes
    BY <1>1 DEF BeginCreateDocument, BeginAddVersion, CreateDocument, AddVersion
  <2>2. TypeOK'
    BY <1>0, <1>1 DEF BeginCreateDocument, BeginAddVersion, CreateDocument, AddVersion, TypeOK,
                      DocumentStatuses
  <2>3. RowsStay BY <2>1, RowsUntouched
  <2>4. \A q \in Requests : Holding(req[q])' BY <2>1, <2>3, HeldStays DEF HoldingInv
  <2> QED BY <2>1, <2>2, <2>3, <2>4 DEF TypeInv, HoldingInv
<1>2. ASSUME NEW approvers \in ApproverLists, BeginCreate(r, u, approvers)
      PROVE  RowsStay /\ TypeInv' /\ HoldingInv'
  <2> DEFINE pc == IF DOMAIN approvers = {} THEN "insertRequest" ELSE "findLine"
             routing == [o \in DOMAIN approvers |-> [type |-> "APPROVE", approver |-> approvers[o]]]
             new == [Request("create", u, pc) EXCEPT !.routing = routing]
  <2>1. Begin(r, new) BY <1>2 DEF BeginCreate
  <2>2. PICK m \in Orders \cup {0} : 1..m \subseteq Orders /\ approvers \in [1..m -> Employees]
    BY DEF ApproverLists
  <2>3. routing \in RoutingsOrNone
    <3>1. routing \in [1..m -> [type : StepTypes, approver : Employees]]
      BY <2>2 DEF StepTypes
    <3>2. 1..m \in SUBSET Orders BY <2>2
    <3> QED BY <3>1, <3>2 DEF RoutingsOrNone
  <2>4. pc \in Statements \ {"forward", "logDecision", "decideStep"} BY <1>s
  <2> HIDE DEF routing, pc
  <2>5. new \in Record /\ new.pc = pc /\ new.op = "create" /\ new.user = u
    <3>1. /\ Request("create", u, pc) \in Record /\ Request("create", u, pc).pc = pc
          /\ Request("create", u, pc).op = "create" /\ Request("create", u, pc).user = u
      <4>1. pc \in Statements BY <2>4
      <4> HIDE DEF new
      <4> QED BY <1>n, <4>1, RequestTyped
    <3> QED BY <2>3, <3>1 DEF Record
  <2> HIDE DEF new
  <2>6. RowsStay BY <1>2, RowsUntouched DEF BeginCreate
  <2>7. TypeOK' BY <1>0, <1>2 DEF BeginCreate, TypeOK, DocumentStatuses
  <2> QED BY <2>1, <2>4, <2>5, <2>6, <2>7, Beginning
<1>3. ASSUME NEW routing \in RequestRoutings, BeginConfigure(r, u, routing)
      PROVE  RowsStay /\ TypeInv' /\ HoldingInv'
  <2> DEFINE pc == IF lineStatus = "NONE" THEN "createLine" ELSE "deleteActions"
             new == [Request("configure", u, pc) EXCEPT !.routing = routing]
  <2>1. Begin(r, new) BY <1>3 DEF BeginConfigure
  <2>2. routing \in RoutingsOrNone
    <3>1. PICK D \in SUBSET Orders : routing \in [D -> [type : Types, approver : Employees]]
      BY RequestsAssumption DEF Routings
    <3>2. routing \in [D -> [type : StepTypes, approver : Employees]]
      BY <3>1, ApprovalsAssumption
    <3> QED BY <3>2 DEF RoutingsOrNone
  <2>3. pc \in Statements \ {"forward", "logDecision", "decideStep"} BY <1>s
  <2> HIDE DEF pc
  <2>4. new \in Record /\ new.pc = pc /\ new.op = "configure" /\ new.user = u
    <3>1. /\ Request("configure", u, pc) \in Record /\ Request("configure", u, pc).pc = pc
          /\ Request("configure", u, pc).op = "configure" /\ Request("configure", u, pc).user = u
      <4>1. pc \in Statements BY <2>3
      <4> HIDE DEF new
      <4> QED BY <1>n, <4>1, RequestTyped
    <3> QED BY <2>2, <3>1 DEF Record
  <2> HIDE DEF new
  <2>5. RowsStay BY <1>3, RowsUntouched DEF BeginConfigure, vars
  <2>6. TypeOK' BY <1>0, <1>3 DEF BeginConfigure, TypeOK, vars
  <2> QED BY <2>1, <2>3, <2>4, <2>5, <2>6, Beginning
<1>4. ASSUME NEW name \in {"submit", "resubmit", "cancel"}, NEW pc \in {"resetSteps", "cancelSteps"},
             Begin(r, Request(name, u, pc)), UNCHANGED vars
      PROVE  RowsStay /\ TypeInv' /\ HoldingInv'
  <2> DEFINE new == Request(name, u, pc)
  <2>1. new \in Record /\ new.pc = pc /\ new.op = name /\ new.user = u
    <3>1. name \in OpNames /\ pc \in Statements BY <1>n, <1>s
    <3> QED BY <3>1, RequestTyped
  <2> HIDE DEF new
  <2>2. Begin(r, new) BY <1>4 DEF new
  <2>3. TypeOK' BY <1>0, <1>4 DEF TypeOK, vars
  <2>4. RowsStay BY <1>4, RowsUntouched DEF vars
  <2>5. /\ new.pc \in Statements \ {"forward", "logDecision"} /\ new.pc # "decideStep"
        /\ new.op \notin {"approve", "reject"}
    BY <1>s, <2>1
  <2> QED BY <2>1, <2>2, <2>3, <2>4, <2>5, Beginning
<1>5. ASSUME NEW name \in {"approve", "reject"}, BeginDecision(r, u, name)
      PROVE  RowsStay /\ TypeInv' /\ HoldingInv'
  <2> DEFINE new == [Request(name, u, "decideStep") EXCEPT !.order = currentOrder]
  <2>1. /\ Begin(r, new) /\ currentOrder \in DOMAIN steps
        /\ steps[currentOrder].approver = EmployeeOf[u]
    BY <1>5 DEF BeginDecision, MayDecide
  <2>2. currentOrder \in Orders BY <1>0, <2>1 DEF TypeOK
  <2>3. new \in Record /\ new.pc = "decideStep" /\ new.op = name /\ new.user = u /\ new.order = currentOrder
    <3>1. /\ Request(name, u, "decideStep") \in Record /\ Request(name, u, "decideStep").pc = "decideStep"
          /\ Request(name, u, "decideStep").op = name /\ Request(name, u, "decideStep").user = u
      BY <1>n, <1>s, RequestTyped
    <3> QED BY <2>2, <3>1 DEF Record
  <2> HIDE DEF new
  <2>4. TypeOK' BY <1>0, <1>5 DEF BeginDecision, TypeOK, vars
  <2>5. RowsStay BY <1>5, RowsUntouched DEF BeginDecision, vars
  <2>6. /\ new.pc \in Statements \ {"forward", "logDecision"} /\ new.user \in Users
        /\ new.op \in {"approve", "reject"} /\ new.order \in Orders
        /\ new.order \in DOMAIN steps /\ steps[new.order].approver = EmployeeOf[new.user]
    BY <1>s, <2>1, <2>2, <2>3
  <2>7. Begin(r, new) BY <2>1
  <2> QED BY <2>3, <2>4, <2>5, <2>6, <2>7, Beginning
<1> QED BY <1>1, <1>2, <1>3, <1>4, <1>5 DEF Arrive, BeginSubmit, BeginResubmit, BeginCancel

LEMMA TypesNext == TypeInv /\ HoldingInv /\ [RequestsNext]_reqVars => TypeInv' /\ HoldingInv'
<1> SUFFICES ASSUME TypeInv, HoldingInv, [RequestsNext]_reqVars PROVE TypeInv' /\ HoldingInv'
  OBVIOUS
<1>1. CASE UNCHANGED reqVars
  BY <1>1 DEF reqVars, vars, TypeInv, TypeOK, HoldingInv, Holding
<1>2. ASSUME NEW r \in Requests, NEW u \in Users, Arrive(r, u) PROVE TypeInv' /\ HoldingInv'
  BY <1>2, ArriveKeeps
<1>3. ASSUME NEW r \in Requests, Continue(r) PROVE TypeInv' /\ HoldingInv'
  BY <1>3, LineStatements, DeleteStepsKeeps, CreateStepsKeeps, UpdateManyKeeps,
     DecideStepKeeps, ReadStepsKeeps, ForwardKeeps DEF Continue
<1>4. ASSUME NEW r \in Requests, Crash(r) PROVE TypeInv' /\ HoldingInv'
  BY <1>4, CrashKeeps
<1> QED BY <1>1, <1>2, <1>3, <1>4 DEF RequestsNext

LEMMA TypesAlways == RequestsSpec \/ SubmittedSpec => [](TypeInv /\ HoldingInv)
BY TypesInit, TypesNext, PTL DEF RequestsSpec, SubmittedSpec

\* However many requests overlap and are cut short, the rows keep the types of the
\* schema and a request the local values of the statement it is at.
THEOREM RequestTypesHold == RequestsSpec \/ SubmittedSpec => []RequestsTypeOK
<1>1. TypeInv /\ HoldingInv => RequestsTypeOK
  BY DEF TypeInv, HoldingInv, Sound, Holding, RequestsTypeOK, Record
<1> QED BY <1>1, TypesAlways, PTL

(***************************************************************************)
(* Who decides: the statements that change the status of a row that is     *)
(* there before and after.  A request that has read rows which are gone    *)
(* writes nothing; createMany writes other rows; resetting and canceling   *)
(* write no decision, and moveForwardToNextActionable none for a step that *)
(* somebody decides.                                                       *)
(***************************************************************************)
Decides(o) ==
  /\ o \in DOMAIN steps \cap DOMAIN steps'
  /\ IsActionable(steps[o])
  /\ steps'[o].status # steps[o].status
  /\ steps'[o].status \in {"APPROVED", "REJECTED"}

LEMMA OnlyDecideStep ==
  ASSUME TypeInv, HoldingInv, NEW r \in Requests, Continue(r), NEW o, Decides(o)
  PROVE  At(r, "decideStep") /\ EmployeeOf[req[r].user] = steps[o].approver
<1>0. TypeOK /\ req[r] \in Record BY DEF TypeInv
<1>1. steps' # steps BY DEF Decides
<1>2. CASE DeleteSteps(r)
  BY <1>2 DEF DeleteSteps, Decides, NoSteps
<1>3. CASE CreateSteps(r)
  BY <1>1, <1>3 DEF CreateSteps, Decides
<1>4. CASE ResetSteps(r)
  <2>1. steps'[o] = [steps[o] EXCEPT !.status = "WAITING"]
    BY <1>4 DEF ResetSteps, Decides, Waiting
  <2>2. steps[o] \in Step BY <1>0 DEF Decides, TypeOK
  <2> QED BY <2>1, <2>2 DEF Decides, Step
<1>5. CASE CancelSteps(r)
  <2>1. steps'[o] \in {steps[o], [steps[o] EXCEPT !.status = "CANCELED"]}
    BY <1>5 DEF CancelSteps, Decides, Canceled
  <2>2. steps[o] \in Step BY <1>0 DEF Decides, TypeOK
  <2> QED BY <2>1, <2>2 DEF Decides, Step
<1>6. CASE DecideStep(r)
  <2>1. ~req[r].stale /\ req[r].pc = "decideStep" BY <1>1, <1>6 DEF DecideStep, At
  <2>2. o = req[r].order BY <1>6, <2>1 DEF DecideStep, Decides
  <2> QED BY <2>1, <2>2 DEF HoldingInv, Holding, At
<1>7. CASE Forward(r)
  <2>1. ~req[r].stale /\ req[r].pc = "forward" BY <1>1, <1>7 DEF Forward, At
  <2>2. PICK p \in DOMAIN req[r].plan : steps' = [steps EXCEPT ![p].status = req[r].plan[p]]
    BY <1>7, <2>1 DEF Forward
  <2>3. o = p BY <2>2 DEF Decides
  <2>4. req[r].plan[p] = "PENDING"
    BY <2>1, <2>3 DEF HoldingInv, Holding, Decides
  <2>5. steps[o] \in Step BY <1>0 DEF Decides, TypeOK
  <2> QED BY <2>2, <2>3, <2>4, <2>5 DEF Decides, Step
<1>8. CASE \/ FindLine(r) \/ CreateLine(r) \/ DeleteActions(r) \/ ResetLine(r) \/ ReadLine(r)
           \/ LogDecision(r) \/ ReadSteps(r) \/ WriteLine(r) \/ WriteDocument(r)
           \/ LogSubmission(r) \/ FindRequest(r) \/ SyncRequest(r) \/ InsertRequest(r)
  <2>1. steps' = steps
    BY <1>8 DEF FindLine, CreateLine, DeleteActions, ResetLine, ReadLine, LogDecision, ReadSteps,
                WriteLine, WriteDocument, LogSubmission, FindRequest, SyncRequest,
                InsertRequest, vars
  <2> QED BY <1>1, <2>1
<1> QED BY <1>2, <1>3, <1>4, <1>5, <1>6, <1>7, <1>8 DEF Continue

\* Only the approver a step names decides it, however requests overlap with others
\* that reconfigure, cancel or resubmit the line, and wherever they are cut short.
THEOREM OnlyApproversDecide == RequestsSpec \/ SubmittedSpec => AssignedApproverDecides
<1> DEFINE Assigned ==
      \A o \in DOMAIN steps \cap DOMAIN steps' :
        /\ IsActionable(steps[o])
        /\ steps'[o].status # steps[o].status
        /\ steps'[o].status \in {"APPROVED", "REJECTED"}
        => \E r \in Requests : /\ At(r, "decideStep")
                               /\ EmployeeOf[req[r].user] = steps[o].approver
<1>1. ASSUME TypeInv, HoldingInv, RequestsNext PROVE Assigned
  <2>1. SUFFICES ASSUME NEW o, Decides(o)
                 PROVE  \E r \in Requests :
                          At(r, "decideStep") /\ EmployeeOf[req[r].user] = steps[o].approver
    BY DEF Decides
  <2>2. ASSUME NEW r \in Requests, NEW u \in Users, Arrive(r, u) PROVE steps' = steps
    BY <2>2 DEF Arrive, BeginCreateDocument, BeginAddVersion, BeginCreate, BeginConfigure,
                BeginSubmit, BeginResubmit, BeginDecision, BeginCancel, CreateDocument,
                AddVersion, vars
  <2>3. ASSUME NEW r \in Requests, Crash(r) PROVE steps' = steps
    BY <2>3 DEF Crash, vars
  <2>4. steps' # steps BY <2>1 DEF Decides
  <2>5. PICK r \in Requests : Continue(r) BY <1>1, <2>2, <2>3, <2>4 DEF RequestsNext
  <2> QED BY <1>1, <2>1, <2>5, OnlyDecideStep
<1>2. TypeInv /\ HoldingInv /\ [RequestsNext]_reqVars => [Assigned]_reqVars
  BY <1>1
<1> QED BY <1>2, TypesAlways, PTL DEF RequestsSpec, SubmittedSpec, AssignedApproverDecides
=============================================================================
