---------------------- MODULE ApprovalConsistencyProofs ----------------------
(***************************************************************************)
(* Proofs about module ApprovalRequests: when the tables agree.  What one  *)
(* undisturbed request does to whatever overlapping and cut short requests *)
(* have left: a submit, resubmit or create leaves the tables in agreement, *)
(* a cancel closes the line.  What approvers do who decide one after the   *)
(* other.  And that requests which never overlap implement Approvals.      *)
(***************************************************************************)
EXTENDS ApprovalRequestsProofs, SerialApprovalRequests

(***************************************************************************)
(* How far a request that has been alone since its first statement is.     *)
(***************************************************************************)
\* The status moveForwardToNextActionable gives row o of a new round if it returns n.
Goal(n, o) == IF n = NoOrder \/ o < n THEN "APPROVED"
              ELSE IF o = n THEN "PENDING" ELSE "WAITING"

Opened(n) == n # NoOrder => n \in DOMAIN steps /\ IsActionable(steps[n])

OutcomeOf(q) == IF q.next = NoOrder THEN "APPROVED" ELSE "IN_REVIEW"

SubmitPlaces == {"findLine", "createLine", "createSteps", "readLine", "resetSteps", "readSteps",
                 "forward", "writeLine", "writeDocument", "logSubmission", "findRequest",
                 "syncRequest", "insertRequest"}

\* What holds of the row of the linked request and of the routing while it is created.
CreateStage(q) ==
  /\ requestStatus = "NONE"
  /\ q.pc \in {"findLine", "createLine", "createSteps"} =>
       /\ DOMAIN steps = {} /\ DOMAIN q.routing # {}
       /\ \A o \in DOMAIN q.routing : q.routing[o].type = "APPROVE"
  /\ q.pc \in {"findLine", "createLine"} => lineStatus = "NONE"
  /\ q.pc \in {"readLine", "resetSteps", "readSteps"} =>
       DOMAIN steps # {} /\ \A o \in DOMAIN steps : IsActionable(steps[o])
  /\ q.pc \in {"forward", "writeLine", "writeDocument", "logSubmission", "findRequest"} =>
       q.next # NoOrder

SubmitStage(q) ==
  /\ q.pc \in SubmitPlaces
  /\ q.order = NoOrder
  /\ IF q.op = "create" THEN CreateStage(q)
     ELSE q.pc \notin {"findLine", "createLine", "createSteps", "readLine", "insertRequest"}
  /\ q.pc = "readSteps" => \A o \in DOMAIN steps : steps[o].status = "WAITING"
  /\ q.pc = "forward" =>
       /\ ~q.stale /\ Opened(q.next) /\ DOMAIN q.plan \subseteq DOMAIN steps
       /\ \A o \in DOMAIN steps :
            IF o \in DOMAIN q.plan THEN q.plan[o] = Goal(q.next, o)
                                   ELSE steps[o].status = Goal(q.next, o)
  /\ q.pc = "writeLine" =>
       Opened(q.next) /\ \A o \in DOMAIN steps : steps[o].status = Goal(q.next, o)
  /\ q.pc \in {"writeDocument", "logSubmission", "findRequest", "syncRequest"} =>
       lineStatus = OutcomeOf(q) /\ StepsMatchLine
  /\ q.pc \in {"logSubmission", "findRequest", "syncRequest"} => DocumentFollowsLine
  /\ q.pc = "insertRequest" =>
       /\ lineStatus \in {"NONE", "IN_REVIEW"}
       /\ StepsMatchLine /\ DocumentFollowsLine

CancelStage(q) ==
  /\ q.pc \in {"cancelSteps", "writeLine", "writeDocument", "findRequest", "syncRequest"}
  /\ q.pc # "cancelSteps" =>
       \A o \in DOMAIN steps : steps[o].status \in {"APPROVED", "REJECTED", "CANCELED"}
  /\ q.pc \in {"writeDocument", "findRequest", "syncRequest"} =>
       lineStatus = "CANCELED" /\ currentOrder = NoOrder
  /\ q.pc \in {"findRequest", "syncRequest"} => documentStatus \in {"CANCELED", "DRAFT"}

Stage(r) == /\ Submits(r) => SubmitStage(req[r])
            /\ req[r].op = "cancel" => CancelStage(req[r])

\* Before the document there is nothing, and nobody is at it.
DocumentFirst ==
  documentStatus = "NONE" =>
    /\ lineStatus = "NONE" /\ currentOrder = NoOrder /\ DOMAIN steps = {} /\ requestStatus = "NONE"
    /\ InFlight = {}

LoneInv ==
  /\ DocumentFirst
  /\ \A r \in Requests : req[r].alone => InFlight = {r} /\ Stage(r)

Inv == TypeInv /\ HoldingInv /\ LoneInv

(***************************************************************************)
(* How the slots move.                                                     *)
(***************************************************************************)
LEMMA Moving ==
  ASSUME TypeInv, NEW r \in Requests, NEW pc \in Statements, Goto(r, pc), req[r].pc # "idle"
  PROVE  /\ req'[r] = [req[r] EXCEPT !.pc = pc]
         /\ req'[r].pc = pc /\ req'[r].op = req[r].op /\ req'[r].order = req[r].order
         /\ req'[r].next = req[r].next /\ req'[r].plan = req[r].plan
         /\ req'[r].routing = req[r].routing /\ req'[r].user = req[r].user
         /\ req'[r].stale = req[r].stale /\ req'[r].alone = req[r].alone
         /\ InFlight' = InFlight
         /\ \A q \in Requests \ {r} : req'[q] = req[q]
<1>1. req \in [Requests -> Record] BY DEF TypeInv
<1>2. req' = [req EXCEPT ![r] = [@ EXCEPT !.pc = pc]] BY DEF Goto
<1>3. req'[r] = [req[r] EXCEPT !.pc = pc] /\ \A q \in Requests \ {r} : req'[q] = req[q]
  BY <1>1, <1>2
<1>4. req[r] \in Record BY <1>1
<1>5. pc # "idle" BY DEF Statements
<1>6. req'[r].pc = pc BY <1>3, <1>4 DEF Record
<1>7. InFlight' = InFlight BY <1>3, <1>5, <1>6 DEF InFlight
<1> QED BY <1>3, <1>4, <1>7 DEF Record

\* A request that is alone does a statement and goes on.
LEMMA LoneStays ==
  ASSUME LoneInv, NEW r \in Requests, req[r].alone, req'[r].pc # "idle",
         req'[r].alone = req[r].alone, \A q \in Requests \ {r} : req'[q] = req[q],
         documentStatus' # "NONE", Stage(r)'
  PROVE  LoneInv'
<1>1. InFlight = {r} BY DEF LoneInv
<1>2. InFlight' = {r} BY <1>1 DEF InFlight
<1>3. \A q \in Requests \ {r} : ~req[q].alone BY <1>1 DEF LoneInv
<1> QED BY <1>2, <1>3 DEF LoneInv, DocumentFirst

LEMMA LoneGoes ==
  ASSUME TypeInv, LoneInv, NEW r \in Requests, req[r].alone,
         NEW pc \in Statements, Goto(r, pc), documentStatus' # "NONE", Stage(r)'
  PROVE  LoneInv'
<1>0. req[r].pc # "idle" BY DEF LoneInv, InFlight
<1>1. pc # "idle" BY DEF Statements
<1>2. /\ req'[r].pc # "idle" /\ req'[r].alone = req[r].alone
      /\ \A q \in Requests \ {r} : req'[q] = req[q]
  BY <1>0, <1>1, Moving
<1> QED BY <1>2, LoneStays

\* When nobody is alone, a step after which nobody is either keeps LoneInv.
LEMMA NobodyAlone ==
  ASSUME \A q \in Requests : ~req'[q].alone, documentStatus' # "NONE"
  PROVE  LoneInv'
BY DEF LoneInv, DocumentFirst

LEMMA IdleAlone == Idle.alone = FALSE /\ Idle.pc = "idle" /\ Idle.op = "none"
BY DEF Idle

\* Request r ends, by its last statement or cut short.
LEMMA LoneEnds ==
  ASSUME TypeInv, LoneInv, NEW r \in Requests, req[r].pc # "idle",
         req' = [req EXCEPT ![r] = Idle], documentStatus' # "NONE"
  PROVE  LoneInv'
<1>1. req'[r] = Idle /\ \A q \in Requests \ {r} : req'[q] = req[q] BY DEF TypeInv
<1>2. r \in InFlight BY DEF InFlight
<1>3. \A q \in Requests \ {r} : ~req[q].alone BY <1>2 DEF LoneInv
<1>4. ~req'[r].alone BY <1>1, IdleAlone
<1>5. \A q \in Requests : ~req'[q].alone BY <1>1, <1>3, <1>4
<1> QED BY <1>5, NobodyAlone

(***************************************************************************)
(* A lone submit, resubmit or create, statement by statement.              *)
(***************************************************************************)
LEMMA SameLine ==
  ASSUME UNCHANGED <<lineStatus, currentOrder, steps>>
  PROVE  StepsMatchLine' <=> StepsMatchLine
BY DEF StepsMatchLine, Frontier

LEMMA SubmitGoes ==
  ASSUME TypeInv, LoneInv, NEW r \in Requests, req[r].alone, Submits(r),
         NEW pc \in Statements, Goto(r, pc), documentStatus' # "NONE", SubmitStage(req[r])'
  PROVE  LoneInv'
<1>0. req[r].pc # "idle" BY DEF LoneInv, InFlight
<1>1. req'[r].op = req[r].op BY <1>0, Moving
<1>2. Stage(r)' BY <1>1 DEF Stage, Submits
<1> QED BY <1>2, LoneGoes

LEMMA LoneCreate ==
  ASSUME TypeInv, LoneInv, NEW r \in Requests, req[r].alone, Submits(r),
         FindLine(r) \/ CreateLine(r) \/ CreateSteps(r) \/ ReadLine(r)
  PROVE  LoneInv'
<1>0. /\ req[r].pc # "idle" /\ SubmitStage(req[r]) /\ documentStatus # "NONE"
  BY DEF LoneInv, InFlight, DocumentFirst, Stage
<1>1. req[r].op = "create" /\ req[r].order = NoOrder /\ CreateStage(req[r])
  BY <1>0 DEF SubmitStage, FindLine, CreateLine, CreateSteps, ReadLine, At
<1>2. documentStatus' # "NONE" /\ requestStatus' = requestStatus
  BY <1>0 DEF FindLine, CreateLine, CreateSteps, ReadLine, vars
<1>3. ASSUME End(r) PROVE LoneInv'
  BY <1>0, <1>2, <1>3, LoneEnds DEF End
<1>4. ASSUME NEW pc \in {"createLine", "createSteps", "readLine", "resetSteps"}, Goto(r, pc),
             pc \in {"createLine", "createSteps"} =>
               steps' = steps /\ req[r].pc \in {"findLine", "createLine"},
             pc = "createLine" => lineStatus' = "NONE",
             pc \in {"readLine", "resetSteps"} =>
               DOMAIN steps' # {} /\ \A o \in DOMAIN steps' : IsActionable(steps'[o])
      PROVE  LoneInv'
  <2>1. pc \in Statements BY DEF Statements
  <2>2. /\ req'[r].pc = pc /\ req'[r].op = req[r].op /\ req'[r].order = req[r].order
        /\ req'[r].routing = req[r].routing
    BY <1>0, <1>4, <2>1, Moving
  <2>3. CreateStage(req[r])'
    BY <1>1, <1>2, <1>4, <2>2 DEF CreateStage, IsActionable
  <2>4. SubmitStage(req[r])'
    BY <1>1, <2>2, <2>3 DEF SubmitStage, SubmitPlaces
  <2> QED BY <1>2, <1>4, <2>1, <2>4, SubmitGoes
<1>5. CASE FindLine(r)
  <2>1. lineStatus = "NONE" /\ req[r].pc = "findLine" BY <1>1, <1>5 DEF FindLine, CreateStage, At
  <2>2. Goto(r, "createLine") /\ UNCHANGED vars BY <1>5, <2>1 DEF FindLine
  <2> QED BY <1>4, <2>1, <2>2 DEF vars
<1>6. CASE CreateLine(r)
  <2>1. lineStatus = "NONE" /\ req[r].pc = "createLine"
    BY <1>1, <1>6 DEF CreateLine, CreateStage, At
  <2>2. Goto(r, "createSteps") /\ steps' = steps BY <1>6, <2>1 DEF CreateLine
  <2> QED BY <1>4, <2>1, <2>2
<1>7. CASE CreateSteps(r)
  <2> DEFINE rows == FreshSteps(req[r].routing)
  <2>1. /\ DOMAIN steps = {} /\ DOMAIN rows # {}
        /\ \A o \in DOMAIN rows : IsActionable(rows[o])
    BY <1>1, <1>7 DEF CreateSteps, CreateStage, FreshSteps, IsActionable, At
  <2>2. /\ steps' = [o \in DOMAIN rows \cup DOMAIN steps |->
                       IF o \in DOMAIN rows THEN rows[o] ELSE steps[o]]
        /\ Goto(r, "readLine")
    BY <1>1, <1>7, <2>1 DEF CreateSteps
  <2> HIDE DEF rows
  <2>3. DOMAIN steps' # {} /\ \A o \in DOMAIN steps' : IsActionable(steps'[o])
    BY <2>1, <2>2
  <2> QED BY <1>4, <2>2, <2>3
<1>8. CASE ReadLine(r)
  <2>1. /\ DOMAIN steps # {} /\ \A o \in DOMAIN steps : IsActionable(steps[o])
        /\ steps' = steps
    BY <1>1, <1>8 DEF ReadLine, CreateStage, At, vars
  <2>2. DOMAIN steps' # {} /\ \A o \in DOMAIN steps' : IsActionable(steps'[o])
    BY <2>1
  <2>3. Goto(r, "resetSteps") \/ End(r) BY <1>8 DEF ReadLine
  <2> QED BY <1>3, <1>4, <2>2, <2>3
<1> QED BY <1>5, <1>6, <1>7, <1>8

LEMMA LoneReset ==
  ASSUME TypeInv, LoneInv, NEW r \in Requests, req[r].alone, Submits(r), ResetSteps(r)
  PROVE  LoneInv'
<1>0. /\ req[r].pc # "idle" /\ SubmitStage(req[r]) /\ documentStatus # "NONE"
  BY DEF LoneInv, InFlight, DocumentFirst, Stage
<1>1. Goto(r, "readSteps") /\ steps' = Waiting(steps) /\ UNCHANGED <<documentStatus, requestStatus>>
  BY DEF ResetSteps
<1>2. req[r].pc = "resetSteps" BY DEF ResetSteps, At
<1>3. DOMAIN steps' = DOMAIN steps BY <1>1 DEF Waiting
<1>4. \A o \in DOMAIN steps : steps'[o].status = "WAITING" /\ steps'[o].type = steps[o].type
  <2>1. ASSUME NEW o \in DOMAIN steps
        PROVE  steps'[o].status = "WAITING" /\ steps'[o].type = steps[o].type
    <3>1. steps[o] \in Step BY DEF TypeInv, TypeOK
    <3>2. steps'[o] = [steps[o] EXCEPT !.status = "WAITING"] BY <1>1 DEF Waiting
    <3> QED BY <3>1, <3>2 DEF Step
  <2> QED BY <2>1
<1>5. "readSteps" \in Statements BY DEF Statements
<1>6. /\ req'[r].pc = "readSteps" /\ req'[r].op = req[r].op /\ req'[r].order = req[r].order
  BY <1>0, <1>1, <1>5, Moving
<1>7. req[r].op = "create" => CreateStage(req[r])'
  BY <1>0, <1>1, <1>2, <1>3, <1>4, <1>6 DEF SubmitStage, CreateStage, IsActionable
<1>8. SubmitStage(req[r])'
  BY <1>0, <1>3, <1>4, <1>6, <1>7 DEF SubmitStage, SubmitPlaces
<1> QED BY <1>0, <1>1, <1>5, <1>8, SubmitGoes

\* What moveForwardToNextActionable returns and writes when everything up to "from" is
\* approved and everything behind it untouched.
LEMMA MovesOn ==
  ASSUME NEW rows, DOMAIN rows \subseteq Orders, rows \in [DOMAIN rows -> Step],
         NEW from \in Orders \cup {NoOrder}, NEW n \in Orders \cup {NoOrder},
         \A o \in DOMAIN rows : rows[o].status = IF o <= from THEN "APPROVED" ELSE "WAITING",
         IsNextActionable(rows, from, n)
  PROVE  /\ n # NoOrder => n \in DOMAIN rows /\ IsActionable(rows[n]) /\ n > from
         /\ \A o \in DOMAIN rows : Forwarded(rows, from, n)[o].status = Goal(n, o)
         /\ \A o \in DOMAIN rows : o > from /\ (n = NoOrder \/ o < n) => ~IsActionable(rows[o])
<1>1. from \in Nat /\ n \in Nat /\ NoOrder \in Nat BY OrdersArePositive DEF NoOrder
<1>2. OpensNext(rows, from, n) BY <1>1, ForwardedStatuses
<1>3. n # NoOrder => n \in DOMAIN rows /\ IsActionable(rows[n]) /\ n > from
  BY <1>2 DEF OpensNext
<1>4. \A o \in DOMAIN rows : o > from /\ (n = NoOrder \/ o < n) => ~IsActionable(rows[o])
  BY <1>2 DEF OpensNext
<1>5. ASSUME NEW o \in DOMAIN rows
      PROVE  Forwarded(rows, from, n)[o].status = Goal(n, o)
  <2>0. rows[o] \in Step /\ o \in Nat BY OrdersArePositive
  <2>1. CASE o <= from
    <3>1. n # o /\ (n = NoOrder \/ o < n)
      BY <1>1, <1>3, <2>0, <2>1, OrdersArePositive DEF NoOrder
    <3>2. Forwarded(rows, from, n)[o] = rows[o] BY <1>2, <2>1, <3>1 DEF OpensNext
    <3> QED BY <2>1, <3>1, <3>2 DEF Goal
  <2>2. CASE o > from /\ (n = NoOrder \/ o < n)
    <3>1. rows[o].status = "WAITING" BY <1>1, <2>0, <2>2
    <3>2. Forwarded(rows, from, n)[o] = [rows[o] EXCEPT !.status = "APPROVED"]
      BY <1>2, <2>2, <3>1 DEF OpensNext
    <3> QED BY <2>0, <2>2, <3>2 DEF Goal, Step
  <2>3. CASE o > from /\ n # NoOrder /\ o = n
    <3>1. rows[n].status = "WAITING" BY <1>1, <2>0, <2>3
    <3>2. Forwarded(rows, from, n)[n] = [rows[n] EXCEPT !.status = "PENDING"]
      BY <1>2, <2>3, <3>1 DEF OpensNext
    <3>3. ~(o < n) BY <1>1, <2>3
    <3> QED BY <2>0, <2>3, <3>2, <3>3 DEF Goal, Step
  <2>4. CASE o > from /\ n # NoOrder /\ o > n
    <3>1. o # n /\ ~(o < n) BY <1>1, <2>0, <2>4
    <3>2. Forwarded(rows, from, n)[o] = rows[o] BY <1>2, <2>4, <3>1 DEF OpensNext
    <3>3. rows[o].status = "WAITING" BY <1>1, <2>0, <2>4
    <3> QED BY <2>4, <3>1, <3>2, <3>3 DEF Goal
  <2> QED BY <1>1, <2>0, <2>1, <2>2, <2>3, <2>4
<1> QED BY <1>3, <1>4, <1>5

\* So it is in a new round.
LEMMA NewRound ==
  ASSUME TypeOK, \A o \in DOMAIN steps : steps[o].status = "WAITING",
         NEW n \in Orders \cup {NoOrder}, IsNextActionable(steps, NoOrder, n)
  PROVE  /\ Opened(n)
         /\ \A o \in DOMAIN steps : Forwarded(steps, NoOrder, n)[o].status = Goal(n, o)
         /\ (DOMAIN steps # {} /\ \A o \in DOMAIN steps : IsActionable(steps[o])) => n # NoOrder
<1>1. DOMAIN steps \subseteq Orders /\ steps \in [DOMAIN steps -> Step] BY DEF TypeOK
<1>2. \A o \in DOMAIN steps : o > NoOrder /\ ~(o <= NoOrder)
  BY <1>1, OrdersArePositive DEF NoOrder
<1>3. \A o \in DOMAIN steps : steps[o].status = IF o <= NoOrder THEN "APPROVED" ELSE "WAITING"
  BY <1>2
<1>4. /\ n # NoOrder => n \in DOMAIN steps /\ IsActionable(steps[n])
      /\ \A o \in DOMAIN steps : Forwarded(steps, NoOrder, n)[o].status = Goal(n, o)
      /\ \A o \in DOMAIN steps : o > NoOrder /\ (n = NoOrder \/ o < n) => ~IsActionable(steps[o])
  BY <1>1, <1>3, MovesOn
<1> QED BY <1>2, <1>4 DEF Opened

LEMMA LoneRead ==
  ASSUME TypeInv, LoneInv, NEW r \in Requests, req[r].alone, Submits(r), ReadSteps(r)
  PROVE  LoneInv'
<1>0. /\ req[r].pc # "idle" /\ SubmitStage(req[r]) /\ documentStatus # "NONE"
      /\ req[r] \in Record /\ TypeOK
  BY DEF LoneInv, InFlight, DocumentFirst, Stage, TypeInv
<1>1. /\ req[r].pc = "readSteps" /\ req[r].order = NoOrder
      /\ \A o \in DOMAIN steps : steps[o].status = "WAITING"
  BY <1>0 DEF ReadSteps, At, SubmitStage
<1>2. PICK n \in Orders \cup {NoOrder} :
        /\ IsNextActionable(steps, req[r].order, n)
        /\ LET rows == Forwarded(steps, req[r].order, n)
               changed == {o \in DOMAIN steps : rows[o] # steps[o]}
           IN  req' = [req EXCEPT ![r].next = n,
                                  ![r].plan = [o \in changed |-> rows[o].status],
                                  ![r].stale = FALSE,
                                  ![r].pc = IF changed = {} THEN "writeLine" ELSE "forward"]
  BY DEF ReadSteps
<1> DEFINE rows == Forwarded(steps, req[r].order, n)
           changed == {o \in DOMAIN steps : rows[o] # steps[o]}
           plan == [o \in changed |-> rows[o].status]
           pc == IF changed = {} THEN "writeLine" ELSE "forward"
           new == [req[r] EXCEPT !.next = n, !.plan = plan, !.stale = FALSE, !.pc = pc]
<1>3. req' = [req EXCEPT ![r] = new] BY <1>2, <1>0 DEF TypeInv
<1>4. IsNextActionable(steps, NoOrder, n) BY <1>1, <1>2
<1>5. /\ Opened(n) /\ \A o \in DOMAIN steps : rows[o].status = Goal(n, o)
      /\ (DOMAIN steps # {} /\ \A o \in DOMAIN steps : IsActionable(steps[o])) => n # NoOrder
  BY <1>0, <1>1, <1>4, NewRound
<1> HIDE DEF rows
<1>6. /\ DOMAIN plan \subseteq DOMAIN steps
      /\ \A o \in DOMAIN steps : IF o \in DOMAIN plan THEN plan[o] = Goal(n, o)
                                                     ELSE steps[o].status = Goal(n, o)
  <2>1. DOMAIN plan = changed OBVIOUS
  <2>2. \A o \in changed : plan[o] = rows[o].status OBVIOUS
  <2>3. \A o \in DOMAIN steps : o \notin changed => rows[o] = steps[o] OBVIOUS
  <2>4. changed \subseteq DOMAIN steps OBVIOUS
  <2> HIDE DEF plan, changed
  <2> QED BY <1>5, <2>1, <2>2, <2>3, <2>4
<1>7. pc = "writeLine" => DOMAIN plan = {} OBVIOUS
<1>8. pc \in {"writeLine", "forward"} OBVIOUS
<1> HIDE DEF plan, changed, pc
<1>9. /\ new.pc = pc /\ new.plan = plan /\ ~new.stale /\ new.op = req[r].op
      /\ new.order = req[r].order /\ new.next = n /\ new.alone = req[r].alone
  BY <1>0 DEF Record
<1> HIDE DEF new
<1>10. req'[r] = new /\ \A q \in Requests \ {r} : req'[q] = req[q] BY <1>3 DEF TypeInv
<1>11. UNCHANGED vars BY DEF ReadSteps
<1>12. steps' = steps /\ requestStatus' = requestStatus /\ documentStatus' = documentStatus
  BY <1>11 DEF vars
<1>13. req[r].op = "create" => CreateStage(req[r])'
  <2>1. req[r].op = "create" => requestStatus = "NONE" /\ n # NoOrder
    BY <1>0, <1>1, <1>5 DEF SubmitStage, CreateStage
  <2> QED BY <1>8, <1>9, <1>10, <1>12, <2>1 DEF CreateStage
<1>14. Opened(n)' BY <1>5, <1>12 DEF Opened, IsActionable
<1>15. pc = "writeLine" => \A o \in DOMAIN steps : steps[o].status = Goal(n, o)
  BY <1>6, <1>7
<1>16. SubmitStage(req[r])'
  <2>1. req'[r].pc = pc /\ req'[r].order = NoOrder /\ req'[r].op = req[r].op
        /\ req'[r].next = n /\ req'[r].plan = plan /\ ~req'[r].stale
    BY <1>1, <1>9, <1>10
  <2> QED BY <1>6, <1>8, <1>12, <1>13, <1>14, <1>15, <2>1 DEF SubmitStage, SubmitPlaces
<1>17. Stage(r)' BY <1>9, <1>10, <1>16 DEF Stage, Submits
<1> QED BY <1>0, <1>8, <1>9, <1>10, <1>12, <1>17, LoneStays

LEMMA LoneForward ==
  ASSUME TypeInv, LoneInv, NEW r \in Requests, req[r].alone, Submits(r), Forward(r)
  PROVE  LoneInv'
<1>0. /\ req[r].pc # "idle" /\ SubmitStage(req[r]) /\ documentStatus # "NONE"
      /\ req[r] \in Record /\ TypeOK /\ req[r].pc = "forward"
  BY DEF LoneInv, InFlight, DocumentFirst, Stage, TypeInv, Forward, At
<1> DEFINE q == req[r]
<1>1. /\ ~q.stale /\ Opened(q.next) /\ DOMAIN q.plan \subseteq DOMAIN steps /\ q.order = NoOrder
      /\ \A o \in DOMAIN steps : IF o \in DOMAIN q.plan THEN q.plan[o] = Goal(q.next, o)
                                                       ELSE steps[o].status = Goal(q.next, o)
  BY <1>0 DEF SubmitStage
<1>2. PICK o \in DOMAIN q.plan :
        LET rest == DOMAIN q.plan \ {o}
        IN  /\ steps' = [steps EXCEPT ![o].status = q.plan[o]]
            /\ req' = [req EXCEPT ![r].plan = [p \in rest |-> q.plan[p]],
                                  ![r].pc = IF rest = {} THEN "writeLine" ELSE "forward"]
            /\ UNCHANGED crashes
  BY <1>1 DEF Forward
<1> DEFINE rest == DOMAIN q.plan \ {o}
           plan == [p \in rest |-> q.plan[p]]
           pc == IF rest = {} THEN "writeLine" ELSE "forward"
           new == [q EXCEPT !.plan = plan, !.pc = pc]
<1>3. req' = [req EXCEPT ![r] = new] BY <1>2 DEF TypeInv
<1>4. UNCHANGED <<documentStatus, requestStatus>> BY DEF Forward
<1>5. DOMAIN steps' = DOMAIN steps BY <1>2
<1>6. ASSUME NEW p \in DOMAIN steps
      PROVE  /\ steps'[p].type = steps[p].type
             /\ p # o => steps'[p].status = steps[p].status
             /\ p = o => steps'[p].status = q.plan[o]
  <2>1. steps[p] \in Step BY <1>0 DEF TypeOK
  <2>2. steps'[p] = IF p = o THEN [steps[p] EXCEPT !.status = q.plan[o]] ELSE steps[p] BY <1>2
  <2> QED BY <2>1, <2>2 DEF Step
<1>7. DOMAIN plan = rest /\ \A p \in rest : plan[p] = q.plan[p] OBVIOUS
<1>8. \A p : p \in rest <=> p \in DOMAIN q.plan /\ p # o OBVIOUS
<1>9. pc \in {"writeLine", "forward"} /\ (pc = "writeLine" => rest = {}) OBVIOUS
<1> HIDE DEF plan, rest, pc
<1>10. /\ new.pc = pc /\ new.plan = plan /\ new.stale = q.stale /\ new.op = q.op
       /\ new.order = q.order /\ new.next = q.next /\ new.alone = q.alone
  BY <1>0 DEF Record
<1> HIDE DEF new
<1>11. req'[r] = new /\ \A p \in Requests \ {r} : req'[p] = req[p] BY <1>3 DEF TypeInv
<1>12. Opened(q.next)' BY <1>1, <1>5, <1>6, <1>10, <1>11 DEF Opened, IsActionable
<1>13. /\ DOMAIN plan \subseteq DOMAIN steps'
       /\ \A p \in DOMAIN steps' : IF p \in DOMAIN plan THEN plan[p] = Goal(q.next, p)
                                                        ELSE steps'[p].status = Goal(q.next, p)
  BY <1>1, <1>5, <1>6, <1>7, <1>8
<1>14. req[r].op = "create" => CreateStage(req[r])'
  <2>1. req[r].op = "create" => requestStatus = "NONE" /\ q.next # NoOrder
    BY <1>0 DEF SubmitStage, CreateStage
  <2> QED BY <1>4, <1>9, <1>10, <1>11, <2>1 DEF CreateStage
<1>15. SubmitStage(req[r])'
  BY <1>1, <1>7, <1>9, <1>10, <1>11, <1>12, <1>13, <1>14 DEF SubmitStage, SubmitPlaces
<1>16. Stage(r)' BY <1>10, <1>11, <1>15 DEF Stage, Submits
<1> QED BY <1>0, <1>4, <1>9, <1>10, <1>11, <1>16, LoneStays

\* WriteLine: the rows are what the line is about to say.
LEMMA LoneWrite ==
  ASSUME TypeInv, LoneInv, NEW r \in Requests, req[r].alone, Submits(r), WriteLine(r)
  PROVE  LoneInv'
<1>0. /\ req[r].pc # "idle" /\ SubmitStage(req[r]) /\ documentStatus # "NONE"
      /\ TypeOK /\ req[r].pc = "writeLine" /\ req[r].next \in Orders \cup {NoOrder}
  BY DEF LoneInv, InFlight, DocumentFirst, Stage, TypeInv, WriteLine, At, Record
<1> DEFINE n == req[r].next
<1>1. /\ Opened(n) /\ req[r].order = NoOrder
      /\ \A o \in DOMAIN steps : steps[o].status = Goal(n, o)
  BY <1>0 DEF SubmitStage
<1>2. Outcome(r) = OutcomeOf(req[r]) BY DEF Outcome, OutcomeOf, Submits
<1>3. /\ lineStatus' = OutcomeOf(req[r])
      /\ currentOrder' = IF OutcomeOf(req[r]) = "IN_REVIEW" THEN n ELSE NoOrder
      /\ Goto(r, "writeDocument")
      /\ UNCHANGED <<documentStatus, steps, requestStatus>>
  BY <1>2 DEF WriteLine, Submits
<1>4. "writeDocument" \in Statements BY DEF Statements
<1>5. /\ req'[r].pc = "writeDocument" /\ req'[r].op = req[r].op /\ req'[r].order = req[r].order
      /\ req'[r].next = n
  BY <1>0, <1>3, <1>4, Moving
<1>6. StepsMatchLine'
  <2>1. CASE n = NoOrder
    <3>1. lineStatus' = "APPROVED" /\ currentOrder' = NoOrder BY <1>3, <2>1 DEF OutcomeOf
    <3>2. \A o \in DOMAIN steps : steps[o].status = "APPROVED" BY <1>1, <2>1 DEF Goal
    <3> QED BY <1>3, <3>1, <3>2 DEF StepsMatchLine
  <2>2. CASE n # NoOrder
    <3>1. lineStatus' = "IN_REVIEW" /\ currentOrder' = n BY <1>3, <2>2 DEF OutcomeOf
    <3>2. n \in Nat /\ DOMAIN steps \subseteq Nat
      BY <1>0, <2>2, OrdersArePositive DEF TypeOK
    <3>3. n \in DOMAIN steps /\ IsActionable(steps[n]) BY <1>1, <2>2 DEF Opened
    <3>4. steps[n].status = "PENDING" BY <1>1, <2>2, <3>2, <3>3 DEF Goal
    <3>5. \A p \in DOMAIN steps : /\ p < n => steps[p].status = "APPROVED"
                                  /\ n < p => steps[p].status = "WAITING"
      BY <1>1, <2>2, <3>2 DEF Goal
    <3> HIDE DEF n
    <3>6. Frontier(n, "PENDING") BY <3>3, <3>4, <3>5 DEF Frontier
    <3>7. Frontier(currentOrder, "PENDING")' BY <1>3, <3>1, <3>6 DEF Frontier, IsActionable
    <3> QED BY <2>2, <3>1, <3>7 DEF StepsMatchLine
  <2> QED BY <2>1, <2>2
<1>7. req[r].op = "create" => CreateStage(req[r])'
  <2>1. req[r].op = "create" => requestStatus = "NONE" /\ n # NoOrder
    BY <1>0 DEF SubmitStage, CreateStage
  <2> QED BY <1>3, <1>5, <2>1 DEF CreateStage
<1>8. SubmitStage(req[r])'
  BY <1>1, <1>3, <1>5, <1>6, <1>7 DEF SubmitStage, SubmitPlaces, OutcomeOf
<1> QED BY <1>0, <1>3, <1>4, <1>8, SubmitGoes

LEMMA LoneDocument ==
  ASSUME TypeInv, LoneInv, NEW r \in Requests, req[r].alone, Submits(r),
         WriteDocument(r) \/ LogSubmission(r)
  PROVE  LoneInv'
<1>0. /\ req[r].pc # "idle" /\ SubmitStage(req[r]) /\ documentStatus # "NONE"
      /\ req[r].pc \in {"writeDocument", "logSubmission"}
  BY DEF LoneInv, InFlight, DocumentFirst, Stage, WriteDocument, LogSubmission, At
<1>1. Outcome(r) = OutcomeOf(req[r]) BY DEF Outcome, OutcomeOf, Submits
<1>2. PICK pc \in {"logSubmission", "findRequest"} : Goto(r, pc)
  <2> DEFINE next == CASE Submits(r) -> "logSubmission"
                       [] req[r].op = "reject" -> "logDecision"
                       [] OTHER -> "findRequest"
  <2>1. Goto(r, next) \/ Goto(r, "findRequest") BY DEF WriteDocument, LogSubmission
  <2>2. next = "logSubmission" BY DEF Submits
  <2> HIDE DEF next
  <2> QED BY <2>1, <2>2
<1>3. pc \in Statements BY <1>2 DEF Statements
<1>4. /\ req'[r].pc = pc /\ req'[r].op = req[r].op /\ req'[r].order = req[r].order
      /\ req'[r].next = req[r].next
  BY <1>0, <1>2, <1>3, Moving
<1>5. UNCHANGED <<lineStatus, currentOrder, steps, requestStatus>>
  BY DEF WriteDocument, LogSubmission
<1>6. lineStatus = OutcomeOf(req[r]) /\ StepsMatchLine' BY <1>0, <1>5, SameLine DEF SubmitStage
<1>7. documentStatus' # "NONE" /\ DocumentFollowsLine'
  <2>1. CASE WriteDocument(r)
    <3>1. documentStatus' = OutcomeOf(req[r]) BY <1>1, <2>1 DEF WriteDocument
    <3> QED BY <1>5, <1>6, <3>1 DEF DocumentFollowsLine, OutcomeOf
  <2>2. CASE LogSubmission(r)
    <3>1. req[r].pc = "logSubmission" /\ documentStatus' = documentStatus
      BY <2>2 DEF LogSubmission, At
    <3>2. DocumentFollowsLine BY <1>0, <3>1 DEF SubmitStage
    <3> QED BY <1>0, <1>5, <3>1, <3>2 DEF DocumentFollowsLine
  <2> QED BY <2>1, <2>2
<1>8. req[r].op = "create" => CreateStage(req[r])'
  <2>1. req[r].op = "create" => requestStatus = "NONE" /\ req[r].next # NoOrder
    BY <1>0 DEF SubmitStage, CreateStage
  <2> QED BY <1>4, <1>5, <2>1 DEF CreateStage
<1>9. SubmitStage(req[r])'
  BY <1>0, <1>4, <1>5, <1>6, <1>7, <1>8 DEF SubmitStage, SubmitPlaces, OutcomeOf
<1> QED BY <1>2, <1>3, <1>7, <1>9, SubmitGoes

\* The last statements: they end in agreement.
Agreement == StepsMatchLine /\ DocumentFollowsLine /\ RequestFollowsLine

LEMMA LoneLast ==
  ASSUME TypeInv, LoneInv, NEW r \in Requests, req[r].alone, Submits(r),
         FindRequest(r) \/ SyncRequest(r) \/ InsertRequest(r)
  PROVE  LoneInv' /\ (End(r) => Agreement')
<1>0. /\ req[r].pc # "idle" /\ SubmitStage(req[r]) /\ documentStatus # "NONE"
  BY DEF LoneInv, InFlight, DocumentFirst, Stage
<1>1. Outcome(r) = OutcomeOf(req[r]) BY DEF Outcome, OutcomeOf, Submits
<1>2. UNCHANGED <<documentStatus, lineStatus, currentOrder, steps>>
  BY DEF FindRequest, SyncRequest, InsertRequest, vars
<1>3. StepsMatchLine' /\ DocumentFollowsLine'
  <2>1. StepsMatchLine /\ DocumentFollowsLine
    BY <1>0 DEF SubmitStage, FindRequest, SyncRequest, InsertRequest, At
  <2>2. StepsMatchLine' BY <1>2, <2>1, SameLine
  <2>3. DocumentFollowsLine' BY <1>2, <2>1 DEF DocumentFollowsLine
  <2> QED BY <2>2, <2>3
<1>4. ASSUME End(r) PROVE LoneInv'
  BY <1>0, <1>2, <1>4, LoneEnds DEF End
<1>5. CASE FindRequest(r)
  <2>1. requestStatus' = requestStatus /\ req[r].pc = "findRequest" BY <1>5 DEF FindRequest, At, vars
  <2>2. lineStatus = OutcomeOf(req[r]) BY <1>0, <2>1 DEF SubmitStage
  <2>3. ASSUME NEW pc \in {"syncRequest", "insertRequest"}, Goto(r, pc),
               pc = "insertRequest" => req[r].op = "create",
               pc = "syncRequest" => req[r].op # "create"
        PROVE  LoneInv'
    <3>1. pc \in Statements BY DEF Statements
    <3>2. /\ req'[r].pc = pc /\ req'[r].op = req[r].op /\ req'[r].order = req[r].order
          /\ req'[r].next = req[r].next
      BY <1>0, <2>3, <3>1, Moving
    <3>3. req[r].op = "create" => CreateStage(req[r])' /\ req[r].next # NoOrder
      <4>1. req[r].op = "create" => requestStatus = "NONE" /\ req[r].next # NoOrder
        BY <1>0, <2>1 DEF SubmitStage, CreateStage
      <4> QED BY <2>1, <2>3, <3>2, <4>1 DEF CreateStage
    <3>4. SubmitStage(req[r])'
      BY <1>0, <1>2, <1>3, <2>2, <2>3, <3>2, <3>3 DEF SubmitStage, SubmitPlaces, OutcomeOf
    <3> QED BY <1>0, <1>2, <2>3, <3>1, <3>4, SubmitGoes
  <2>4. req[r].op = "create" => requestStatus = "NONE" BY <1>0 DEF SubmitStage, CreateStage
  <2>5. CASE Synced(requestStatus, Outcome(r)) # requestStatus
    <3>1. Goto(r, "syncRequest") BY <1>5, <2>5 DEF FindRequest
    <3>2. req[r].op # "create" BY <2>4, <2>5 DEF Synced
    <3>3. ~End(r) BY <1>0, <3>1, Moving, IdleAlone DEF End, TypeInv, Statements
    <3> QED BY <2>3, <3>1, <3>2, <3>3
  <2>6. CASE Synced(requestStatus, Outcome(r)) = requestStatus /\ req[r].op = "create"
    <3>1. Goto(r, "insertRequest") BY <1>5, <2>6 DEF FindRequest
    <3>2. ~End(r) BY <1>0, <3>1, Moving, IdleAlone DEF End, TypeInv, Statements
    <3> QED BY <2>3, <2>6, <3>1, <3>2
  <2>7. CASE Synced(requestStatus, Outcome(r)) = requestStatus /\ req[r].op # "create"
    <3>1. End(r) BY <1>5, <2>7 DEF FindRequest
    <3>2. RequestFollowsLine' BY <1>1, <1>2, <2>1, <2>2, <2>7 DEF RequestFollowsLine
    <3> QED BY <1>3, <1>4, <3>1, <3>2 DEF Agreement
  <2> QED BY <2>5, <2>6, <2>7
<1>6. CASE SyncRequest(r)
  <2>1. /\ requestStatus' = Synced(requestStatus, Outcome(r)) /\ End(r)
        /\ req[r].pc = "syncRequest"
    BY <1>6 DEF SyncRequest, At
  <2>2. lineStatus = OutcomeOf(req[r]) BY <1>0, <2>1 DEF SubmitStage
  <2>3. RequestFollowsLine' BY <1>1, <1>2, <2>1, <2>2 DEF RequestFollowsLine, Synced, OutcomeOf
  <2> QED BY <1>3, <1>4, <2>1, <2>3 DEF Agreement
<1>7. CASE InsertRequest(r)
  <2>1. requestStatus' = "REQUESTED" /\ End(r) /\ req[r].pc = "insertRequest"
    BY <1>7 DEF InsertRequest, At
  <2>2. lineStatus \in {"NONE", "IN_REVIEW"} BY <1>0, <2>1 DEF SubmitStage
  <2>3. RequestFollowsLine' BY <1>2, <2>1, <2>2 DEF RequestFollowsLine, Synced
  <2> QED BY <1>3, <1>4, <2>1, <2>3 DEF Agreement
<1> QED BY <1>5, <1>6, <1>7

(***************************************************************************)
(* A lone cancel, statement by statement.                                  *)
(***************************************************************************)
LEMMA CancelGoes ==
  ASSUME TypeInv, LoneInv, NEW r \in Requests, req[r].alone, req[r].op = "cancel",
         NEW pc \in Statements, Goto(r, pc), documentStatus' # "NONE", CancelStage(req[r])'
  PROVE  LoneInv'
<1>0. req[r].pc # "idle" BY DEF LoneInv, InFlight
<1>1. req'[r].op = req[r].op BY <1>0, Moving
<1>2. Stage(r)' BY <1>1 DEF Stage, Submits
<1> QED BY <1>2, LoneGoes

Closed == /\ lineStatus = "CANCELED" /\ currentOrder = NoOrder
          /\ StepsMatchLine /\ DocumentFollowsLine /\ RequestFollowsLine

LEMMA LoneCancel ==
  ASSUME TypeInv, LoneInv, NEW r \in Requests, req[r].alone, req[r].op = "cancel",
         \/ CancelSteps(r) \/ WriteLine(r) \/ WriteDocument(r)
         \/ FindRequest(r) \/ SyncRequest(r)
  PROVE  LoneInv' /\ (End(r) => Closed')
<1>0. /\ req[r].pc # "idle" /\ CancelStage(req[r]) /\ documentStatus # "NONE" /\ TypeOK
  BY DEF LoneInv, InFlight, DocumentFirst, Stage, TypeInv
<1>1. Outcome(r) = "CANCELED" BY DEF Outcome
<1>2. ASSUME NEW pc \in Statements, Goto(r, pc) PROVE ~End(r)
  <2>1. req'[r].pc = pc BY <1>0, <1>2, Moving
  <2>2. pc # "idle" BY <1>2 DEF Statements
  <2>3. End(r) => req'[r].pc = "idle" BY IdleAlone DEF End, TypeInv
  <2> QED BY <2>1, <2>2, <2>3
<1>3. CASE CancelSteps(r)
  <2>1. steps' = Canceled(steps) /\ documentStatus' = documentStatus /\ Goto(r, "writeLine")
    BY <1>3 DEF CancelSteps
  <2>2. "writeLine" \in Statements BY DEF Statements
  <2>3. \A o \in DOMAIN steps' : steps'[o].status \in {"APPROVED", "REJECTED", "CANCELED"}
    <3>1. ASSUME NEW o \in DOMAIN steps'
          PROVE  steps'[o].status \in {"APPROVED", "REJECTED", "CANCELED"}
      <4>1. o \in DOMAIN steps /\ steps[o] \in Step BY <1>0, <2>1 DEF Canceled, TypeOK
      <4>2. steps'[o] = IF steps[o].status \in {"PENDING", "WAITING"}
                        THEN [steps[o] EXCEPT !.status = "CANCELED"] ELSE steps[o]
        BY <2>1, <4>1 DEF Canceled
      <4> QED BY <4>1, <4>2 DEF Step, StepStatuses
    <3> QED BY <3>1
  <2>4. CancelStage(req[r])' BY <1>0, <2>1, <2>2, <2>3, Moving DEF CancelStage
  <2> QED BY <1>0, <1>2, <2>1, <2>2, <2>4, CancelGoes
<1>4. CASE WriteLine(r)
  <2>1. /\ lineStatus' = "CANCELED" /\ currentOrder' = NoOrder
        /\ steps' = steps /\ documentStatus' = documentStatus
    BY <1>1, <1>4 DEF WriteLine
  <2>2. Goto(r, "writeDocument") /\ req[r].pc = "writeLine" BY <1>4 DEF WriteLine, At
  <2>3. "writeDocument" \in Statements BY DEF Statements
  <2>4. CancelStage(req[r])' BY <1>0, <2>1, <2>2, <2>3, Moving DEF CancelStage
  <2> QED BY <1>0, <1>2, <2>1, <2>2, <2>3, <2>4, CancelGoes
<1>5. CASE WriteDocument(r)
  <2>1. /\ documentStatus' = "CANCELED" /\ req[r].pc = "writeDocument"
        /\ UNCHANGED <<lineStatus, currentOrder, steps>>
    BY <1>1, <1>5 DEF WriteDocument, At
  <2>2. Goto(r, "findRequest")
    <3> DEFINE next == CASE Submits(r) -> "logSubmission"
                         [] req[r].op = "reject" -> "logDecision"
                         [] OTHER -> "findRequest"
    <3>1. Goto(r, next) BY <1>5 DEF WriteDocument
    <3>2. next = "findRequest" BY DEF Submits
    <3> HIDE DEF next
    <3> QED BY <3>1, <3>2
  <2>3. "findRequest" \in Statements BY DEF Statements
  <2>4. CancelStage(req[r])' BY <1>0, <2>1, <2>2, <2>3, Moving DEF CancelStage
  <2> QED BY <1>2, <2>1, <2>2, <2>3, <2>4, CancelGoes
<1>6. CASE FindRequest(r) \/ SyncRequest(r)
  <2>1. /\ UNCHANGED <<documentStatus, lineStatus, currentOrder, steps>>
        /\ req[r].pc \in {"findRequest", "syncRequest"}
    BY <1>6 DEF FindRequest, SyncRequest, At, vars
  <2>2. /\ lineStatus = "CANCELED" /\ currentOrder = NoOrder
        /\ documentStatus \in {"CANCELED", "DRAFT"}
        /\ \A o \in DOMAIN steps : steps[o].status \in {"APPROVED", "REJECTED", "CANCELED"}
    BY <1>0, <2>1 DEF CancelStage
  <2>3. CASE Goto(r, "syncRequest")
    <3>1. "syncRequest" \in Statements BY DEF Statements
    <3>2. CancelStage(req[r])' BY <1>0, <2>1, <2>2, <2>3, <3>1, Moving DEF CancelStage
    <3> QED BY <1>0, <1>2, <2>1, <2>3, <3>1, <3>2, CancelGoes
  <2>4. CASE End(r) /\ requestStatus' = Synced(requestStatus, Outcome(r))
    <3>1. LoneInv' BY <1>0, <2>1, <2>4, LoneEnds DEF End
    <3>2. StepsMatchLine' BY <2>1, <2>2 DEF StepsMatchLine
    <3>3. DocumentFollowsLine' /\ RequestFollowsLine'
      BY <1>1, <2>1, <2>2, <2>4 DEF DocumentFollowsLine, RequestFollowsLine, Synced
    <3> QED BY <2>1, <2>2, <3>1, <3>2, <3>3 DEF Closed
  <2>5. \/ Goto(r, "syncRequest")
        \/ End(r) /\ requestStatus' = Synced(requestStatus, Outcome(r))
    BY <1>6 DEF FindRequest, SyncRequest, vars
  <2> QED BY <2>3, <2>4, <2>5
<1> QED BY <1>3, <1>4, <1>5, <1>6

(***************************************************************************)
(* Every step keeps LoneInv.                                               *)
(***************************************************************************)
\* What a statement of request r does to the slots and the document, whatever it is.
LEMMA Continuing ==
  ASSUME TypeInv, NEW r \in Requests, Continue(r)
  PROVE  /\ req[r].pc # "idle"
         /\ req'[r] = Idle \/ (req'[r].pc # "idle" /\ req'[r].op = req[r].op)
         /\ req'[r].alone => req[r].alone
         /\ \A q \in Requests \ {r} : /\ req'[q].pc = req[q].pc /\ (req'[q].alone => req[q].alone)
                                      /\ req[q].pc = "idle" => req'[q] = req[q]
         /\ documentStatus # "NONE" => documentStatus' # "NONE"
<1>0. req \in [Requests -> Record] /\ req[r] \in Record BY DEF TypeInv
<1>1. req[r].pc # "idle"
  BY DEF Continue, FindLine, CreateLine, DeleteActions, DeleteSteps, ResetLine, CreateSteps,
         ReadLine, ResetSteps, CancelSteps, DecideStep, LogDecision, ReadSteps, Forward,
         WriteLine, WriteDocument, LogSubmission, FindRequest, SyncRequest, InsertRequest, At
<1>2. documentStatus # "NONE" => documentStatus' # "NONE"
  <2>1. CASE WriteDocument(r) BY <2>1, OutcomeTyped DEF WriteDocument
  <2> QED BY <2>1 DEF Continue, FindLine, CreateLine, DeleteActions, DeleteSteps, ResetLine,
            CreateSteps, ReadLine, ResetSteps, CancelSteps, DecideStep, LogDecision, ReadSteps,
            Forward, WriteLine, LogSubmission, FindRequest, SyncRequest, InsertRequest, vars
<1>3. ASSUME End(r)
      PROVE  req'[r] = Idle /\ ~req'[r].alone /\ \A q \in Requests \ {r} : req'[q] = req[q]
  BY <1>0, <1>3, IdleAlone DEF End
<1>4. ASSUME NEW pc \in Statements, Goto(r, pc)
      PROVE  /\ req'[r].pc # "idle" /\ req'[r].op = req[r].op /\ req'[r].alone = req[r].alone
             /\ \A q \in Requests \ {r} : req'[q] = req[q]
  BY <1>1, <1>4, Moving DEF Statements
<1>5. ASSUME End(r) \/ \E pc \in Statements : Goto(r, pc)
      PROVE  /\ req'[r] = Idle \/ (req'[r].pc # "idle" /\ req'[r].op = req[r].op)
             /\ req'[r].alone => req[r].alone
             /\ \A q \in Requests \ {r} : req'[q] = req[q]
  BY <1>3, <1>4, <1>5
<1>6. CASE DeleteSteps(r)
  <2>1. req'[r] = [req[r] EXCEPT !.pc = "resetLine"] BY <1>6 DEF DeleteSteps
  <2>2. req'[r].pc = "resetLine" /\ req'[r].op = req[r].op /\ req'[r].alone = req[r].alone
    BY <1>0, <2>1 DEF Record
  <2>3. ASSUME NEW q \in Requests \ {r}
        PROVE  /\ req'[q].pc = req[q].pc /\ req'[q].alone = req[q].alone
               /\ req[q].pc = "idle" => req'[q] = req[q]
    <3>1. req[q] \in Record BY <1>0
    <3>2. req'[q] = IF req[q].pc = "idle" THEN req[q] ELSE [req[q] EXCEPT !.stale = TRUE]
      BY <1>6 DEF DeleteSteps
    <3> QED BY <3>1, <3>2 DEF Record
  <2> QED BY <1>1, <1>2, <2>2, <2>3
<1>7. CASE ReadSteps(r)
  <2>1. PICK n \in Orders \cup {NoOrder} :
          LET rows == Forwarded(steps, req[r].order, n)
              changed == {o \in DOMAIN steps : rows[o] # steps[o]}
          IN  req' = [req EXCEPT ![r].next = n,
                                 ![r].plan = [o \in changed |-> rows[o].status],
                                 ![r].stale = FALSE,
                                 ![r].pc = IF changed = {} THEN "writeLine" ELSE "forward"]
    BY <1>7 DEF ReadSteps
  <2> DEFINE rows == Forwarded(steps, req[r].order, n)
             changed == {o \in DOMAIN steps : rows[o] # steps[o]}
             plan == [o \in changed |-> rows[o].status]
             pc == IF changed = {} THEN "writeLine" ELSE "forward"
             new == [req[r] EXCEPT !.next = n, !.plan = plan, !.stale = FALSE, !.pc = pc]
  <2>2. req' = [req EXCEPT ![r] = new] BY <1>0, <2>1
  <2>3. pc # "idle" OBVIOUS
  <2> HIDE DEF plan, pc
  <2>4. new.pc = pc /\ new.op = req[r].op /\ new.alone = req[r].alone BY <1>0 DEF Record
  <2> HIDE DEF new
  <2>5. req'[r] = new /\ \A q \in Requests \ {r} : req'[q] = req[q] BY <1>0, <2>2
  <2> QED BY <1>1, <1>2, <2>3, <2>4, <2>5
<1>8. CASE Forward(r)
  <2>1. CASE End(r) BY <1>1, <1>2, <1>5, <2>1
  <2>2. CASE ~End(r)
    <3>1. PICK o \in DOMAIN req[r].plan :
            LET rest == DOMAIN req[r].plan \ {o}
            IN  req' = [req EXCEPT ![r].plan = [p \in rest |-> req[r].plan[p]],
                                   ![r].pc = IF rest = {} THEN "writeLine" ELSE "forward"]
      BY <1>8, <2>2 DEF Forward
    <3> DEFINE rest == DOMAIN req[r].plan \ {o}
               plan == [p \in rest |-> req[r].plan[p]]
               pc == IF rest = {} THEN "writeLine" ELSE "forward"
               new == [req[r] EXCEPT !.plan = plan, !.pc = pc]
    <3>2. req' = [req EXCEPT ![r] = new] BY <1>0, <3>1
    <3>3. pc # "idle" OBVIOUS
    <3> HIDE DEF plan, pc
    <3>4. new.pc = pc /\ new.op = req[r].op /\ new.alone = req[r].alone BY <1>0 DEF Record
    <3> HIDE DEF new
    <3>5. req'[r] = new /\ \A q \in Requests \ {r} : req'[q] = req[q] BY <1>0, <3>2
    <3> QED BY <1>1, <1>2, <3>3, <3>4, <3>5
  <2> QED BY <2>1, <2>2
<1>9. ASSUME ~DeleteSteps(r), ~ReadSteps(r), ~Forward(r)
      PROVE  End(r) \/ \E pc \in Statements : Goto(r, pc)
  <2> USE DEF Statements
  <2>1. CASE WriteDocument(r)
    <3> DEFINE next == CASE Submits(r) -> "logSubmission"
                         [] req[r].op = "reject" -> "logDecision"
                         [] OTHER -> "findRequest"
    <3>1. Goto(r, next) BY <2>1 DEF WriteDocument
    <3>2. next \in Statements OBVIOUS
    <3> HIDE DEF next
    <3> QED BY <3>1, <3>2
  <2>2. CASE FindLine(r)
    BY <2>2 DEF FindLine
  <2>3. CASE CreateLine(r) \/ DeleteActions(r) \/ ResetLine(r) \/ CreateSteps(r) \/ ReadLine(r)
    BY <2>3 DEF CreateLine, DeleteActions, ResetLine, CreateSteps, ReadLine
  <2>4. CASE ResetSteps(r) \/ CancelSteps(r) \/ LogSubmission(r) \/ FindRequest(r)
             \/ SyncRequest(r) \/ InsertRequest(r)
    BY <2>4 DEF ResetSteps, CancelSteps, LogSubmission, FindRequest, SyncRequest, InsertRequest
  <2>5. CASE DecideStep(r) \/ LogDecision(r)
    BY <2>5 DEF DecideStep, LogDecision
  <2>6. CASE WriteLine(r)
    BY <2>6 DEF WriteLine
  <2> QED BY <1>9, <2>1, <2>2, <2>3, <2>4, <2>5, <2>6 DEF Continue
<1>10. CASE ~DeleteSteps(r) /\ ~ReadSteps(r) /\ ~Forward(r)
  BY <1>1, <1>2, <1>5, <1>9, <1>10
<1> QED BY <1>6, <1>7, <1>8, <1>10

LEMMA LoneContinue ==
  ASSUME TypeInv, LoneInv, NEW r \in Requests, Continue(r)
  PROVE  LoneInv'
<1>0. /\ req[r].pc # "idle" /\ r \in InFlight /\ documentStatus # "NONE"
      /\ documentStatus' # "NONE"
  BY Continuing DEF InFlight, LoneInv, DocumentFirst
<1>1. \A q \in Requests \ {r} : ~req[q].alone /\ ~req'[q].alone
  BY <1>0, Continuing DEF LoneInv
<1>2. CASE ~req'[r].alone
  BY <1>0, <1>1, <1>2, NobodyAlone
<1>3. CASE req'[r].alone
  <2>1. req[r].alone /\ req'[r].pc # "idle" /\ req'[r].op = req[r].op
    BY <1>3, Continuing, IdleAlone
  <2>2. Stage(r) BY <2>1 DEF LoneInv
  <2>3. CASE Submits(r)
    <3>1. req[r].pc \in SubmitPlaces BY <2>2, <2>3 DEF Stage, SubmitStage
    <3>2. ~(DeleteActions(r) \/ DeleteSteps(r) \/ ResetLine(r) \/ CancelSteps(r)
            \/ DecideStep(r) \/ LogDecision(r))
      BY <3>1 DEF SubmitPlaces, DeleteActions, DeleteSteps, ResetLine, CancelSteps,
                  DecideStep, LogDecision, At
    <3> QED BY <2>1, <2>3, <3>2, LoneCreate, LoneReset, LoneRead, LoneForward, LoneWrite,
               LoneDocument, LoneLast DEF Continue
  <2>4. CASE req[r].op = "cancel"
    <3>1. req[r].pc \in {"cancelSteps", "writeLine", "writeDocument", "findRequest", "syncRequest"}
      BY <2>2, <2>4 DEF Stage, CancelStage
    <3>2. \/ CancelSteps(r) \/ WriteLine(r) \/ WriteDocument(r)
          \/ FindRequest(r) \/ SyncRequest(r)
      BY <3>1 DEF Continue, FindLine, CreateLine, DeleteActions, DeleteSteps, ResetLine,
                  CreateSteps, ReadLine, ResetSteps, DecideStep, LogDecision, ReadSteps,
                  Forward, LogSubmission, InsertRequest, At
    <3> QED BY <2>1, <2>4, <3>2, LoneCancel
  <2>5. CASE ~Submits(r) /\ req[r].op # "cancel"
    <3>1. Stage(r)' BY <2>1, <2>5 DEF Stage, Submits
    <3>2. InFlight = {r} BY <2>1 DEF LoneInv
    <3>3. \A q \in Requests \ {r} : req'[q] = req[q]
      BY <3>2, Continuing DEF InFlight
    <3>4. InFlight' = {r} BY <2>1, <3>2, <3>3 DEF InFlight
    <3> QED BY <1>0, <1>1, <3>1, <3>4 DEF LoneInv, DocumentFirst
  <2> QED BY <2>3, <2>4, <2>5
<1> QED BY <1>2, <1>3

LEMMA LoneBegins ==
  ASSUME TypeInv, LoneInv, NEW r \in Requests, NEW request, Begin(r, request),
         request.pc # "idle", request.alone => InFlight = {} /\ Stage(r)',
         documentStatus' # "NONE"
  PROVE  LoneInv'
<1>1. /\ req[r].pc = "idle"
      /\ req' = [q \in Requests |-> IF q = r THEN request ELSE [req[q] EXCEPT !.alone = FALSE]]
  BY DEF Begin
<1>2. req'[r] = request BY <1>1
<1>3. ASSUME NEW q \in Requests \ {r} PROVE ~req'[q].alone /\ req'[q].pc = req[q].pc
  <2>1. req[q] \in Record BY DEF TypeInv
  <2>2. req'[q] = [req[q] EXCEPT !.alone = FALSE] BY <1>1
  <2> QED BY <2>1, <2>2 DEF Record
<1>4. InFlight = {} => InFlight' = {r} BY <1>2, <1>3 DEF InFlight
<1> QED BY <1>2, <1>3, <1>4 DEF LoneInv, DocumentFirst

LEMMA Requested ==
  ASSUME NEW name, NEW u, NEW pc
  PROVE  /\ Request(name, u, pc).pc = pc /\ Request(name, u, pc).op = name
         /\ Request(name, u, pc).order = NoOrder
         /\ Request(name, u, pc).alone => InFlight = {}
BY DEF Request, Idle

LEMMA LoneArrive ==
  ASSUME TypeInv, LoneInv, NEW r \in Requests, NEW u \in Users, Arrive(r, u)
  PROVE  LoneInv'
<1>1. CASE BeginCreateDocument(r, u)
  <2>1. /\ documentStatus = "NONE" /\ documentStatus' = "DRAFT" /\ req' = req
    BY <1>1 DEF BeginCreateDocument, CreateDocument
  <2>2. InFlight = {} BY <2>1 DEF LoneInv, DocumentFirst
  <2>3. \A q \in Requests : ~req[q].alone BY <2>2 DEF LoneInv
  <2> QED BY <2>1, <2>3, NobodyAlone
<1>2. CASE BeginAddVersion(r, u)
  <2>1. /\ documentStatus' = "DRAFT" /\ req' = req
        /\ UNCHANGED <<lineStatus, currentOrder, steps, requestStatus>>
    BY <1>2 DEF BeginAddVersion, AddVersion
  <2>2. StepsMatchLine' <=> StepsMatchLine BY <2>1, SameLine
  <2>3. DocumentFollowsLine' BY <2>1 DEF DocumentFollowsLine
  <2>4. InFlight' = InFlight BY <2>1 DEF InFlight
  <2>5. ASSUME NEW q \in Requests, Submits(q), SubmitStage(req[q])
        PROVE  SubmitStage(req[q])'
    <3>1. CreateStage(req[q]) => CreateStage(req[q])'
      BY <2>1 DEF CreateStage, IsActionable
    <3>2. Opened(req[q].next)' <=> Opened(req[q].next) BY <2>1 DEF Opened, IsActionable
    <3>3. OutcomeOf(req[q])' = OutcomeOf(req[q]) BY <2>1 DEF OutcomeOf
    <3> QED BY <2>1, <2>2, <2>3, <2>5, <3>1, <3>2, <3>3 DEF SubmitStage
  <2>6. ASSUME NEW q \in Requests, CancelStage(req[q]) PROVE CancelStage(req[q])'
    BY <2>1, <2>6 DEF CancelStage
  <2>7. ASSUME NEW q \in Requests, Stage(q) PROVE Stage(q)'
    BY <2>1, <2>5, <2>6, <2>7 DEF Stage, Submits
  <2> QED BY <2>1, <2>4, <2>7 DEF LoneInv, DocumentFirst
<1>3. ASSUME NEW approvers \in ApproverLists, BeginCreate(r, u, approvers) PROVE LoneInv'
  <2> DEFINE pc == IF DOMAIN approvers = {} THEN "insertRequest" ELSE "findLine"
             routing == [o \in DOMAIN approvers |-> [type |-> "APPROVE", approver |-> approvers[o]]]
             new == [Request("create", u, pc) EXCEPT !.routing = routing]
  <2>1. /\ documentStatus = "NONE" /\ documentStatus' = "DRAFT" /\ Begin(r, new)
        /\ UNCHANGED <<lineStatus, currentOrder, steps, requestStatus>>
    BY <1>3 DEF BeginCreate
  <2>2. /\ lineStatus = "NONE" /\ currentOrder = NoOrder /\ DOMAIN steps = {}
        /\ requestStatus = "NONE" /\ InFlight = {}
    BY <2>1 DEF LoneInv, DocumentFirst
  <2>3. /\ pc \in {"insertRequest", "findLine"}
        /\ pc = "findLine" => DOMAIN routing # {}
        /\ \A o \in DOMAIN routing : routing[o].type = "APPROVE"
    OBVIOUS
  <2> HIDE DEF pc, routing
  <2>4. /\ new.pc = pc /\ new.op = "create" /\ new.order = NoOrder /\ new.routing = routing
    BY DEF Request, Idle
  <2> HIDE DEF new
  <2>5. req'[r] = new BY <2>1 DEF Begin
  <2>6. StepsMatchLine' /\ DocumentFollowsLine'
    BY <2>1, <2>2 DEF StepsMatchLine, DocumentFollowsLine
  <2>7. CreateStage(req[r])' BY <2>1, <2>2, <2>3, <2>4, <2>5 DEF CreateStage
  <2>8. SubmitStage(req[r])'
    BY <2>1, <2>2, <2>3, <2>4, <2>5, <2>6, <2>7 DEF SubmitStage, SubmitPlaces
  <2>9. Stage(r)' BY <2>4, <2>5, <2>8 DEF Stage
  <2> QED BY <2>1, <2>2, <2>3, <2>4, <2>9, LoneBegins
<1>4. ASSUME NEW request, Begin(r, request), UNCHANGED vars, request.pc # "idle",
             lineStatus # "NONE" \/ documentStatus # "NONE",
             request.alone => InFlight = {},
             request.op \notin {"create", "submit", "resubmit", "cancel"}
               \/ (request.op \in {"submit", "resubmit"} /\ request.pc = "resetSteps"
                   /\ request.order = NoOrder)
               \/ (request.op = "cancel" /\ request.pc = "cancelSteps")
      PROVE  LoneInv'
  <2>1. req'[r] = request BY <1>4 DEF Begin
  <2>2. documentStatus' # "NONE" BY <1>4 DEF LoneInv, DocumentFirst, vars
  <2>3. request.op \in {"submit", "resubmit"} => SubmitStage(req[r])'
    BY <1>4, <2>1 DEF SubmitStage, SubmitPlaces
  <2>4. request.op = "cancel" => CancelStage(req[r])'
    BY <1>4, <2>1 DEF CancelStage
  <2>5. Stage(r)' BY <1>4, <2>1, <2>3, <2>4 DEF Stage, Submits
  <2> QED BY <1>4, <2>2, <2>5, LoneBegins
<1>5. ASSUME NEW routing \in RequestRoutings, BeginConfigure(r, u, routing) PROVE LoneInv'
  <2> DEFINE pc == IF lineStatus = "NONE" THEN "createLine" ELSE "deleteActions"
             new == [Request("configure", u, pc) EXCEPT !.routing = routing]
  <2>1. documentStatus # "NONE" /\ Begin(r, new) /\ UNCHANGED vars
    BY <1>5 DEF BeginConfigure
  <2>2. pc # "idle" OBVIOUS
  <2> HIDE DEF pc
  <2>3. new.pc = pc /\ new.op = "configure" /\ (new.alone => InFlight = {})
    BY DEF Request, Idle
  <2> HIDE DEF new
  <2> QED BY <1>4, <2>1, <2>2, <2>3
<1>6. ASSUME NEW name \in {"submit", "resubmit"}, Begin(r, Request(name, u, "resetSteps")),
             UNCHANGED vars, lineStatus # "NONE"
      PROVE  LoneInv'
  <2> DEFINE new == Request(name, u, "resetSteps")
  <2>1. new.pc = "resetSteps" /\ new.op = name /\ new.order = NoOrder /\ (new.alone => InFlight = {})
    BY Requested
  <2>2. Begin(r, new) BY <1>6
  <2> HIDE DEF new
  <2> QED BY <1>4, <1>6, <2>1, <2>2
<1>7. ASSUME NEW name \in {"approve", "reject"}, BeginDecision(r, u, name) PROVE LoneInv'
  <2> DEFINE new == [Request(name, u, "decideStep") EXCEPT !.order = currentOrder]
  <2>1. Begin(r, new) /\ UNCHANGED vars /\ lineStatus # "NONE"
    BY <1>7 DEF BeginDecision, MayDecide
  <2>2. new.pc = "decideStep" /\ new.op = name /\ (new.alone => InFlight = {})
    BY DEF Request, Idle
  <2> HIDE DEF new
  <2> QED BY <1>4, <2>1, <2>2
<1>8. CASE BeginCancel(r, u)
  <2> DEFINE new == Request("cancel", u, "cancelSteps")
  <2>1. Begin(r, new) /\ UNCHANGED vars /\ lineStatus # "NONE"
    BY <1>8 DEF BeginCancel, MayCancel
  <2>2. new.pc = "cancelSteps" /\ new.op = "cancel" /\ (new.alone => InFlight = {})
    BY Requested
  <2> HIDE DEF new
  <2> QED BY <1>4, <2>1, <2>2
<1>9. CASE BeginSubmit(r, u)
  <2>1. Begin(r, Request("submit", u, "resetSteps")) /\ UNCHANGED vars /\ lineStatus # "NONE"
    BY <1>9 DEF BeginSubmit
  <2> QED BY <1>6, <2>1
<1>10. CASE BeginResubmit(r, u)
  <2>1. Begin(r, Request("resubmit", u, "resetSteps")) /\ UNCHANGED vars /\ lineStatus # "NONE"
    BY <1>10 DEF BeginResubmit
  <2> QED BY <1>6, <2>1
<1> QED BY <1>1, <1>2, <1>3, <1>5, <1>7, <1>8, <1>9, <1>10 DEF Arrive

LEMMA LoneNext == Inv /\ [RequestsNext]_reqVars => Inv'
<1> SUFFICES ASSUME Inv, [RequestsNext]_reqVars PROVE Inv'
  OBVIOUS
<1>1. TypeInv' /\ HoldingInv' BY TypesNext DEF Inv
<1>2. CASE UNCHANGED reqVars
  <2>1. UNCHANGED vars /\ req' = req BY <1>2 DEF reqVars
  <2>2. LoneInv'
    BY <2>1 DEF Inv, LoneInv, DocumentFirst, InFlight, Stage, Submits, SubmitStage, CreateStage,
                CancelStage, Opened, OutcomeOf, StepsMatchLine, Frontier, DocumentFollowsLine,
                IsActionable, vars
  <2> QED BY <1>1, <2>2 DEF Inv
<1>3. ASSUME NEW r \in Requests, NEW u \in Users, Arrive(r, u) PROVE LoneInv'
  BY <1>3, LoneArrive DEF Inv
<1>4. ASSUME NEW r \in Requests, Continue(r) PROVE LoneInv'
  BY <1>4, LoneContinue DEF Inv
<1>5. ASSUME NEW r \in Requests, Crash(r) PROVE LoneInv'
  <2>1. req[r].pc # "idle" /\ req' = [req EXCEPT ![r] = Idle] /\ documentStatus' = documentStatus
    BY <1>5 DEF Crash, vars
  <2>2. documentStatus # "NONE" BY <2>1 DEF Inv, LoneInv, DocumentFirst, InFlight
  <2> QED BY <2>1, <2>2, LoneEnds DEF Inv
<1> QED BY <1>1, <1>2, <1>3, <1>4, <1>5 DEF Inv, RequestsNext

LEMMA LoneInit == RequestsInit \/ SubmittedInit => Inv
<1> SUFFICES ASSUME RequestsInit \/ SubmittedInit PROVE Inv
  OBVIOUS
<1>1. TypeInv /\ HoldingInv BY TypesInit
<1>2. req = [r \in Requests |-> Idle] BY DEF RequestsInit, SubmittedInit
<1>3. InFlight = {} /\ \A r \in Requests : ~req[r].alone
  BY <1>2, IdleAlone DEF InFlight
<1>4. DocumentFirst
  BY <1>3 DEF DocumentFirst, RequestsInit, SubmittedInit, Init, NoSteps
<1> QED BY <1>1, <1>3, <1>4 DEF Inv, LoneInv

LEMMA LoneAlways == RequestsSpec \/ SubmittedSpec => []Inv
BY LoneInit, LoneNext, PTL DEF RequestsSpec, SubmittedSpec

(***************************************************************************)
(* The repairs.                                                            *)
(***************************************************************************)
\* The step that completes request r is its last statement.
LEMMA Completion ==
  ASSUME Inv, RequestsNext, NEW r \in Requests, Completes(r)
  PROVE  (FindRequest(r) \/ SyncRequest(r) \/ InsertRequest(r)) /\ End(r)
<1>0. TypeInv BY DEF Inv
<1>1. /\ req[r].pc # "idle" /\ req'[r].pc = "idle" /\ crashes' = crashes
      /\ req[r].pc \in {"findRequest", "syncRequest", "insertRequest"}
  BY DEF Completes
<1>2. PICK q \in Requests : (\E u \in Users : Arrive(q, u)) \/ Continue(q) \/ Crash(q)
  BY DEF RequestsNext
<1>3. ~Crash(q)
  <2>1. crashes \in Nat BY <1>0, RequestsAssumption DEF TypeInv
  <2> QED BY <1>1, <2>1 DEF Crash
<1>4. ASSUME NEW u \in Users, Arrive(q, u) PROVE FALSE
  <2>1. ASSUME NEW request, Begin(q, request) PROVE FALSE
    <3>1. req[q].pc = "idle" /\ req'[r] = IF r = q THEN request ELSE [req[r] EXCEPT !.alone = FALSE]
      BY <2>1 DEF Begin
    <3>2. r # q BY <1>1, <3>1
    <3>3. req[r] \in Record BY <1>0 DEF TypeInv
    <3>4. req'[r].pc = req[r].pc BY <3>1, <3>2, <3>3 DEF Record
    <3> QED BY <1>1, <3>4
  <2>2. ASSUME req' = req PROVE FALSE BY <1>1, <2>2
  <2> QED BY <1>4, <2>1, <2>2 DEF Arrive, BeginCreateDocument, BeginAddVersion, BeginCreate,
          BeginConfigure, BeginSubmit, BeginResubmit, BeginDecision, BeginCancel
<1>5. Continue(q) BY <1>2, <1>3, <1>4
<1>6. q = r BY <1>0, <1>1, <1>5, Continuing
<1>7. FindRequest(r) \/ SyncRequest(r) \/ InsertRequest(r)
  BY <1>1, <1>5, <1>6
  DEF Continue, FindLine, CreateLine, DeleteActions, DeleteSteps, ResetLine, CreateSteps,
      ReadLine, ResetSteps, CancelSteps, DecideStep, LogDecision, ReadSteps, Forward,
      WriteLine, WriteDocument, LogSubmission, At
<1>8. ASSUME NEW pc \in Statements, Goto(r, pc) PROVE FALSE
  <2>1. req'[r].pc = pc BY <1>0, <1>1, <1>8, Moving
  <2> QED BY <1>1, <2>1 DEF Statements
<1>9. End(r)
  BY <1>7, <1>8 DEF FindRequest, SyncRequest, InsertRequest, Statements
<1> QED BY <1>7, <1>9

\* Whatever overlapping requests and crashes have left, a submit, resubmit or create
\* that nothing overlaps leaves line, steps, document and linked request in agreement.
THEOREM LoneSubmitsRepair == RequestsSpec \/ SubmittedSpec => LoneSubmitRepairs
<1>1. ASSUME Inv, RequestsNext, NEW r \in Requests,
             Completes(r) /\ req[r].alone /\ Submits(r)
      PROVE  (StepsMatchLine /\ DocumentFollowsLine /\ RequestFollowsLine)'
  <2>1. (FindRequest(r) \/ SyncRequest(r) \/ InsertRequest(r)) /\ End(r)
    BY <1>1, Completion
  <2>2. Agreement' BY <1>1, <2>1, LoneLast DEF Inv
  <2> QED BY <2>2 DEF Agreement
<1> DEFINE Repairs == \A r \in Requests :
        Completes(r) /\ req[r].alone /\ Submits(r)
          => (StepsMatchLine /\ DocumentFollowsLine /\ RequestFollowsLine)'
<1>2. Inv /\ [RequestsNext]_reqVars => [Repairs]_reqVars
  BY <1>1
<1> QED BY <1>2, LoneAlways, PTL DEF RequestsSpec, SubmittedSpec, LoneSubmitRepairs

\* A cancel that nothing overlaps closes the line and leaves the tables in agreement,
\* so that no state overlapping requests leave is one the submitter cannot get out of.
THEOREM LoneCancelsClose == RequestsSpec \/ SubmittedSpec => LoneCancelCloses
<1>1. ASSUME Inv, RequestsNext, NEW r \in Requests,
             Completes(r) /\ req[r].alone /\ req[r].op = "cancel"
      PROVE  (/\ lineStatus = "CANCELED" /\ currentOrder = NoOrder
              /\ StepsMatchLine /\ DocumentFollowsLine /\ RequestFollowsLine)'
  <2>1. (FindRequest(r) \/ SyncRequest(r) \/ InsertRequest(r)) /\ End(r)
    BY <1>1, Completion
  <2>2. ~InsertRequest(r)
    <3>1. CancelStage(req[r]) BY <1>1 DEF Inv, LoneInv, Stage
    <3> QED BY <3>1 DEF CancelStage, InsertRequest, At
  <2>3. Closed' BY <1>1, <2>1, <2>2, LoneCancel DEF Inv
  <2> QED BY <2>3 DEF Closed
<1> DEFINE Closes == \A r \in Requests :
        Completes(r) /\ req[r].alone /\ req[r].op = "cancel"
          => (/\ lineStatus = "CANCELED" /\ currentOrder = NoOrder
              /\ StepsMatchLine /\ DocumentFollowsLine /\ RequestFollowsLine)'
<1>2. Inv /\ [RequestsNext]_reqVars => [Closes]_reqVars
  BY <1>1
<1> QED BY <1>2, LoneAlways, PTL DEF RequestsSpec, SubmittedSpec, LoneCancelCloses

(***************************************************************************)
(* While a line is in review and its approvers decide, each with one       *)
(* request at a time and none cut short, the overlapping requests hand the *)
(* line on from one to the next and the tables agree whenever nothing is   *)
(* in flight.                                                              *)
(***************************************************************************)
\* Approvers only decide, one request at a time, and the process keeps running.  That an
\* employee is one user is the schema's (Employee has one userId).
InTurn ==
  /\ Ops \subseteq {"approve", "reject"}
  /\ OnePerUser /\ MaxCrashes = 0
  /\ \A u, v \in Users : EmployeeOf[u] = EmployeeOf[v] /\ EmployeeOf[u] # NoEmployee => u = v

(***************************************************************************)
(* The turn.  A request has it from its read of the line to its write of   *)
(* the line.                                                               *)
(***************************************************************************)
\* The rows of a review that has come to step n, or to its end.
Standing(n) == Opened(n) /\ \A o \in DOMAIN steps : steps[o].status = Goal(n, o)

OnRecord(n) ==
  \A o \in DOMAIN steps :
    (n = NoOrder \/ o < n) /\ IsActionable(steps[o]) => ApprovedByItsApprover(o)

Decider(q) ==
  /\ q.op \in {"approve", "reject"} /\ ~q.stale
  /\ q.pc \in {"decideStep", "logDecision", "readSteps", "forward", "writeLine",
               "writeDocument", "findRequest", "syncRequest"}
  /\ q.pc \in {"readSteps", "forward"} => q.op = "approve"

Deciding(q) == \/ q.pc \in {"decideStep", "readSteps", "forward", "writeLine"}
               \/ q.pc = "logDecision" /\ q.op = "approve"

Turn(q) ==
  /\ lineStatus = "IN_REVIEW" /\ q.order = currentOrder
  /\ q.order \in DOMAIN steps /\ steps[q.order].approver = EmployeeOf[q.user]
  /\ q.pc = "decideStep" => Standing(q.order)
  /\ q.pc \in {"logDecision", "readSteps"} => Frontier(q.order, "APPROVED")
  /\ q.pc = "readSteps" => ApprovedByItsApprover(q.order)
  /\ q.pc = "forward" =>
       /\ Opened(q.next) /\ OnRecord(q.next) /\ DOMAIN q.plan \subseteq DOMAIN steps
       /\ \A o \in DOMAIN steps : IF o \in DOMAIN q.plan THEN q.plan[o] = Goal(q.next, o)
                                                         ELSE steps[o].status = Goal(q.next, o)
  /\ q.pc = "writeLine" /\ q.op = "approve" => Standing(q.next) /\ OnRecord(q.next)
  /\ q.pc = "writeLine" /\ q.op = "reject" => Frontier(q.order, "REJECTED")

LineInv ==
  /\ lineStatus \in {"IN_REVIEW", "APPROVED", "REJECTED"}
  /\ lineStatus = "IN_REVIEW" <=> currentOrder # NoOrder
  /\ lineStatus # "REJECTED" => OnRecord(currentOrder)
  /\ lineStatus = "REJECTED" => \E o \in DOMAIN steps : Frontier(o, "REJECTED")
  /\ lineStatus # "REJECTED" /\ (\A r \in Requests : ~Deciding(req[r])) => Standing(currentOrder)

DocumentInv ==
  /\ lineStatus = "IN_REVIEW" => documentStatus = "IN_REVIEW"
  /\ documentStatus = lineStatus \/ \E r \in Requests : At(r, "writeDocument")
  /\ \A r \in Requests :
       At(r, "writeDocument") => lineStatus = Outcome(r) /\ lineStatus # "IN_REVIEW"

TurnInv ==
  /\ \A r \in Requests : req[r].pc # "idle" => Decider(req[r])
  /\ \A q, r \in Requests :
       q # r /\ req[q].pc # "idle" /\ req[r].pc # "idle" => req[q].user # req[r].user
  /\ \A r \in Requests : Deciding(req[r]) => Turn(req[r])
  /\ LineInv
  /\ DocumentInv

LEMMA OneTurn ==
  ASSUME InTurn, TypeInv, TurnInv, NEW q \in Requests, NEW r \in Requests,
         Deciding(req[q]), Deciding(req[r])
  PROVE  q = r
<1>1. req[q].pc # "idle" /\ req[r].pc # "idle" BY DEF Deciding
<1>2. req[q].user \in Users /\ req[r].user \in Users BY <1>1 DEF TypeInv, Sound
<1>3. /\ currentOrder \in DOMAIN steps
      /\ EmployeeOf[req[q].user] = steps[currentOrder].approver
      /\ EmployeeOf[req[r].user] = steps[currentOrder].approver
  BY DEF TurnInv, Turn
<1>4. steps[currentOrder] \in Step BY <1>3 DEF TypeInv, TypeOK
<1>5. steps[currentOrder].approver # NoEmployee BY <1>4, ApprovalsAssumption DEF Step
<1>6. req[q].user = req[r].user BY <1>2, <1>3, <1>5 DEF InTurn
<1> QED BY <1>1, <1>6 DEF TurnInv

\* The request whose turn it is does a statement before the write of the line.
LEMMA TurnGoes ==
  ASSUME InTurn, TypeInv, TurnInv, NEW r \in Requests, Deciding(req[r]),
         UNCHANGED <<documentStatus, lineStatus, currentOrder>>,
         \A q \in Requests \ {r} : req'[q] = req[q],
         req'[r].user = req[r].user, Decider(req'[r]), Deciding(req'[r]),
         Turn(req[r])', OnRecord(currentOrder)'
  PROVE  TurnInv'
<1>1. lineStatus = "IN_REVIEW" /\ req[r].pc # "idle" BY DEF TurnInv, Turn, Deciding
<1>2. \A q \in Requests \ {r} : ~Deciding(req[q]) BY OneTurn
<1>3. \A q \in Requests : Deciding(req'[q]) => Turn(req[q])' BY <1>2
<1>4. \A q \in Requests : ~(req'[q].pc = "writeDocument")
  <2>1. req'[r].pc # "writeDocument" BY DEF Deciding
  <2>2. \A q \in Requests : req[q].pc # "writeDocument" BY <1>1 DEF TurnInv, DocumentInv, At
  <2> QED BY <2>1, <2>2
<1>5. LineInv' BY <1>1 DEF TurnInv, LineInv
<1>6. DocumentInv' BY <1>1, <1>4 DEF TurnInv, DocumentInv, At
<1>7. \A q \in Requests : req'[q].pc # "idle" => Decider(req'[q]) BY DEF TurnInv
<1>8. \A p, q \in Requests :
        p # q /\ req'[p].pc # "idle" /\ req'[q].pc # "idle" => req'[p].user # req'[q].user
  BY <1>1 DEF TurnInv
<1> QED BY <1>3, <1>5, <1>6, <1>7, <1>8 DEF TurnInv

\* Rows that stay and actions that are only added to keep what is on record.
LEMMA RecordStays ==
  ASSUME NEW n, RowsStay, DOMAIN steps' = DOMAIN steps, actions \subseteq actions'
  PROVE  /\ OnRecord(n) => OnRecord(n)'
         /\ \A o \in DOMAIN steps : ApprovedByItsApprover(o) => ApprovedByItsApprover(o)'
         /\ Opened(n) => Opened(n)'
BY DEF OnRecord, ApprovedByItsApprover, Opened, RowsStay, IsActionable

\* A request whose turn is over, or has not come, leaves the rows and the line alone.
LEMMA AfterTurn ==
  ASSUME InTurn, TypeInv, TurnInv, NEW r \in Requests, req[r].pc # "idle", ~Deciding(req[r]),
         UNCHANGED <<lineStatus, currentOrder, steps>>, actions \subseteq actions',
         \A q \in Requests \ {r} : req'[q] = req[q],
         \/ req'[r].pc = "idle"
         \/ /\ req'[r].user = req[r].user /\ Decider(req'[r])
            /\ req'[r].pc \in {"logDecision", "findRequest", "syncRequest"} /\ ~Deciding(req'[r]),
         \/ documentStatus' = documentStatus /\ req[r].pc # "writeDocument"
         \/ documentStatus' = lineStatus
  PROVE  TurnInv'
<1>1. RowsStay /\ DOMAIN steps' = DOMAIN steps BY RowsUntouched
<1>2. ~Deciding(req'[r]) /\ req'[r].pc # "writeDocument" BY DEF Deciding
<1>3. \A q \in Requests : Deciding(req'[q]) => Turn(req[q])'
  <2>1. ASSUME NEW q \in Requests, Deciding(req'[q]) PROVE Turn(req[q])'
    <3>1. q # r /\ req'[q] = req[q] BY <1>2, <2>1
    <3>2. Turn(req[q]) BY <2>1, <3>1 DEF TurnInv
    <3> DEFINE old == req[q]
    <3>3. old' = old BY <3>1
    <3>4. UNCHANGED <<lineStatus, currentOrder, steps, req[q]>> BY <3>1
    <3>5. /\ OnRecord(old.next) => OnRecord(old.next)'
          /\ \A o \in DOMAIN steps : ApprovedByItsApprover(o) => ApprovedByItsApprover(o)'
          /\ Opened(old.next) => Opened(old.next)'
      BY <1>1, <3>3, RecordStays
    <3>6. Opened(old.order) => Opened(old.order)' BY <1>1, <3>3, RecordStays
    <3> QED BY <3>2, <3>4, <3>5, <3>6 DEF Turn, Standing, Frontier
  <2> QED BY <2>1
<1>4. LineInv'
  <2>1. OnRecord(currentOrder) => OnRecord(currentOrder)'
    BY <1>1, RecordStays
  <2>2. Opened(currentOrder) => Opened(currentOrder)' BY <1>1, RecordStays
  <2>3. (\A q \in Requests : ~Deciding(req'[q])) => \A q \in Requests : ~Deciding(req[q])
    OBVIOUS
  <2> QED BY <2>1, <2>2, <2>3 DEF TurnInv, LineInv, Standing, Frontier
<1>5. DocumentInv'
  <2>1. \A q \in Requests : At(q, "writeDocument")' => q # r /\ req'[q] = req[q] BY <1>2 DEF At
  <2>2. \A q \in Requests :
          At(q, "writeDocument")' => At(q, "writeDocument") /\ Outcome(q)' = Outcome(q)
    BY <2>1 DEF At, Outcome
  <2>3. \A q \in Requests :
          At(q, "writeDocument") /\ req[r].pc # "writeDocument" => At(q, "writeDocument")'
    BY DEF At
  <2> QED BY <2>2, <2>3 DEF TurnInv, DocumentInv
<1>6. \A q \in Requests : req'[q].pc # "idle" => Decider(req'[q]) BY DEF TurnInv
<1>7. \A p, q \in Requests :
        p # q /\ req'[p].pc # "idle" /\ req'[q].pc # "idle" => req'[p].user # req'[q].user
  BY DEF TurnInv
<1> QED BY <1>3, <1>4, <1>5, <1>6, <1>7 DEF TurnInv

(***************************************************************************)
(* The turn, statement by statement.                                       *)
(***************************************************************************)
LEMMA TurnDecides ==
  ASSUME InTurn, TypeInv, TurnInv, NEW r \in Requests, DecideStep(r)
  PROVE  TurnInv'
<1>o. PICK o : o = req[r].order OBVIOUS
<1>s. PICK status : status = IF req[r].op = "approve" THEN "APPROVED" ELSE "REJECTED" OBVIOUS
<1> DEFINE pc == IF req[r].op = "approve" THEN "logDecision" ELSE "writeLine"
<1>0. /\ req[r].pc = "decideStep" /\ Decider(req[r]) /\ Deciding(req[r]) /\ Turn(req[r])
      /\ OnRecord(currentOrder) /\ TypeOK
  BY DEF DecideStep, At, Deciding, TurnInv, LineInv, Turn, TypeInv
<1>1. /\ steps' = [steps EXCEPT ![o].status = status] /\ Goto(r, pc)
      /\ UNCHANGED <<documentStatus, lineStatus, currentOrder, actions>>
  BY <1>0, <1>o, <1>s DEF DecideStep, Decider
<1>2. pc \in Statements BY DEF Statements
<1>3. /\ req'[r].pc = pc /\ req'[r].op = req[r].op /\ req'[r].order = o
      /\ req'[r].user = req[r].user /\ req'[r].stale = req[r].stale
      /\ \A q \in Requests \ {r} : req'[q] = req[q]
  BY <1>0, <1>1, <1>2, <1>o, Moving
<1>4. /\ o \in DOMAIN steps /\ Standing(o) /\ o = currentOrder /\ lineStatus = "IN_REVIEW"
      /\ steps[o].approver = EmployeeOf[req[r].user]
  BY <1>0, <1>o DEF Turn
<1>5. /\ DOMAIN steps' = DOMAIN steps
      /\ \A p \in DOMAIN steps : /\ steps'[p].type = steps[p].type
                                 /\ steps'[p].approver = steps[p].approver
                                 /\ steps'[p].status = IF p = o THEN status ELSE steps[p].status
  <2>1. \A p \in DOMAIN steps : steps[p] \in Step BY <1>0 DEF TypeOK
  <2> QED BY <1>1, <2>1 DEF Step
<1>6. RowsStay BY <1>5 DEF RowsStay
<1>7. OnRecord(currentOrder)'
  BY <1>0, <1>1, <1>5, <1>6, RecordStays
<1>8. Frontier(o, status)'
  <2>1. o \in Nat /\ DOMAIN steps \subseteq Nat /\ o # NoOrder
    BY <1>0, <1>4, OrdersArePositive DEF TypeOK, NoOrder
  <2>2. \A p \in DOMAIN steps : /\ p < o => steps[p].status = "APPROVED"
                                /\ o < p => steps[p].status = "WAITING"
    BY <1>4, <2>1 DEF Standing, Goal
  <2>3. IsActionable(steps[o]) BY <1>4, <2>1 DEF Standing, Opened
  <2>4. \A p \in DOMAIN steps : p < o \/ o < p => p # o BY <2>1
  <2> QED BY <1>4, <1>5, <2>2, <2>3, <2>4 DEF Frontier, IsActionable
<1>9. Turn(req[r])'
  BY <1>0, <1>1, <1>3, <1>4, <1>5, <1>8, <1>s DEF Turn, Decider
<1>10. Decider(req'[r]) /\ Deciding(req'[r]) BY <1>0, <1>3 DEF Decider, Deciding
<1> QED BY <1>0, <1>1, <1>3, <1>7, <1>9, <1>10, TurnGoes

LEMMA TurnLogs ==
  ASSUME InTurn, TypeInv, TurnInv, NEW r \in Requests, LogDecision(r)
  PROVE  TurnInv'
<1>o. PICK o : o = req[r].order OBVIOUS
<1>u. PICK u : u = req[r].user OBVIOUS
<1> DEFINE pc == IF req[r].op = "approve" THEN "readSteps" ELSE "findRequest"
           row == [type |-> IF req[r].op = "approve" THEN "APPROVE" ELSE "REJECT",
                   order |-> o, actor |-> u]
<1>0. req[r].pc = "logDecision" /\ Decider(req[r]) BY DEF LogDecision, At, TurnInv
<1>1. /\ actions' = actions \cup {row} /\ Goto(r, pc)
      /\ UNCHANGED <<documentStatus, lineStatus, currentOrder, steps>>
  BY <1>0, <1>o, <1>u DEF LogDecision, Decider
<1>2. pc \in Statements BY DEF Statements
<1>3. /\ req'[r].pc = pc /\ req'[r].op = req[r].op /\ req'[r].order = o
      /\ req'[r].user = u /\ req'[r].stale = req[r].stale
      /\ \A q \in Requests \ {r} : req'[q] = req[q]
  BY <1>0, <1>1, <1>2, <1>o, <1>u, Moving
<1>4. RowsStay /\ actions \subseteq actions' BY <1>1, RowsUntouched
<1>5. Decider(req'[r]) BY <1>0, <1>3 DEF Decider
<1>6. CASE req[r].op = "approve"
  <2>1. Deciding(req[r]) /\ Deciding(req'[r]) BY <1>0, <1>3, <1>6 DEF Deciding
  <2>2. Turn(req[r]) /\ OnRecord(currentOrder)
    BY <2>1 DEF TurnInv, Turn, LineInv
  <2>3. OnRecord(currentOrder)' BY <1>1, <1>4, <2>2, RecordStays
  <2>4. /\ o \in DOMAIN steps /\ steps[o].approver = EmployeeOf[u] /\ o = currentOrder
        /\ lineStatus = "IN_REVIEW" /\ Frontier(o, "APPROVED")
    BY <1>0, <1>o, <1>u, <2>2 DEF Turn
  <2>5. row.type = "APPROVE" /\ row.order = o /\ row.actor = u BY <1>6
  <2> HIDE DEF row
  <2>6. ApprovedByItsApprover(o)' BY <1>1, <2>4, <2>5 DEF ApprovedByItsApprover
  <2>7. Turn(req[r])'
    BY <1>1, <1>3, <1>6, <2>4, <2>6 DEF Turn, Frontier, IsActionable
  <2> QED BY <1>1, <1>3, <1>5, <2>1, <2>3, <2>7, <1>u, TurnGoes
<1>7. CASE req[r].op # "approve"
  <2>1. ~Deciding(req[r]) /\ ~Deciding(req'[r]) /\ req'[r].pc = "findRequest"
    BY <1>0, <1>3, <1>7 DEF Deciding
  <2> QED BY <1>0, <1>1, <1>3, <1>4, <1>5, <2>1, <1>u, AfterTurn
<1> QED BY <1>6, <1>7

LEMMA TurnReads ==
  ASSUME InTurn, TypeInv, TurnInv, NEW r \in Requests, ReadSteps(r)
  PROVE  TurnInv'
<1> DEFINE c == req[r].order
<1>0. /\ req[r].pc = "readSteps" /\ Decider(req[r]) /\ Deciding(req[r]) /\ Turn(req[r])
      /\ OnRecord(currentOrder) /\ TypeOK /\ req[r] \in Record
  BY DEF ReadSteps, At, Deciding, TurnInv, LineInv, Turn, TypeInv
<1>1. /\ c \in DOMAIN steps /\ c = currentOrder /\ Frontier(c, "APPROVED")
      /\ ApprovedByItsApprover(c) /\ lineStatus = "IN_REVIEW"
      /\ steps[c].approver = EmployeeOf[req[r].user]
  BY <1>0 DEF Turn
<1>2. PICK n \in Orders \cup {NoOrder} :
        /\ IsNextActionable(steps, c, n)
        /\ LET rows == Forwarded(steps, c, n)
               changed == {o \in DOMAIN steps : rows[o] # steps[o]}
           IN  req' = [req EXCEPT ![r].next = n,
                                  ![r].plan = [o \in changed |-> rows[o].status],
                                  ![r].stale = FALSE,
                                  ![r].pc = IF changed = {} THEN "writeLine" ELSE "forward"]
  BY DEF ReadSteps
<1> DEFINE rows == Forwarded(steps, c, n)
           changed == {o \in DOMAIN steps : rows[o] # steps[o]}
           plan == [o \in changed |-> rows[o].status]
           pc == IF changed = {} THEN "writeLine" ELSE "forward"
           new == [req[r] EXCEPT !.next = n, !.plan = plan, !.stale = FALSE, !.pc = pc]
<1>3. req' = [req EXCEPT ![r] = new] BY <1>2, <1>0 DEF TypeInv
<1>4. /\ DOMAIN steps \subseteq Orders /\ steps \in [DOMAIN steps -> Step]
      /\ c \in Orders /\ c \in Nat /\ DOMAIN steps \subseteq Nat
  BY <1>0, <1>1, OrdersArePositive DEF TypeOK
<1>5. \A o \in DOMAIN steps : steps[o].status = IF o <= c THEN "APPROVED" ELSE "WAITING"
  BY <1>1, <1>4 DEF Frontier
<1>6. /\ n # NoOrder => n \in DOMAIN steps /\ IsActionable(steps[n])
      /\ \A o \in DOMAIN steps : rows[o].status = Goal(n, o)
      /\ \A o \in DOMAIN steps : o > c /\ (n = NoOrder \/ o < n) => ~IsActionable(steps[o])
  BY <1>2, <1>4, <1>5, MovesOn
<1> HIDE DEF rows
<1>7. OnRecord(n)
  <2>1. ASSUME NEW o \in DOMAIN steps, n = NoOrder \/ o < n, IsActionable(steps[o])
        PROVE  ApprovedByItsApprover(o)
    <3>1. ~(o > c) BY <1>6, <2>1
    <3>2. o < c \/ o = c BY <1>4, <3>1
    <3> QED BY <1>0, <1>1, <2>1, <3>2 DEF OnRecord
  <2> QED BY <2>1 DEF OnRecord
<1>8. /\ DOMAIN plan \subseteq DOMAIN steps
      /\ \A o \in DOMAIN steps : IF o \in DOMAIN plan THEN plan[o] = Goal(n, o)
                                                     ELSE steps[o].status = Goal(n, o)
  <2>1. DOMAIN plan = changed OBVIOUS
  <2>2. \A o \in changed : plan[o] = rows[o].status OBVIOUS
  <2>3. \A o \in DOMAIN steps : o \notin changed => rows[o] = steps[o] OBVIOUS
  <2>4. changed \subseteq DOMAIN steps OBVIOUS
  <2> HIDE DEF plan, changed
  <2> QED BY <1>6, <2>1, <2>2, <2>3, <2>4
<1>9. pc \in {"writeLine", "forward"} /\ (pc = "writeLine" => DOMAIN plan = {}) OBVIOUS
<1> HIDE DEF plan, changed, pc
<1>10. /\ new.pc = pc /\ new.plan = plan /\ ~new.stale /\ new.op = req[r].op
       /\ new.order = c /\ new.next = n /\ new.user = req[r].user
  BY <1>0 DEF Record
<1> HIDE DEF new
<1>11. req'[r] = new /\ \A q \in Requests \ {r} : req'[q] = req[q] BY <1>3 DEF TypeInv
<1>12. UNCHANGED <<documentStatus, lineStatus, currentOrder, steps, actions>>
  BY DEF ReadSteps, vars
<1>13. Opened(n)' /\ OnRecord(n)' /\ OnRecord(currentOrder)'
  BY <1>0, <1>6, <1>7, <1>12, RecordStays, RowsUntouched DEF Opened
<1>14. pc = "writeLine" => \A o \in DOMAIN steps : steps[o].status = Goal(n, o) BY <1>8, <1>9
<1>15. req[r].op = "approve" BY <1>0 DEF Decider
<1>16. req'[r].pc = pc /\ req'[r].plan = plan /\ req'[r].next = n /\ req'[r].order = c
       /\ req'[r].user = req[r].user /\ req'[r].op = "approve" /\ ~req'[r].stale
  BY <1>10, <1>11, <1>15
<1>17. Turn(req[r])'
  BY <1>1, <1>8, <1>9, <1>12, <1>13, <1>14, <1>16 DEF Turn, Standing
<1>18. Decider(req'[r]) /\ Deciding(req'[r]) BY <1>9, <1>16 DEF Decider, Deciding
<1> QED BY <1>0, <1>11, <1>12, <1>13, <1>16, <1>17, <1>18, TurnGoes
LEMMA TurnForwards ==
  ASSUME InTurn, TypeInv, TurnInv, NEW r \in Requests, Forward(r)
  PROVE  TurnInv'
<1> DEFINE q == req[r]
<1>0. /\ q.pc = "forward" /\ Decider(q) /\ Deciding(q) /\ Turn(q)
      /\ OnRecord(currentOrder) /\ TypeOK /\ q \in Record
  BY DEF Forward, At, Deciding, TurnInv, LineInv, Turn, TypeInv
<1>n. PICK n : n = q.next OBVIOUS
<1>1. /\ Opened(n) /\ OnRecord(n) /\ DOMAIN q.plan \subseteq DOMAIN steps
      /\ \A p \in DOMAIN steps : IF p \in DOMAIN q.plan THEN q.plan[p] = Goal(n, p)
                                                       ELSE steps[p].status = Goal(n, p)
      /\ lineStatus = "IN_REVIEW" /\ q.order = currentOrder /\ q.order \in DOMAIN steps
      /\ steps[q.order].approver = EmployeeOf[q.user]
  BY <1>0, <1>n DEF Turn
<1>2. PICK o \in DOMAIN q.plan :
        LET rest == DOMAIN q.plan \ {o}
        IN  /\ steps' = [steps EXCEPT ![o].status = q.plan[o]]
            /\ req' = [req EXCEPT ![r].plan = [p \in rest |-> q.plan[p]],
                                  ![r].pc = IF rest = {} THEN "writeLine" ELSE "forward"]
  BY <1>0 DEF Forward, Decider
<1> DEFINE rest == DOMAIN q.plan \ {o}
           plan == [p \in rest |-> q.plan[p]]
           pc == IF rest = {} THEN "writeLine" ELSE "forward"
           new == [q EXCEPT !.plan = plan, !.pc = pc]
<1>3. req' = [req EXCEPT ![r] = new] BY <1>2 DEF TypeInv
<1>4. UNCHANGED <<documentStatus, lineStatus, currentOrder, actions>> BY DEF Forward
<1>5. /\ DOMAIN steps' = DOMAIN steps
      /\ \A p \in DOMAIN steps : /\ steps'[p].type = steps[p].type
                                 /\ steps'[p].approver = steps[p].approver
                                 /\ p # o => steps'[p].status = steps[p].status
                                 /\ p = o => steps'[p].status = q.plan[o]
  <2>1. \A p \in DOMAIN steps : steps[p] \in Step BY <1>0 DEF TypeOK
  <2>2. \A p \in DOMAIN steps :
          steps'[p] = IF p = o THEN [steps[p] EXCEPT !.status = q.plan[o]] ELSE steps[p]
    BY <1>2
  <2> QED BY <1>2, <2>1, <2>2 DEF Step
<1>6. DOMAIN plan = rest /\ \A p \in rest : plan[p] = q.plan[p] OBVIOUS
<1>7. \A p : p \in rest <=> p \in DOMAIN q.plan /\ p # o OBVIOUS
<1>8. pc \in {"writeLine", "forward"} /\ (pc = "writeLine" => rest = {}) OBVIOUS
<1> HIDE DEF plan, rest, pc
<1>9. /\ new.pc = pc /\ new.plan = plan /\ new.stale = q.stale /\ new.op = q.op
      /\ new.order = q.order /\ new.next = n /\ new.user = q.user
  BY <1>0, <1>n DEF Record
<1> HIDE DEF new
<1>10. req'[r] = new /\ \A p \in Requests \ {r} : req'[p] = req[p] BY <1>3 DEF TypeInv
<1>11. RowsStay BY <1>5 DEF RowsStay
<1>12. Opened(n)' /\ OnRecord(n)' /\ OnRecord(currentOrder)'
  BY <1>0, <1>1, <1>4, <1>5, <1>11, RecordStays
<1>13. /\ DOMAIN plan \subseteq DOMAIN steps'
       /\ \A p \in DOMAIN steps' : IF p \in DOMAIN plan THEN plan[p] = Goal(n, p)
                                                        ELSE steps'[p].status = Goal(n, p)
  BY <1>1, <1>5, <1>6, <1>7
<1>14. pc = "writeLine" => \A p \in DOMAIN steps' : steps'[p].status = Goal(n, p)
  BY <1>6, <1>8, <1>13
<1>15. /\ req'[r].pc = pc /\ req'[r].plan = plan /\ req'[r].next = n
       /\ req'[r].order = currentOrder /\ req'[r].user = q.user /\ req'[r].op = "approve"
       /\ ~req'[r].stale
  BY <1>0, <1>1, <1>9, <1>10 DEF Decider
<1>16. Turn(req[r])'
  BY <1>1, <1>4, <1>5, <1>8, <1>12, <1>13, <1>14, <1>15 DEF Turn, Standing
<1>17. Decider(req'[r]) /\ Deciding(req'[r]) BY <1>8, <1>15 DEF Decider, Deciding
<1> QED BY <1>0, <1>4, <1>10, <1>12, <1>15, <1>16, <1>17, TurnGoes

\* The write of the line ends the turn: the next approver's begins, or the review is over.
LEMMA TurnEnds ==
  ASSUME InTurn, TypeInv, TurnInv, NEW r \in Requests, WriteLine(r)
  PROVE  TurnInv'
<1>n. PICK n : n = req[r].next OBVIOUS
<1>o. PICK o : o = req[r].order OBVIOUS
<1>0. /\ req[r].pc = "writeLine" /\ Decider(req[r]) /\ Deciding(req[r]) /\ Turn(req[r])
      /\ lineStatus = "IN_REVIEW" /\ documentStatus = "IN_REVIEW"
  BY DEF WriteLine, At, Deciding, TurnInv, DocumentInv, Turn
<1>1. UNCHANGED <<documentStatus, steps, actions>> BY DEF WriteLine
<1>2. \A q \in Requests \ {r} : ~Deciding(req[q]) BY <1>0, OneTurn
<1>3. \A q \in Requests : req[q].pc # "writeDocument" BY <1>0 DEF TurnInv, DocumentInv, At
<1>4. PICK pc \in {"findRequest", "writeDocument"} :
        /\ Goto(r, pc)
        /\ pc = "findRequest" <=> req[r].op = "approve" /\ Outcome(r) = "IN_REVIEW"
  BY DEF WriteLine
<1>5. /\ req'[r].pc = pc /\ req'[r].op = req[r].op /\ req'[r].next = n
      /\ req'[r].user = req[r].user /\ req'[r].stale = req[r].stale
      /\ \A q \in Requests \ {r} : req'[q] = req[q]
  <2>1. pc \in Statements BY <1>4 DEF Statements
  <2> QED BY <1>0, <1>4, <1>n, <2>1, Moving
<1>6. Decider(req'[r]) /\ ~Deciding(req'[r]) BY <1>0, <1>4, <1>5 DEF Decider, Deciding
<1>7. \A q \in Requests : ~Deciding(req'[q]) BY <1>2, <1>5, <1>6
<1>8. Outcome(r)' = Outcome(r) BY <1>5, <1>n DEF Outcome
<1>9. \A q \in Requests : At(q, "writeDocument")' => q = r BY <1>3, <1>5 DEF At
<1>10. RowsStay BY <1>1, RowsUntouched
<1>11. LineInv' /\ DocumentInv'
  <2>1. CASE req[r].op = "approve"
    <3>1. Standing(n) /\ OnRecord(n) BY <1>0, <1>n, <2>1 DEF Turn
    <3>2. Outcome(r) = IF n = NoOrder THEN "APPROVED" ELSE "IN_REVIEW"
      BY <1>n, <2>1 DEF Outcome
    <3>3. /\ lineStatus' = IF n = NoOrder THEN "APPROVED" ELSE "IN_REVIEW"
          /\ currentOrder' = n
      BY <1>n, <3>2 DEF WriteLine
    <3>4. Standing(n)' /\ OnRecord(n)'
      BY <1>1, <1>10, <3>1, RecordStays DEF Standing
    <3>5. LineInv' BY <3>3, <3>4 DEF LineInv, Standing, Opened, OnRecord
    <3>6. pc = "findRequest" <=> n # NoOrder BY <1>4, <2>1, <3>2
    <3>7. DocumentInv'
      BY <1>0, <1>1, <1>4, <1>5, <1>8, <1>9, <3>2, <3>3, <3>6 DEF DocumentInv, At
    <3> QED BY <3>5, <3>7
  <2>2. CASE req[r].op = "reject"
    <3>1. Frontier(o, "REJECTED") BY <1>0, <1>o, <2>2 DEF Turn
    <3>2. Outcome(r) = "REJECTED" BY <2>2 DEF Outcome
    <3>3. lineStatus' = "REJECTED" /\ currentOrder' = NoOrder BY <3>2 DEF WriteLine
    <3>4. Frontier(o, "REJECTED")' /\ o \in DOMAIN steps'
      BY <1>1, <3>1 DEF Frontier, IsActionable
    <3>5. LineInv' BY <3>3, <3>4 DEF LineInv
    <3>6. pc = "writeDocument" BY <1>4, <2>2
    <3>7. DocumentInv'
      BY <1>5, <1>8, <1>9, <3>2, <3>3, <3>6 DEF DocumentInv, At
    <3> QED BY <3>5, <3>7
  <2> QED BY <1>0, <2>1, <2>2 DEF Decider
<1>12. \A q \in Requests : req'[q].pc # "idle" => Decider(req'[q]) BY <1>5, <1>6 DEF TurnInv
<1>13. \A p, q \in Requests :
         p # q /\ req'[p].pc # "idle" /\ req'[q].pc # "idle" => req'[p].user # req'[q].user
  BY <1>0, <1>5 DEF TurnInv
<1> QED BY <1>7, <1>11, <1>12, <1>13 DEF TurnInv

\* The document and the linked request are written after the turn.
LEMMA TurnIsOver ==
  ASSUME InTurn, TypeInv, TurnInv, NEW r \in Requests,
         WriteDocument(r) \/ FindRequest(r) \/ SyncRequest(r)
  PROVE  TurnInv'
<1>0. /\ req[r].pc \in {"writeDocument", "findRequest", "syncRequest"} /\ Decider(req[r])
      /\ req[r].pc # "idle" /\ ~Deciding(req[r]) /\ ~Submits(r) /\ req[r].op # "create"
  BY DEF WriteDocument, FindRequest, SyncRequest, At, TurnInv, Decider, Deciding, Submits
<1>1. UNCHANGED <<lineStatus, currentOrder, steps, actions>>
  BY DEF WriteDocument, FindRequest, SyncRequest, vars
<1>2. \/ documentStatus' = documentStatus /\ req[r].pc # "writeDocument"
      \/ documentStatus' = lineStatus
  BY DEF WriteDocument, FindRequest, SyncRequest, vars, At, TurnInv, DocumentInv
<1>3. ASSUME NEW pc \in {"logDecision", "findRequest", "syncRequest"}, Goto(r, pc),
             pc = "logDecision" => req[r].op = "reject"
      PROVE  TurnInv'
  <2>0. pc \in Statements BY <1>3 DEF Statements
  <2>1. /\ req'[r].pc = pc /\ req'[r].op = req[r].op /\ req'[r].user = req[r].user
        /\ req'[r].stale = req[r].stale /\ \A q \in Requests \ {r} : req'[q] = req[q]
    BY <1>0, <1>3, <2>0, Moving
  <2>2. Decider(req'[r]) /\ ~Deciding(req'[r]) BY <1>0, <1>3, <2>1 DEF Decider, Deciding
  <2> QED BY <1>0, <1>1, <1>2, <2>1, <2>2, AfterTurn
<1>4. ASSUME End(r) PROVE TurnInv'
  <2>1. req'[r].pc = "idle" /\ \A q \in Requests \ {r} : req'[q] = req[q]
    BY <1>4, IdleAlone DEF End, TypeInv
  <2> QED BY <1>0, <1>1, <1>2, <2>1, AfterTurn
<1>5. CASE WriteDocument(r)
  <2> DEFINE next == CASE Submits(r) -> "logSubmission"
                       [] req[r].op = "reject" -> "logDecision"
                       [] OTHER -> "findRequest"
  <2>1. Goto(r, next) BY <1>5 DEF WriteDocument
  <2>2. next = IF req[r].op = "reject" THEN "logDecision" ELSE "findRequest" BY <1>0
  <2> HIDE DEF next
  <2> QED BY <1>3, <2>1, <2>2
<1>6. CASE FindRequest(r) \/ SyncRequest(r)
  BY <1>0, <1>3, <1>4, <1>6 DEF FindRequest, SyncRequest
<1> QED BY <1>5, <1>6
\* A decision begins only when no other is under way: that one would be the same user's.
LEMMA TurnBegins ==
  ASSUME InTurn, TypeInv, TurnInv, NEW r \in Requests, NEW u \in Users,
         NEW name \in {"approve", "reject"}, BeginDecision(r, u, name)
  PROVE  TurnInv'
<1>c. PICK c : c = currentOrder OBVIOUS
<1> DEFINE new == [Request(name, u, "decideStep") EXCEPT !.order = c]
<1>1. /\ Begin(r, new) /\ UNCHANGED vars /\ lineStatus = "IN_REVIEW" /\ EmployeeOf[u] # NoEmployee
      /\ c \in DOMAIN steps /\ steps[c].approver = EmployeeOf[u]
  BY <1>c DEF BeginDecision, MayDecide
<1>2. /\ new.pc = "decideStep" /\ new.op = name /\ new.user = u /\ new.order = c /\ ~new.stale
  BY DEF Request, Idle
<1> HIDE DEF new
<1>3. /\ req[r].pc = "idle" /\ \A q \in Requests : req[q].user # u
      /\ req' = [q \in Requests |-> IF q = r THEN new ELSE [req[q] EXCEPT !.alone = FALSE]]
  BY <1>1, <1>2 DEF Begin, InTurn
<1>4. req'[r] = new BY <1>3
<1>5. ASSUME NEW q \in Requests \ {r}
      PROVE  /\ req'[q].pc = req[q].pc /\ req'[q].op = req[q].op /\ req'[q].user = req[q].user
             /\ req'[q].stale = req[q].stale /\ ~Deciding(req[q])
  <2>1. req[q] \in Record BY DEF TypeInv
  <2>2. req'[q] = [req[q] EXCEPT !.alone = FALSE] BY <1>3
  <2>3. ASSUME Deciding(req[q]) PROVE FALSE
    <3>1. EmployeeOf[req[q].user] = EmployeeOf[u] BY <1>1, <1>c, <2>3 DEF TurnInv, Turn
    <3>2. req[q].user \in Users BY <2>3 DEF TypeInv, Sound, Deciding
    <3> QED BY <1>1, <1>3, <3>1, <3>2 DEF InTurn
  <2> QED BY <2>1, <2>2, <2>3 DEF Record
<1>6. \A q \in Requests : ~Deciding(req[q]) BY <1>3, <1>5 DEF Deciding
<1>7. Standing(c) /\ OnRecord(c) /\ c # NoOrder /\ documentStatus = "IN_REVIEW"
  BY <1>1, <1>c, <1>6 DEF TurnInv, LineInv, DocumentInv
<1>8. UNCHANGED <<documentStatus, lineStatus, currentOrder, steps, actions>> BY <1>1 DEF vars
<1>9. Standing(c)' /\ OnRecord(c)'
  BY <1>7, <1>8, RecordStays, RowsUntouched DEF Standing
<1>10. Decider(req'[r]) /\ Deciding(req'[r]) BY <1>2, <1>4 DEF Decider, Deciding
<1>11. Turn(req[r])' BY <1>1, <1>2, <1>4, <1>8, <1>9, <1>c DEF Turn
<1>12. \A q \in Requests : Deciding(req'[q]) => Turn(req[q])'
  BY <1>5, <1>11 DEF Deciding
<1>13. LineInv' BY <1>1, <1>7, <1>8, <1>9, <1>10, <1>c DEF LineInv
<1>14. DocumentInv'
  <2>1. \A q \in Requests : req[q].pc # "writeDocument" BY <1>1 DEF TurnInv, DocumentInv, At
  <2>2. \A q \in Requests : req'[q].pc # "writeDocument" BY <1>2, <1>4, <1>5, <2>1
  <2> QED BY <1>1, <1>7, <1>8, <2>2 DEF DocumentInv, At
<1>15. \A q \in Requests : req'[q].pc # "idle" => Decider(req'[q])
  BY <1>5, <1>10 DEF TurnInv, Decider
<1>16. \A p, q \in Requests :
         p # q /\ req'[p].pc # "idle" /\ req'[q].pc # "idle" => req'[p].user # req'[q].user
  BY <1>2, <1>3, <1>4, <1>5 DEF TurnInv
<1> QED BY <1>12, <1>13, <1>14, <1>15, <1>16 DEF TurnInv

LEMMA TurnNext ==
  ASSUME InTurn, TypeInv, TurnInv, [RequestsNext]_reqVars
  PROVE  TurnInv'
<1>1. CASE UNCHANGED reqVars
  BY <1>1 DEF reqVars, vars, TurnInv, LineInv, DocumentInv, Turn, Decider, Deciding, Standing,
          OnRecord, Opened, Frontier, IsActionable, ApprovedByItsApprover, Outcome, At
<1>2. ASSUME NEW r \in Requests, NEW u \in Users, Arrive(r, u) PROVE TurnInv'
  <2>1. \A request : Begin(r, request) => request.op \in {"approve", "reject"}
    BY DEF Begin, InTurn
  <2>2. /\ "createDocument" \notin Ops /\ "addVersion" \notin Ops BY DEF InTurn
  <2>3. \A pc : Request("submit", u, pc).op = "submit" /\ Request("resubmit", u, pc).op = "resubmit"
                /\ Request("cancel", u, pc).op = "cancel"
    BY Requested
  <2>4. \A pc, routing :
          /\ [Request("create", u, pc) EXCEPT !.routing = routing].op = "create"
          /\ [Request("configure", u, pc) EXCEPT !.routing = routing].op = "configure"
    BY DEF Request, Idle
  <2>5. BeginDecision(r, u, "approve") \/ BeginDecision(r, u, "reject")
    <3>1. ~BeginCreateDocument(r, u) /\ ~BeginAddVersion(r, u)
      BY <2>2 DEF BeginCreateDocument, BeginAddVersion
    <3>2. ~BeginSubmit(r, u) /\ ~BeginResubmit(r, u) /\ ~BeginCancel(r, u)
      BY <2>1, <2>3 DEF BeginSubmit, BeginResubmit, BeginCancel
    <3>3. \A routing : ~BeginConfigure(r, u, routing) BY <2>1, <2>4 DEF BeginConfigure
    <3>4. \A approvers : ~BeginCreate(r, u, approvers) BY <2>1, <2>4 DEF BeginCreate
    <3> QED BY <1>2, <3>1, <3>2, <3>3, <3>4 DEF Arrive
  <2> QED BY <2>5, TurnBegins
<1>3. ASSUME NEW r \in Requests, Continue(r) PROVE TurnInv'
  <2>1. req[r].pc \in {"decideStep", "logDecision", "readSteps", "forward", "writeLine",
                       "writeDocument", "findRequest", "syncRequest"}
    BY <1>3, Continuing DEF TurnInv, Decider
  <2>2. \/ DecideStep(r) \/ LogDecision(r) \/ ReadSteps(r) \/ Forward(r) \/ WriteLine(r)
        \/ WriteDocument(r) \/ FindRequest(r) \/ SyncRequest(r)
    BY <1>3, <2>1 DEF Continue, FindLine, CreateLine, DeleteActions, DeleteSteps, ResetLine,
              CreateSteps, ReadLine, ResetSteps, CancelSteps, LogSubmission, InsertRequest, At
  <2> QED BY <2>2, TurnDecides, TurnLogs, TurnReads, TurnForwards, TurnEnds, TurnIsOver
<1>4. ASSUME NEW r \in Requests, Crash(r) PROVE FALSE
  <2>1. crashes < MaxCrashes /\ crashes \in 0..MaxCrashes /\ MaxCrashes = 0
    BY <1>4 DEF Crash, TypeInv, InTurn
  <2> QED BY <2>1
<1> QED BY <1>1, <1>2, <1>3, <1>4 DEF RequestsNext

LEMMA TurnInit == SubmittedInit => TurnInv
<1> SUFFICES ASSUME SubmittedInit PROVE TurnInv
  OBVIOUS
<1>1. /\ lineStatus = "IN_REVIEW" /\ documentStatus = "IN_REVIEW"
      /\ req = [r \in Requests |-> Idle]
  BY DEF SubmittedInit
<1>2. \A r \in Requests : req[r].pc = "idle" BY <1>1, IdleAlone
<1>3. PICK routing \in RequestRoutings : \E n \in Orders :
        /\ IsNextActionable(routing, 0, n)
        /\ steps = Forwarded(FreshSteps(routing), 0, n)
        /\ currentOrder = n
  BY DEF SubmittedInit
<1>4. PICK n \in Orders : /\ IsNextActionable(routing, 0, n)
                          /\ steps = Forwarded(FreshSteps(routing), 0, n)
                          /\ currentOrder = n
  BY <1>3
<1>5. PICK D \in SUBSET Orders : routing \in [D -> [type : Types, approver : Employees]]
  BY RequestsAssumption DEF Routings
<1> DEFINE rows == FreshSteps(routing)
<1>6. /\ DOMAIN rows = D /\ rows \in [DOMAIN rows -> Step]
      /\ \A o \in D : rows[o].type = routing[o].type /\ rows[o].status = "WAITING"
  BY <1>5, ApprovalsAssumption DEF FreshSteps, Step, StepStatuses
<1>7. IsNextActionable(rows, NoOrder, n)
  BY <1>4, <1>5, <1>6 DEF IsNextActionable, IsActionable, NoOrder
<1> HIDE DEF rows
<1>8. D \subseteq Nat /\ n \in Nat /\ n # NoOrder /\ NoOrder \in Nat
      /\ \A o \in D : o > NoOrder /\ ~(o <= NoOrder)
  BY OrdersArePositive DEF NoOrder
<1>9. \A o \in DOMAIN rows : rows[o].status = IF o <= NoOrder THEN "APPROVED" ELSE "WAITING"
  BY <1>6, <1>8
<1>10. /\ n \in D /\ IsActionable(rows[n])
       /\ \A o \in D : Forwarded(rows, NoOrder, n)[o].status = Goal(n, o)
       /\ \A o \in D : o < n => ~IsActionable(rows[o])
  BY <1>6, <1>7, <1>8, <1>9, MovesOn
<1>11. steps = Forwarded(rows, NoOrder, n) BY <1>4 DEF rows, NoOrder
<1>12. DOMAIN steps = D /\ \A o \in D : steps[o].type = rows[o].type
  BY <1>6, <1>8, <1>11, ForwardedRows
<1>13. Standing(n) /\ OnRecord(n)
  BY <1>8, <1>10, <1>11, <1>12 DEF Standing, Opened, OnRecord, IsActionable
<1>14. LineInv BY <1>1, <1>4, <1>8, <1>13 DEF LineInv
<1>15. DocumentInv BY <1>1, <1>2 DEF DocumentInv, At
<1> QED BY <1>2, <1>14, <1>15 DEF TurnInv, Deciding

LEMMA TurnsAgree ==
  ASSUME TypeInv, TurnInv
  PROVE  SettledLineCoherent
<1> SUFFICES ASSUME Settled PROVE StepsMatchLine /\ DocumentFollowsLine /\ ApprovedByEveryApprover
  BY DEF SettledLineCoherent
<1>1. \A r \in Requests : ~Deciding(req[r]) /\ ~At(r, "writeDocument")
  BY DEF Settled, InFlight, Deciding, At
<1>2. /\ lineStatus \in {"IN_REVIEW", "APPROVED", "REJECTED"}
      /\ lineStatus = "IN_REVIEW" <=> currentOrder # NoOrder
      /\ lineStatus # "REJECTED" => Standing(currentOrder) /\ OnRecord(currentOrder)
      /\ lineStatus = "REJECTED" => \E o \in DOMAIN steps : Frontier(o, "REJECTED")
  BY <1>1 DEF TurnInv, LineInv
<1>3. documentStatus = lineStatus BY <1>1 DEF TurnInv, DocumentInv
<1>4. lineStatus = "IN_REVIEW" => Frontier(currentOrder, "PENDING")
  <2> SUFFICES ASSUME lineStatus = "IN_REVIEW" PROVE Frontier(currentOrder, "PENDING")
    OBVIOUS
  <2>1. currentOrder # NoOrder /\ Standing(currentOrder) BY <1>2
  <2>2. currentOrder \in Nat /\ DOMAIN steps \subseteq Nat
    BY <2>1, OrdersArePositive DEF TypeInv, TypeOK
  <2>3. currentOrder \in DOMAIN steps /\ IsActionable(steps[currentOrder])
    BY <2>1 DEF Standing, Opened
  <2>4. steps[currentOrder].status = "PENDING" BY <2>1, <2>2, <2>3 DEF Standing, Goal
  <2>5. \A p \in DOMAIN steps : /\ p < currentOrder => steps[p].status = "APPROVED"
                                /\ currentOrder < p => steps[p].status = "WAITING"
    BY <2>1, <2>2 DEF Standing, Goal
  <2> QED BY <2>3, <2>4, <2>5 DEF Frontier
<1>5. lineStatus = "APPROVED" => \A o \in DOMAIN steps : steps[o].status = "APPROVED"
  BY <1>2 DEF Standing, Goal
<1>6. lineStatus = "APPROVED" => ApprovedByEveryApprover
  BY <1>2 DEF ApprovedByEveryApprover, OnRecord, IsActionable
<1> QED BY <1>2, <1>3, <1>4, <1>5, <1>6
        DEF StepsMatchLine, DocumentFollowsLine, ApprovedByEveryApprover

\* Decisions of the approvers of one submitted line, however they overlap, leave step rows,
\* line, document and approval trail in agreement whenever none is in flight, for any
\* routing, if every approver has one request at a time and none is cut short.
THEOREM ApproversInTurn ==
  ASSUME InTurn
  PROVE  SubmittedSpec => []SettledLineCoherent
<1>1. SubmittedInit => Inv /\ TurnInv BY LoneInit, TurnInit
<1>2. Inv /\ TurnInv /\ [RequestsNext]_reqVars => Inv' /\ TurnInv'
  BY LoneNext, TurnNext DEF Inv
<1>3. Inv /\ TurnInv => SettledLineCoherent BY TurnsAgree DEF Inv
<1> QED BY <1>1, <1>2, <1>3, PTL DEF SubmittedSpec

(***************************************************************************)
(* One request at a time.  While the only slot works, the database is the  *)
(* settled one plus the effect of the statements done so far; what that is *)
(* for each operation and statement is a stage.  A request's last          *)
(* statement completes the effect, which is then one step of Approvals.    *)
(***************************************************************************)
OneAtATime == MaxCrashes = 0 /\ \E r \in Requests : Requests = {r}

LineKept == /\ lineStatus = settled.lineStatus /\ currentOrder = settled.currentOrder
            /\ submittedBy = settled.submittedBy

LineIs(status, order, by) == lineStatus = status /\ currentOrder = order /\ submittedBy = by

\* The rows once the rest of a plan is written.
Planned(rows, plan) ==
  [o \in DOMAIN rows |-> IF o \in DOMAIN plan THEN [rows[o] EXCEPT !.status = plan[o]]
                                              ELSE rows[o]]

\* moveForwardToNextActionable has been called on the rows base, from order "from" on.
Advancing(q, rows, base, from) ==
  /\ q.order = from
  /\ q.pc = "readSteps" => rows = base
  /\ q.pc = "forward" =>
       /\ DOMAIN q.plan \subseteq DOMAIN rows
       /\ Planned(rows, q.plan) = Forwarded(base, from, q.next)
  /\ q.pc \in {"writeLine", "writeDocument", "logSubmission", "findRequest", "syncRequest",
               "insertRequest"} => rows = Forwarded(base, from, q.next)
  /\ q.pc \in {"forward", "writeLine", "writeDocument", "logSubmission", "findRequest",
               "syncRequest", "insertRequest"} => IsNextActionable(base, from, q.next)

ConfigureDone(q) ==
  /\ settled.documentStatus # "NONE" /\ settled.lineStatus # "IN_REVIEW"
  /\ q.routing \in Routings
  /\ documentStatus = settled.documentStatus /\ requestStatus = settled.requestStatus
  /\ q.pc \in {"createLine", "deleteActions", "deleteSteps", "resetLine", "createSteps"}
  /\ q.pc = "createLine" => lineStatus = "NONE"
  /\ q.pc \in {"createLine", "deleteSteps", "resetLine", "createSteps"} => actions = {}
  /\ q.pc \in {"createLine", "resetLine", "createSteps"} => DOMAIN steps = {}
  /\ q.pc = "createSteps" => LineIs("DRAFT", NoOrder, EmployeeOf[q.user])

SubmitDone(q) ==
  /\ EmployeeOf[q.user] # NoEmployee
  /\ IF q.op = "submit" THEN settled.lineStatus = "DRAFT"
                        ELSE settled.lineStatus \in {"REJECTED", "CANCELED"}
  /\ q.pc \in {"resetSteps", "readSteps", "forward", "writeLine", "writeDocument",
               "logSubmission", "findRequest", "syncRequest"}
  /\ q.pc = "resetSteps" => steps = settled.steps
  /\ Advancing(q, steps, Waiting(settled.steps), NoOrder)
  /\ q.pc \in {"writeDocument", "logSubmission", "findRequest", "syncRequest"} =>
       LineIs(OutcomeOf(q), q.next, EmployeeOf[q.user])
  /\ q.pc \in {"logSubmission", "findRequest", "syncRequest"} => documentStatus = OutcomeOf(q)
  /\ q.pc \in {"findRequest", "syncRequest"} => actions = {}
  /\ requestStatus = settled.requestStatus

\* The routing that stands for a list of approvers, and the rows it is submitted with.
RoutingOf(approvers) ==
  [o \in DOMAIN approvers |-> [type |-> "APPROVE", approver |-> approvers[o]]]

FirstOpen(approvers) ==
  [o \in DOMAIN approvers |-> [type |-> "APPROVE", approver |-> approvers[o],
                               status |-> IF o = 1 THEN "PENDING" ELSE "WAITING"]]

CreateDone(q) ==
  /\ settled.documentStatus = "NONE" /\ EmployeeOf[q.user] # NoEmployee
  /\ \E approvers \in ApproverLists : q.routing = RoutingOf(approvers)
  /\ DOMAIN q.routing = {} => q.pc = "insertRequest" /\ LineKept /\ steps = settled.steps
  /\ q.pc \in {"findLine", "createLine", "createSteps", "readLine", "resetSteps", "readSteps",
               "forward", "writeLine", "writeDocument", "logSubmission", "findRequest",
               "insertRequest"}
  /\ q.pc \in {"findLine", "createLine"} => lineStatus = "NONE"
  /\ q.pc \in {"findLine", "createLine", "createSteps"} => DOMAIN steps = {}
  /\ q.pc \in {"createSteps", "readLine"} => lineStatus = "DRAFT"
  /\ q.pc \in {"readLine", "resetSteps"} => steps = FreshSteps(q.routing)
  /\ DOMAIN q.routing # {} => Advancing(q, steps, FreshSteps(q.routing), NoOrder)
  /\ q.pc \in {"writeDocument", "logSubmission", "findRequest", "insertRequest"}
     /\ DOMAIN q.routing # {} => LineIs(OutcomeOf(q), q.next, EmployeeOf[q.user])
  /\ documentStatus = IF q.pc \in {"logSubmission", "findRequest", "insertRequest"}
                         /\ DOMAIN q.routing # {} THEN OutcomeOf(q) ELSE "DRAFT"
  /\ actions = {} /\ requestStatus = "NONE"

DecisionOf(q) == [type |-> IF q.op = "approve" THEN "APPROVE" ELSE "REJECT",
                  order |-> settled.currentOrder, actor |-> q.user]

ApproveDone(q) ==
  /\ Atomic!MayDecide(q.user)
  /\ q.pc \in {"decideStep", "logDecision", "readSteps", "forward", "writeLine",
               "writeDocument", "findRequest", "syncRequest"}
  /\ q.pc = "decideStep" => steps = settled.steps
  /\ q.pc = "logDecision" => steps = Atomic!Decided("APPROVED")
  /\ Advancing(q, steps, Atomic!Decided("APPROVED"), settled.currentOrder)
  /\ actions = IF q.pc \in {"decideStep", "logDecision"}
               THEN settled.actions ELSE settled.actions \cup {DecisionOf(q)}
  /\ IF q.pc \in {"writeDocument", "findRequest", "syncRequest"}
     THEN LineIs(OutcomeOf(q), q.next, settled.submittedBy)
     ELSE submittedBy = settled.submittedBy
  /\ q.pc = "writeDocument" => q.next = NoOrder
  /\ documentStatus = IF q.pc \in {"findRequest", "syncRequest"} /\ q.next = NoOrder
                      THEN "APPROVED" ELSE settled.documentStatus
  /\ requestStatus = settled.requestStatus

RejectDone(q) ==
  /\ Atomic!MayDecide(q.user) /\ q.order = settled.currentOrder
  /\ q.pc \in {"decideStep", "writeLine", "writeDocument", "logDecision", "findRequest",
               "syncRequest"}
  /\ steps = IF q.pc = "decideStep" THEN settled.steps ELSE Atomic!Decided("REJECTED")
  /\ submittedBy = settled.submittedBy
  /\ q.pc \in {"writeDocument", "logDecision", "findRequest", "syncRequest"} =>
       lineStatus = "REJECTED" /\ currentOrder = NoOrder
  /\ q.pc \in {"logDecision", "findRequest", "syncRequest"} => documentStatus = "REJECTED"
  /\ actions = IF q.pc \in {"findRequest", "syncRequest"}
               THEN settled.actions \cup {DecisionOf(q)} ELSE settled.actions
  /\ requestStatus = settled.requestStatus

CancelDone(q) ==
  /\ Atomic!MayCancel(q.user)
  /\ q.pc \in {"cancelSteps", "writeLine", "writeDocument", "findRequest", "syncRequest"}
  /\ steps = IF q.pc = "cancelSteps" THEN settled.steps ELSE Canceled(settled.steps)
  /\ submittedBy = settled.submittedBy /\ actions = settled.actions
  /\ q.pc \in {"writeDocument", "findRequest", "syncRequest"} =>
       lineStatus = "CANCELED" /\ currentOrder = NoOrder
  /\ q.pc \in {"findRequest", "syncRequest"} => documentStatus = "CANCELED"
  /\ requestStatus = settled.requestStatus

Done(q) ==
  \/ q.op = "configure" /\ ConfigureDone(q)
  \/ q.op \in {"submit", "resubmit"} /\ SubmitDone(q)
  \/ q.op = "create" /\ CreateDone(q)
  \/ q.op = "approve" /\ ApproveDone(q)
  \/ q.op = "reject" /\ RejectDone(q)
  \/ q.op = "cancel" /\ CancelDone(q)

\* The settled database is the one there is.
Current ==
  /\ documentStatus = settled.documentStatus /\ LineKept /\ steps = settled.steps
  /\ actions = settled.actions /\ requestStatus = settled.requestStatus

\* Nothing comes before the document, and neither steps nor actions before the line.
Foundations ==
  /\ settled.documentStatus = "NONE" =>
       settled.lineStatus = "NONE" /\ settled.requestStatus = "NONE"
  /\ settled.lineStatus = "NONE" => DOMAIN settled.steps = {} /\ settled.actions = {}

\* What was settled has its types.
SettledTyped ==
  /\ DOMAIN settled.steps \subseteq Orders /\ settled.steps \in [DOMAIN settled.steps -> Step]
  /\ settled.currentOrder \in Orders \cup {NoOrder}

SerialInv ==
  /\ Foundations /\ SettledTyped
  /\ \A r \in Requests : /\ ~req[r].stale
                         /\ IF req[r].pc = "idle" THEN Current ELSE Done(req[r])

\* What a request has done so far, or the step of Approvals it ends with.
Onward(r) ==
  /\ ~req'[r].stale
  /\ IF req'[r].pc # "idle" THEN settled' = settled => Done(req[r])'
                            ELSE Current' => Atomic!Next

LEMMA SameOperators ==
  /\ \A rows : Atomic!Waiting(rows) = Waiting(rows) /\ Atomic!Canceled(rows) = Canceled(rows)
  /\ \A rows, from, n : /\ Atomic!IsNextActionable(rows, from, n) <=> IsNextActionable(rows, from, n)
                        /\ Atomic!Forwarded(rows, from, n) = Forwarded(rows, from, n)
  /\ \A routing : Atomic!FreshSteps(routing) = FreshSteps(routing)
  /\ \A request, line : Atomic!Synced(request, line) = Synced(request, line)
  /\ Atomic!Routings = Routings /\ Atomic!ApproverLists = ApproverLists
  /\ Atomic!NoOrder = NoOrder
<1>1. \A step : Atomic!IsActionable(step) <=> IsActionable(step)
  BY DEF Atomic!IsActionable, IsActionable
<1>2. Atomic!NoOrder = NoOrder BY DEF Atomic!NoOrder, NoOrder
<1>3. \A rows : Atomic!Waiting(rows) = Waiting(rows) /\ Atomic!Canceled(rows) = Canceled(rows)
  BY DEF Atomic!Waiting, Waiting, Atomic!Canceled, Canceled
<1>4. \A rows, from, n :
        Atomic!IsNextActionable(rows, from, n) <=> IsNextActionable(rows, from, n)
  BY <1>1, <1>2 DEF Atomic!IsNextActionable, IsNextActionable
<1>5. \A rows, from, n : Atomic!Forwarded(rows, from, n) = Forwarded(rows, from, n)
  BY <1>1, <1>2 DEF Atomic!Forwarded, Forwarded
<1>6. \A routing : Atomic!FreshSteps(routing) = FreshSteps(routing)
  BY DEF Atomic!FreshSteps, FreshSteps
<1>7. \A request, line : Atomic!Synced(request, line) = Synced(request, line)
  BY DEF Atomic!Synced, Synced
<1>8. Atomic!Routings = Routings /\ Atomic!ApproverLists = ApproverLists
  BY DEF Atomic!Routings, Routings, Atomic!ApproverLists, ApproverLists
<1> QED BY <1>2, <1>3, <1>4, <1>5, <1>6, <1>7, <1>8

\* The place a request is at decides its statement.
LEMMA AtStatement ==
  ASSUME NEW r \in Requests, Continue(r)
  PROVE  /\ req[r].pc = "findLine" => FindLine(r)
         /\ req[r].pc = "createLine" => CreateLine(r)
         /\ req[r].pc = "deleteActions" => DeleteActions(r)
         /\ req[r].pc = "deleteSteps" => DeleteSteps(r)
         /\ req[r].pc = "resetLine" => ResetLine(r)
         /\ req[r].pc = "createSteps" => CreateSteps(r)
         /\ req[r].pc = "readLine" => ReadLine(r)
         /\ req[r].pc = "resetSteps" => ResetSteps(r)
         /\ req[r].pc = "cancelSteps" => CancelSteps(r)
         /\ req[r].pc = "decideStep" => DecideStep(r)
         /\ req[r].pc = "logDecision" => LogDecision(r)
         /\ req[r].pc = "readSteps" => ReadSteps(r)
         /\ req[r].pc = "forward" => Forward(r)
         /\ req[r].pc = "writeLine" => WriteLine(r)
         /\ req[r].pc = "writeDocument" => WriteDocument(r)
         /\ req[r].pc = "logSubmission" => LogSubmission(r)
         /\ req[r].pc = "findRequest" => FindRequest(r)
         /\ req[r].pc = "syncRequest" => SyncRequest(r)
         /\ req[r].pc = "insertRequest" => InsertRequest(r)
<1>1. /\ FindLine(r) => req[r].pc = "findLine"
      /\ CreateLine(r) => req[r].pc = "createLine"
      /\ DeleteActions(r) => req[r].pc = "deleteActions"
      /\ DeleteSteps(r) => req[r].pc = "deleteSteps"
      /\ ResetLine(r) => req[r].pc = "resetLine"
      /\ CreateSteps(r) => req[r].pc = "createSteps"
      /\ ReadLine(r) => req[r].pc = "readLine"
      /\ ResetSteps(r) => req[r].pc = "resetSteps"
      /\ CancelSteps(r) => req[r].pc = "cancelSteps"
      /\ DecideStep(r) => req[r].pc = "decideStep"
  BY DEF FindLine, CreateLine, DeleteActions, DeleteSteps, ResetLine, CreateSteps, ReadLine,
         ResetSteps, CancelSteps, DecideStep, At
<1>2. /\ LogDecision(r) => req[r].pc = "logDecision"
      /\ ReadSteps(r) => req[r].pc = "readSteps"
      /\ Forward(r) => req[r].pc = "forward"
      /\ WriteLine(r) => req[r].pc = "writeLine"
      /\ WriteDocument(r) => req[r].pc = "writeDocument"
      /\ LogSubmission(r) => req[r].pc = "logSubmission"
      /\ FindRequest(r) => req[r].pc = "findRequest"
      /\ SyncRequest(r) => req[r].pc = "syncRequest"
      /\ InsertRequest(r) => req[r].pc = "insertRequest"
  BY DEF LogDecision, ReadSteps, Forward, WriteLine, WriteDocument, LogSubmission, FindRequest,
         SyncRequest, InsertRequest, At
<1> QED BY <1>1, <1>2 DEF Continue

LEMMA Ended ==
  ASSUME TypeInv, NEW r \in Requests, End(r)
  PROVE  req'[r].pc = "idle" /\ ~req'[r].stale
BY DEF End, TypeInv, Idle

LEMMA Went ==
  ASSUME TypeInv, NEW r \in Requests, req[r].pc # "idle", ~req[r].stale,
         NEW pc \in Statements, Goto(r, pc)
  PROVE  /\ req'[r].pc = pc /\ req'[r].pc # "idle" /\ req'[r].op = req[r].op
         /\ req'[r].order = req[r].order /\ req'[r].next = req[r].next
         /\ req'[r].plan = req[r].plan /\ req'[r].routing = req[r].routing
         /\ req'[r].user = req[r].user /\ ~req'[r].stale
<1>1. pc # "idle" BY DEF Statements
<1> QED BY <1>1, Moving

(***************************************************************************)
(* moveForwardToNextActionable.                                            *)
(***************************************************************************)
LEMMA AdvanceReads ==
  ASSUME TypeInv, NEW r \in Requests, ReadSteps(r), NEW base, NEW from,
         Advancing(req[r], steps, base, from)
  PROVE  /\ Advancing(req'[r], steps', base, from)
         /\ req'[r].pc \in {"forward", "writeLine"} /\ ~req'[r].stale
         /\ req'[r].op = req[r].op /\ req'[r].user = req[r].user
         /\ req'[r].routing = req[r].routing /\ UNCHANGED vars
<1>1. /\ req[r].pc = "readSteps" /\ req \in [Requests -> Record] /\ req[r] \in Record
      /\ steps \in [DOMAIN steps -> Step]
  BY DEF ReadSteps, At, TypeInv, TypeOK
<1>2. steps = base /\ req[r].order = from BY <1>1 DEF Advancing
<1>3. PICK n \in Orders \cup {NoOrder} :
        /\ IsNextActionable(steps, req[r].order, n)
        /\ LET rows == Forwarded(steps, req[r].order, n)
               changed == {o \in DOMAIN steps : rows[o] # steps[o]}
           IN  req' = [req EXCEPT ![r].next = n,
                                  ![r].plan = [o \in changed |-> rows[o].status],
                                  ![r].stale = FALSE,
                                  ![r].pc = IF changed = {} THEN "writeLine" ELSE "forward"]
  BY DEF ReadSteps
<1> DEFINE rows == Forwarded(steps, from, n)
           changed == {o \in DOMAIN steps : rows[o] # steps[o]}
           plan == [o \in changed |-> rows[o].status]
<1>4. req' = [req EXCEPT ![r] = [@ EXCEPT !.next = n, !.plan = plan, !.stale = FALSE,
                                          !.pc = IF changed = {} THEN "writeLine" ELSE "forward"]]
  BY <1>1, <1>2, <1>3
<1> HIDE DEF rows, changed, plan
<1>5. /\ req'[r].next = n /\ req'[r].plan = plan /\ ~req'[r].stale
      /\ req'[r].pc = IF changed = {} THEN "writeLine" ELSE "forward"
      /\ req'[r].op = req[r].op /\ req'[r].user = req[r].user
      /\ req'[r].routing = req[r].routing /\ req'[r].order = req[r].order
  BY <1>1, <1>4 DEF Record
<1>6. DOMAIN plan = changed /\ changed \subseteq DOMAIN steps BY DEF plan, changed
<1>7. rows = [o \in DOMAIN steps |-> rows[o]] BY DEF rows, Forwarded
<1>8. \A o \in DOMAIN steps : rows[o] = IF o \in changed THEN [steps[o] EXCEPT !.status = plan[o]]
                                                          ELSE steps[o]
  <2> SUFFICES ASSUME NEW o \in DOMAIN steps
               PROVE  rows[o] = IF o \in changed THEN [steps[o] EXCEPT !.status = plan[o]]
                                                  ELSE steps[o]
    OBVIOUS
  <2>1. steps[o] \in Step BY <1>1
  <2>2. CASE o \notin changed BY <2>2 DEF changed
  <2>3. CASE o \in changed
    <3>1. plan[o] = rows[o].status /\ rows[o] # steps[o] BY <2>3 DEF plan, changed
    <3>2. \E s \in StepStatuses : rows[o] = [steps[o] EXCEPT !.status = s]
      BY <3>1 DEF rows, Forwarded, StepStatuses
    <3> QED BY <2>1, <2>3, <3>1, <3>2 DEF Step
  <2> QED BY <2>2, <2>3
<1>9. Planned(steps, plan) = rows BY <1>6, <1>7, <1>8 DEF Planned
<1>10. changed = {} => rows = steps BY <1>1, <1>7 DEF changed
<1>11. UNCHANGED vars BY DEF ReadSteps
<1>12. steps' = steps BY <1>11 DEF vars
<1>13. IsNextActionable(base, from, n) /\ rows = Forwarded(base, from, n)
  BY <1>2, <1>3 DEF rows
<1>14. Advancing(req'[r], steps', base, from)
  BY <1>2, <1>5, <1>6, <1>9, <1>10, <1>12, <1>13 DEF Advancing
<1> QED BY <1>5, <1>11, <1>14

LEMMA AdvanceForwards ==
  ASSUME TypeInv, NEW r \in Requests, Forward(r), ~req[r].stale, NEW base, NEW from,
         Advancing(req[r], steps, base, from)
  PROVE  /\ Advancing(req'[r], steps', base, from)
         /\ req'[r].pc \in {"forward", "writeLine"} /\ ~req'[r].stale
         /\ req'[r].op = req[r].op /\ req'[r].user = req[r].user
         /\ req'[r].routing = req[r].routing
         /\ UNCHANGED <<documentStatus, lineStatus, currentOrder, submittedBy, actions,
                        requestStatus>>
<1>1. /\ req[r].pc = "forward" /\ req \in [Requests -> Record] /\ req[r] \in Record
      /\ steps \in [DOMAIN steps -> Step] /\ DOMAIN steps \subseteq Orders
  BY DEF Forward, At, TypeInv, TypeOK
<1> DEFINE plan == req[r].plan
<1>2. /\ DOMAIN plan \subseteq DOMAIN steps
      /\ Planned(steps, plan) = Forwarded(base, from, req[r].next)
      /\ IsNextActionable(base, from, req[r].next) /\ req[r].order = from
  BY <1>1 DEF Advancing
<1>3. PICK o \in DOMAIN plan :
        LET rest == DOMAIN plan \ {o}
        IN  /\ steps' = [steps EXCEPT ![o].status = plan[o]]
            /\ req' = [req EXCEPT ![r].plan = [p \in rest |-> plan[p]],
                                  ![r].pc = IF rest = {} THEN "writeLine" ELSE "forward"]
  BY DEF Forward
<1> DEFINE rest == DOMAIN plan \ {o}
           left == [p \in rest |-> plan[p]]
<1>4. req' = [req EXCEPT ![r] = [@ EXCEPT !.plan = left,
                                          !.pc = IF rest = {} THEN "writeLine" ELSE "forward"]]
  BY <1>1, <1>3
<1>5. /\ req'[r].plan = left /\ req'[r].pc = IF rest = {} THEN "writeLine" ELSE "forward"
      /\ req'[r].op = req[r].op /\ req'[r].user = req[r].user /\ req'[r].next = req[r].next
      /\ req'[r].routing = req[r].routing /\ req'[r].order = req[r].order
      /\ req'[r].stale = req[r].stale
  <2> HIDE DEF left, rest
  <2> QED BY <1>1, <1>4 DEF Record
<1>6. DOMAIN left = rest /\ rest \subseteq DOMAIN steps BY <1>2
<1>7. steps' = [steps EXCEPT ![o] = [@ EXCEPT !.status = plan[o]]] BY <1>1, <1>3
<1>8. /\ DOMAIN steps' = DOMAIN steps /\ steps' = [p \in DOMAIN steps |-> steps'[p]]
      /\ \A p \in DOMAIN steps : steps'[p] = IF p = o THEN [steps[p] EXCEPT !.status = plan[p]]
                                                     ELSE steps[p]
  BY <1>1, <1>7
<1>9. Planned(steps', left) = Planned(steps, plan)
  <2>1. \A p \in DOMAIN steps :
          (IF p \in rest THEN [steps'[p] EXCEPT !.status = left[p]] ELSE steps'[p])
          = (IF p \in DOMAIN plan THEN [steps[p] EXCEPT !.status = plan[p]] ELSE steps[p])
    BY <1>8
  <2> HIDE DEF left, rest, plan
  <2> QED BY <1>6, <1>8, <2>1 DEF Planned
<1>10. rest = {} => steps' = Planned(steps', left)
  <2> HIDE DEF left, rest, plan
  <2> QED BY <1>6, <1>8 DEF Planned
<1>11. Advancing(req'[r], steps', base, from)
  <2> HIDE DEF left, rest, plan
  <2>1. /\ rest # {} => DOMAIN req'[r].plan \subseteq DOMAIN steps'
        /\ Planned(steps', req'[r].plan) = Forwarded(base, from, req'[r].next)
        /\ IsNextActionable(base, from, req'[r].next) /\ req'[r].order = from
    BY <1>2, <1>5, <1>6, <1>8, <1>9 DEF plan
  <2>2. rest = {} => steps' = Forwarded(base, from, req'[r].next)
    BY <1>5, <1>10, <2>1
  <2> QED BY <1>5, <2>1, <2>2 DEF Advancing
<1>12. UNCHANGED <<documentStatus, lineStatus, currentOrder, submittedBy, actions, requestStatus>>
  BY DEF Forward
<1> QED BY <1>5, <1>11, <1>12

LEMMA AdvancingGoes ==
  ASSUME NEW r \in Requests, NEW base, NEW from, Advancing(req[r], steps, base, from),
         steps' = steps, req'[r].order = req[r].order, req'[r].next = req[r].next,
         req[r].pc \in {"writeLine", "writeDocument", "logSubmission", "findRequest", "syncRequest"},
         req'[r].pc \in {"writeLine", "writeDocument", "logSubmission", "findRequest",
                         "syncRequest", "insertRequest"}
  PROVE  Advancing(req'[r], steps', base, from)
BY DEF Advancing

\* What kind of step a row is does not change with its status.
LEMMA SameNext ==
  ASSUME NEW a, NEW b, DOMAIN a = DOMAIN b, \A o \in DOMAIN a : a[o].type = b[o].type,
         NEW from, NEW n, IsNextActionable(a, from, n)
  PROVE  IsNextActionable(b, from, n)
<1>1. {o \in DOMAIN a : o > from /\ IsActionable(a[o])}
      = {o \in DOMAIN b : o > from /\ IsActionable(b[o])}
  BY DEF IsActionable
<1> QED BY <1>1 DEF IsNextActionable

\* syncBusinessStatusForDocument reads the linked row.
LEMMA Finds ==
  ASSUME TypeInv, NEW r \in Requests, FindRequest(r), ~req[r].stale
  PROVE  /\ UNCHANGED vars /\ ~req'[r].stale
         /\ \/ /\ req'[r].pc = "idle" /\ req[r].op # "create"
               /\ Synced(requestStatus, Outcome(r)) = requestStatus
            \/ /\ req'[r].pc \in {"syncRequest", "insertRequest"}
               /\ req'[r].pc = "insertRequest" <=> Synced(requestStatus, Outcome(r)) = requestStatus
               /\ req'[r].pc = "insertRequest" => req[r].op = "create"
               /\ req'[r].op = req[r].op /\ req'[r].order = req[r].order
               /\ req'[r].next = req[r].next /\ req'[r].routing = req[r].routing
               /\ req'[r].user = req[r].user
<1>1. req[r].pc = "findRequest" /\ UNCHANGED vars BY DEF FindRequest, At
<1>2. req[r].pc # "idle" /\ {"syncRequest", "insertRequest"} \subseteq Statements
  BY <1>1 DEF Statements
<1>3. CASE Goto(r, "syncRequest") /\ Synced(requestStatus, Outcome(r)) # requestStatus
  BY <1>1, <1>2, <1>3, Went
<1>4. CASE Goto(r, "insertRequest") /\ Synced(requestStatus, Outcome(r)) = requestStatus
           /\ req[r].op = "create"
  BY <1>1, <1>2, <1>4, Went
<1>5. CASE End(r) /\ Synced(requestStatus, Outcome(r)) = requestStatus /\ req[r].op # "create"
  BY <1>1, <1>5, Ended
<1> QED BY <1>3, <1>4, <1>5 DEF FindRequest

(***************************************************************************)
(* The operations, one by one.                                             *)
(***************************************************************************)
LEMMA ConfigureAdds ==
  ASSUME TypeInv, Foundations, NEW r \in Requests, Continue(r), ~req[r].stale,
         req[r].op = "configure", ConfigureDone(req[r])
  PROVE  Onward(r)
<1> DEFINE q == req[r]
           p == req'[r]
<1>1. q.pc # "idle" /\ q.user \in Users BY InFlightUser DEF ConfigureDone
<1>2. /\ settled.documentStatus # "NONE" /\ settled.lineStatus # "IN_REVIEW"
      /\ q.routing \in Routings
      /\ documentStatus = settled.documentStatus /\ requestStatus = settled.requestStatus
  BY DEF ConfigureDone
<1>3. ASSUME NEW pc \in {"deleteSteps", "resetLine", "createSteps"}, Goto(r, pc),
             documentStatus' = documentStatus, requestStatus' = requestStatus, actions' = {},
             pc # "deleteSteps" => DOMAIN steps' = {},
             pc = "createSteps" => /\ lineStatus' = "DRAFT" /\ currentOrder' = NoOrder
                                   /\ submittedBy' = EmployeeOf[q.user]
      PROVE  Onward(r)
  <2>1. pc \in Statements BY DEF Statements
  <2>2. /\ p.pc = pc /\ p.pc # "idle" /\ p.op = q.op /\ p.routing = q.routing /\ p.user = q.user
        /\ ~p.stale
    BY <1>1, <1>3, <2>1, Went
  <2>3. settled' = settled => ConfigureDone(req[r])'
    BY <1>2, <1>3, <2>2 DEF ConfigureDone, LineIs
  <2> QED BY <2>2, <2>3 DEF Onward, Done
<1>4. CASE q.pc = "createLine"
  <2>1. CreateLine(r) BY <1>4, AtStatement
  <2>2. lineStatus = "NONE" /\ actions = {} /\ DOMAIN steps = {} BY <1>4 DEF ConfigureDone
  <2>3. /\ Goto(r, "createSteps") /\ lineStatus' = "DRAFT" /\ currentOrder' = NoOrder
        /\ submittedBy' = EmployeeOf[q.user]
        /\ UNCHANGED <<documentStatus, steps, actions, requestStatus>>
    BY <2>1, <2>2 DEF CreateLine
  <2> QED BY <1>3, <2>2, <2>3
<1>5. CASE q.pc = "deleteActions"
  <2>1. DeleteActions(r) BY <1>5, AtStatement
  <2> QED BY <1>3, <2>1 DEF DeleteActions
<1>6. CASE q.pc = "deleteSteps"
  <2>1. DeleteSteps(r) BY <1>6, AtStatement
  <2>2. actions = {} BY <1>6 DEF ConfigureDone
  <2>3. p = [q EXCEPT !.pc = "resetLine"] /\ q \in Record
    BY <2>1 DEF DeleteSteps, TypeInv
  <2>4. /\ p.pc = "resetLine" /\ p.op = q.op /\ p.routing = q.routing /\ p.user = q.user
        /\ ~p.stale
    BY <2>3 DEF Record
  <2>5. DOMAIN steps' = {} BY <2>1, NothingRouted DEF DeleteSteps
  <2>6. settled' = settled => ConfigureDone(req[r])'
    BY <1>2, <2>1, <2>2, <2>4, <2>5 DEF ConfigureDone, DeleteSteps
  <2> QED BY <2>4, <2>6 DEF Onward, Done
<1>7. CASE q.pc = "resetLine"
  <2>1. ResetLine(r) BY <1>7, AtStatement
  <2>2. actions = {} /\ DOMAIN steps = {} BY <1>7 DEF ConfigureDone
  <2> QED BY <1>3, <2>1, <2>2 DEF ResetLine
<1>8. CASE q.pc = "createSteps"
  <2>1. CreateSteps(r) BY <1>8, AtStatement
  <2>2. actions = {} /\ DOMAIN steps = {} /\ LineIs("DRAFT", NoOrder, EmployeeOf[q.user])
    BY <1>8 DEF ConfigureDone
  <2>3. /\ End(r) /\ steps' = FreshSteps(q.routing)
        /\ UNCHANGED <<documentStatus, lineStatus, currentOrder, submittedBy, actions, requestStatus>>
    BY <2>1, <2>2 DEF CreateSteps, FreshSteps
  <2>4. Current' => Atomic!ConfigureLine(q.user, q.routing)
    BY <1>2, <2>2, <2>3, SameOperators DEF Current, LineKept, LineIs, Atomic!ConfigureLine
  <2>5. Current' => Atomic!Next
    BY <1>1, <1>2, <2>4, SameOperators DEF Atomic!Next
  <2> QED BY <2>3, <2>5, Ended DEF Onward
<1> QED BY <1>4, <1>5, <1>6, <1>7, <1>8 DEF ConfigureDone

\* What submit and resubmit have changed makes one StartReview.
LEMMA ReviewStarted ==
  ASSUME TypeInv, SettledTyped, NEW r \in Requests,
         req[r].pc \in {"findRequest", "syncRequest"},
         req[r].op \in {"submit", "resubmit"}, SubmitDone(req[r]), req[r].user \in Users,
         UNCHANGED <<documentStatus, lineStatus, currentOrder, submittedBy, steps, actions>>,
         requestStatus' = Synced(requestStatus, Outcome(r)), Current'
  PROVE  Atomic!Next
<1> DEFINE q == req[r]
           n == q.next
<1>1. /\ LineIs(OutcomeOf(q), n, EmployeeOf[q.user]) /\ documentStatus = OutcomeOf(q)
      /\ actions = {} /\ requestStatus = settled.requestStatus /\ EmployeeOf[q.user] # NoEmployee
      /\ Advancing(q, steps, Waiting(settled.steps), NoOrder)
  BY DEF SubmitDone
<1>2. Outcome(r) = OutcomeOf(q) BY DEF Outcome, OutcomeOf
<1>3. /\ steps = Forwarded(Waiting(settled.steps), NoOrder, n)
      /\ IsNextActionable(Waiting(settled.steps), NoOrder, n)
  BY <1>1 DEF Advancing
<1>4. IsNextActionable(settled.steps, NoOrder, n)
  <2>1. /\ DOMAIN Waiting(settled.steps) = DOMAIN settled.steps
        /\ \A o \in DOMAIN settled.steps : Waiting(settled.steps)[o].type = settled.steps[o].type
    BY DEF SettledTyped, Waiting, Step
  <2> QED BY <1>3, <2>1, SameNext
<1>5. n \in Orders \cup {NoOrder} BY DEF TypeInv, Record
<1>6. /\ settled'.documentStatus = OutcomeOf(q) /\ settled'.lineStatus = OutcomeOf(q)
      /\ settled'.currentOrder = n /\ settled'.submittedBy = EmployeeOf[q.user]
      /\ settled'.steps = Forwarded(Waiting(settled.steps), NoOrder, n)
      /\ settled'.actions = {}
      /\ settled'.requestStatus = Synced(settled.requestStatus, OutcomeOf(q))
  BY <1>1, <1>2, <1>3 DEF Current, LineKept, LineIs
<1>7. \E m \in Orders \cup {Atomic!NoOrder} :
        /\ Atomic!IsNextActionable(settled.steps, 0, m)
        /\ settled'.steps = Atomic!Forwarded(Atomic!Waiting(settled.steps), 0, m)
        /\ settled'.lineStatus = IF m = Atomic!NoOrder THEN "APPROVED" ELSE "IN_REVIEW"
        /\ settled'.currentOrder = m
  <2>1. /\ Atomic!IsNextActionable(settled.steps, 0, n)
        /\ settled'.steps = Atomic!Forwarded(Atomic!Waiting(settled.steps), 0, n)
    BY <1>4, <1>6, SameOperators DEF NoOrder
  <2>2. settled'.lineStatus = IF n = Atomic!NoOrder THEN "APPROVED" ELSE "IN_REVIEW"
    BY <1>6, SameOperators DEF OutcomeOf
  <2> QED BY <1>5, <1>6, <2>1, <2>2, SameOperators
<1>8. Atomic!StartReview(q.user)
  BY <1>1, <1>6, <1>7, SameOperators DEF Atomic!StartReview
<1>9. Atomic!Submit(q.user) \/ Atomic!Resubmit(q.user)
  BY <1>8 DEF SubmitDone, Atomic!Submit, Atomic!Resubmit
<1> QED BY <1>9 DEF Atomic!Next

LEMMA SubmitAdds ==
  ASSUME TypeInv, SettledTyped, NEW r \in Requests, Continue(r), ~req[r].stale,
         req[r].op \in {"submit", "resubmit"}, SubmitDone(req[r])
  PROVE  Onward(r)
<1> DEFINE q == req[r]
           p == req'[r]
           base == Waiting(settled.steps)
<1>1. q.pc # "idle" /\ q.user \in Users BY InFlightUser DEF SubmitDone
<1>2. /\ EmployeeOf[q.user] # NoEmployee
      /\ IF q.op = "submit" THEN settled.lineStatus = "DRAFT"
                            ELSE settled.lineStatus \in {"REJECTED", "CANCELED"}
      /\ Advancing(q, steps, base, NoOrder) /\ requestStatus = settled.requestStatus
  BY DEF SubmitDone
<1>3. Outcome(r) = OutcomeOf(q) /\ Submits(r) BY DEF Outcome, OutcomeOf, Submits
<1>4. ASSUME p.pc \in {"readSteps", "forward", "writeLine", "writeDocument", "logSubmission",
                       "findRequest", "syncRequest"},
             p.op = q.op, p.user = q.user, ~p.stale,
             Advancing(p, steps', base, NoOrder), requestStatus' = requestStatus,
             p.pc \in {"writeDocument", "logSubmission", "findRequest", "syncRequest"} =>
               /\ lineStatus' = OutcomeOf(p) /\ currentOrder' = p.next
               /\ submittedBy' = EmployeeOf[p.user],
             p.pc \in {"logSubmission", "findRequest", "syncRequest"} =>
               documentStatus' = OutcomeOf(p),
             p.pc \in {"findRequest", "syncRequest"} => actions' = {}
      PROVE  Onward(r)
  <2>1. settled' = settled => SubmitDone(req[r])'
    BY <1>2, <1>4 DEF SubmitDone, LineIs, OutcomeOf
  <2> QED BY <1>4, <2>1 DEF Onward, Done
<1>5. CASE q.pc = "resetSteps"
  <2>1. ResetSteps(r) BY <1>5, AtStatement
  <2>2. steps = settled.steps /\ q.order = NoOrder BY <1>2, <1>5 DEF SubmitDone, Advancing
  <2>3. Goto(r, "readSteps") /\ "readSteps" \in Statements BY <2>1 DEF ResetSteps, Statements
  <2>4. /\ p.pc = "readSteps" /\ p.op = q.op /\ p.user = q.user /\ ~p.stale /\ p.order = q.order
    BY <1>1, <2>3, Went
  <2>5. Advancing(p, steps', base, NoOrder) BY <2>1, <2>2, <2>4 DEF ResetSteps, Advancing
  <2> QED BY <1>4, <2>1, <2>4, <2>5 DEF ResetSteps
<1>6. CASE q.pc = "readSteps"
  <2>1. ReadSteps(r) BY <1>6, AtStatement
  <2>2. /\ Advancing(p, steps', base, NoOrder) /\ p.pc \in {"forward", "writeLine"} /\ ~p.stale
        /\ p.op = q.op /\ p.user = q.user /\ UNCHANGED vars
    BY <1>2, <2>1, AdvanceReads
  <2> QED BY <1>4, <2>2 DEF vars
<1>7. CASE q.pc = "forward"
  <2>1. Forward(r) BY <1>7, AtStatement
  <2>2. /\ Advancing(p, steps', base, NoOrder) /\ p.pc \in {"forward", "writeLine"} /\ ~p.stale
        /\ p.op = q.op /\ p.user = q.user /\ requestStatus' = requestStatus
    BY <1>2, <2>1, AdvanceForwards
  <2> QED BY <1>4, <2>2
<1>8. ASSUME NEW pc \in {"writeDocument", "logSubmission", "findRequest"}, Goto(r, pc),
             q.pc \in {"writeLine", "writeDocument", "logSubmission"}, steps' = steps
      PROVE  /\ p.pc = pc /\ p.op = q.op /\ p.user = q.user /\ ~p.stale /\ p.next = q.next
             /\ Advancing(p, steps', base, NoOrder)
  <2>1. pc \in Statements BY DEF Statements
  <2>2. /\ p.pc = pc /\ p.op = q.op /\ p.user = q.user /\ ~p.stale /\ p.next = q.next
        /\ p.order = q.order
    BY <1>1, <1>8, <2>1, Went
  <2> QED BY <1>2, <1>8, <2>2, AdvancingGoes
<1>9. CASE q.pc = "writeLine"
  <2>1. WriteLine(r) BY <1>9, AtStatement
  <2>2. /\ Goto(r, "writeDocument") /\ steps' = steps /\ requestStatus' = requestStatus
        /\ lineStatus' = OutcomeOf(q) /\ currentOrder' = q.next
        /\ submittedBy' = EmployeeOf[q.user]
    BY <1>3, <2>1 DEF WriteLine, Submits, OutcomeOf
  <2>3. /\ p.pc = "writeDocument" /\ p.op = q.op /\ p.user = q.user /\ ~p.stale /\ p.next = q.next
        /\ Advancing(p, steps', base, NoOrder)
    BY <1>8, <1>9, <2>2
  <2> QED BY <1>4, <2>2, <2>3 DEF OutcomeOf
<1>10. CASE q.pc \in {"writeDocument", "logSubmission", "findRequest", "syncRequest"}
  <2>0. lineStatus = OutcomeOf(q) /\ currentOrder = q.next /\ submittedBy = EmployeeOf[q.user]
    BY <1>10 DEF SubmitDone, LineIs
  <2>1. CASE q.pc = "writeDocument"
    <3>1. WriteDocument(r) BY <2>1, AtStatement
    <3>2. /\ Goto(r, "logSubmission") /\ documentStatus' = OutcomeOf(q)
          /\ UNCHANGED <<lineStatus, currentOrder, submittedBy, steps, requestStatus>>
      BY <1>3, <3>1 DEF WriteDocument
    <3>3. /\ p.pc = "logSubmission" /\ p.op = q.op /\ p.user = q.user /\ ~p.stale
          /\ p.next = q.next /\ Advancing(p, steps', base, NoOrder)
      BY <1>8, <2>1, <3>2
    <3> QED BY <1>4, <2>0, <3>2, <3>3 DEF OutcomeOf
  <2>2. CASE q.pc = "logSubmission"
    <3>1. LogSubmission(r) BY <2>2, AtStatement
    <3>2. documentStatus = OutcomeOf(q) BY <2>2 DEF SubmitDone
    <3>3. /\ Goto(r, "findRequest") /\ actions' = {}
          /\ UNCHANGED <<documentStatus, lineStatus, currentOrder, submittedBy, steps,
                         requestStatus>>
      BY <3>1 DEF LogSubmission
    <3>4. /\ p.pc = "findRequest" /\ p.op = q.op /\ p.user = q.user /\ ~p.stale
          /\ p.next = q.next /\ Advancing(p, steps', base, NoOrder)
      BY <1>8, <2>2, <3>3
    <3> QED BY <1>4, <2>0, <3>2, <3>3, <3>4 DEF OutcomeOf
  <2>3. CASE q.pc = "findRequest"
    <3>1. FindRequest(r) BY <2>3, AtStatement
    <3>2. UNCHANGED vars /\ ~p.stale BY <3>1, Finds
    <3>3. \/ p.pc = "idle" /\ Synced(requestStatus, Outcome(r)) = requestStatus
          \/ /\ p.pc = "syncRequest" /\ p.op = q.op /\ p.user = q.user
             /\ p.next = q.next /\ p.order = q.order
      BY <3>1, Finds
    <3>4. CASE p.pc = "idle" /\ Synced(requestStatus, Outcome(r)) = requestStatus
      <4>1. Current' => Atomic!Next
        BY <1>1, <2>3, <3>2, <3>4, ReviewStarted DEF vars
      <4> QED BY <3>2, <3>4, <4>1 DEF Onward
    <3>5. CASE /\ p.pc = "syncRequest" /\ p.op = q.op /\ p.user = q.user
               /\ p.next = q.next /\ p.order = q.order
      <4>1. documentStatus = OutcomeOf(q) /\ actions = {} BY <2>3 DEF SubmitDone
      <4>2. Advancing(p, steps', base, NoOrder)
        BY <1>2, <2>3, <3>2, <3>5, AdvancingGoes DEF vars
      <4> QED BY <1>4, <2>0, <3>2, <3>5, <4>1, <4>2 DEF OutcomeOf, vars
    <3> QED BY <3>3, <3>4, <3>5
  <2>4. CASE q.pc = "syncRequest"
    <3>1. SyncRequest(r) BY <2>4, AtStatement
    <3>2. Current' => Atomic!Next BY <1>1, <2>4, <3>1, ReviewStarted DEF SyncRequest
    <3> QED BY <3>1, <3>2, Ended DEF Onward, SyncRequest
  <2> QED BY <1>10, <2>1, <2>2, <2>3, <2>4
<1> QED BY <1>5, <1>6, <1>7, <1>9, <1>10 DEF SubmitDone

LEMMA DecidedRows ==
  ASSUME SettledTyped, NEW status \in StepStatuses
  PROVE  /\ DOMAIN Atomic!Decided(status) = DOMAIN settled.steps
         /\ \A o \in DOMAIN settled.steps :
              Atomic!Decided(status)[o].type = settled.steps[o].type
<1>1. settled.steps \in [DOMAIN settled.steps -> Step] BY DEF SettledTyped
<1>2. Atomic!Decided(status)
      = [settled.steps EXCEPT ![settled.currentOrder] = [@ EXCEPT !.status = status]]
  BY <1>1 DEF Atomic!Decided
<1>3. DOMAIN Atomic!Decided(status) = DOMAIN settled.steps BY <1>1, <1>2
<1>4. \A o \in DOMAIN settled.steps :
        Atomic!Decided(status)[o] = IF o = settled.currentOrder
                                    THEN [settled.steps[o] EXCEPT !.status = status]
                                    ELSE settled.steps[o]
  BY <1>1, <1>2
<1>5. \A o \in DOMAIN settled.steps : Atomic!Decided(status)[o].type = settled.steps[o].type
  BY <1>1, <1>4 DEF Step
<1> QED BY <1>3, <1>5

\* What approve has changed makes one Approve.
LEMMA Approved ==
  ASSUME TypeInv, SettledTyped, NEW r \in Requests,
         req[r].pc \in {"findRequest", "syncRequest"},
         req[r].op = "approve", ApproveDone(req[r]), req[r].user \in Users,
         UNCHANGED <<documentStatus, lineStatus, currentOrder, submittedBy, steps, actions>>,
         requestStatus' = Synced(requestStatus, Outcome(r)), Current'
  PROVE  Atomic!Next
<1> DEFINE q == req[r]
           n == q.next
           base == Atomic!Decided("APPROVED")
           from == settled.currentOrder
<1>1. /\ LineIs(OutcomeOf(q), n, settled.submittedBy) /\ Atomic!MayDecide(q.user)
      /\ documentStatus = IF n = NoOrder THEN "APPROVED" ELSE settled.documentStatus
      /\ actions = settled.actions \cup {DecisionOf(q)}
      /\ requestStatus = settled.requestStatus
      /\ Advancing(q, steps, base, from)
  BY DEF ApproveDone
<1>2. Outcome(r) = OutcomeOf(q) BY DEF Outcome, OutcomeOf
<1>3. steps = Forwarded(base, from, n) /\ IsNextActionable(base, from, n)
  BY <1>1 DEF Advancing
<1>4. IsNextActionable(settled.steps, from, n)
  <2>1. "APPROVED" \in StepStatuses BY DEF StepStatuses
  <2> QED BY <1>3, <2>1, DecidedRows, SameNext
<1>5. n \in Orders \cup {NoOrder} BY DEF TypeInv, Record
<1>6. /\ settled'.documentStatus = IF n = NoOrder THEN "APPROVED" ELSE settled.documentStatus
      /\ settled'.lineStatus = OutcomeOf(q)
      /\ settled'.currentOrder = n /\ settled'.submittedBy = settled.submittedBy
      /\ settled'.steps = Forwarded(base, from, n)
      /\ settled'.actions = settled.actions \cup {DecisionOf(q)}
      /\ settled'.requestStatus = Synced(settled.requestStatus, OutcomeOf(q))
  BY <1>1, <1>2, <1>3 DEF Current, LineKept, LineIs
<1>7. DecisionOf(q) = [type |-> "APPROVE", order |-> from, actor |-> q.user]
  BY DEF DecisionOf
<1>8. \E m \in Orders \cup {Atomic!NoOrder} :
        /\ Atomic!IsNextActionable(settled.steps, from, m)
        /\ settled'.steps = Atomic!Forwarded(base, from, m)
        /\ settled'.lineStatus = IF m = Atomic!NoOrder THEN "APPROVED" ELSE "IN_REVIEW"
        /\ settled'.currentOrder = m
        /\ settled'.documentStatus = IF m = Atomic!NoOrder THEN "APPROVED"
                                     ELSE settled.documentStatus
  <2>1. /\ Atomic!IsNextActionable(settled.steps, from, n)
        /\ settled'.steps = Atomic!Forwarded(base, from, n)
    BY <1>4, <1>6, SameOperators
  <2>2. settled'.lineStatus = IF n = Atomic!NoOrder THEN "APPROVED" ELSE "IN_REVIEW"
    BY <1>6, SameOperators DEF OutcomeOf
  <2> QED BY <1>5, <1>6, <2>1, <2>2, SameOperators
<1>9. Atomic!Approve(q.user)
  BY <1>1, <1>6, <1>7, <1>8, SameOperators DEF Atomic!Approve
<1> QED BY <1>9 DEF Atomic!Next

LEMMA ApproveAdds ==
  ASSUME TypeInv, SettledTyped, NEW r \in Requests, Continue(r), ~req[r].stale,
         req[r].op = "approve", ApproveDone(req[r])
  PROVE  Onward(r)
<1> DEFINE q == req[r]
           p == req'[r]
           base == Atomic!Decided("APPROVED")
           from == settled.currentOrder
<1>1. q.pc # "idle" /\ q.user \in Users BY InFlightUser DEF ApproveDone
<1>2. /\ Atomic!MayDecide(q.user) /\ Advancing(q, steps, base, from)
      /\ requestStatus = settled.requestStatus
  BY DEF ApproveDone
<1>3. Outcome(r) = OutcomeOf(q) /\ ~Submits(r) BY DEF Outcome, OutcomeOf, Submits
<1>4. ASSUME p.pc \in {"logDecision", "readSteps", "forward", "writeLine", "writeDocument",
                       "findRequest", "syncRequest"},
             p.op = q.op, p.user = q.user, ~p.stale,
             Advancing(p, steps', base, from), requestStatus' = requestStatus,
             p.pc = "logDecision" => steps' = base,
             actions' = IF p.pc = "logDecision"
                        THEN settled.actions ELSE settled.actions \cup {DecisionOf(q)},
             submittedBy' = settled.submittedBy,
             p.pc \in {"writeDocument", "findRequest", "syncRequest"} =>
               lineStatus' = OutcomeOf(p) /\ currentOrder' = p.next,
             p.pc = "writeDocument" => p.next = NoOrder,
             documentStatus' = IF p.pc \in {"findRequest", "syncRequest"} /\ p.next = NoOrder
                               THEN "APPROVED" ELSE settled.documentStatus
      PROVE  Onward(r)
  <2>1. ASSUME settled' = settled PROVE ApproveDone(req[r])'
    <3>1. Atomic!MayDecide(q.user)' BY <1>2, <1>4, <2>1 DEF Atomic!MayDecide
    <3>2. base' = base /\ DecisionOf(q)' = DecisionOf(q)
      BY <1>4, <2>1 DEF Atomic!Decided, DecisionOf
    <3> HIDE DEF base
    <3>3. Advancing(p, steps', base', from') BY <1>4, <2>1, <3>2
    <3> QED BY <1>2, <1>4, <2>1, <3>1, <3>2, <3>3 DEF ApproveDone, LineIs, OutcomeOf, base
  <2> QED BY <1>4, <2>1 DEF Onward, Done
<1>5. CASE q.pc = "decideStep"
  <2>1. DecideStep(r) BY <1>5, AtStatement
  <2>2. /\ steps = settled.steps /\ q.order = from /\ actions = settled.actions
        /\ submittedBy = settled.submittedBy /\ documentStatus = settled.documentStatus
    BY <1>2, <1>5 DEF ApproveDone, Advancing
  <2>3. Goto(r, "logDecision") /\ "logDecision" \in Statements
    BY <2>1 DEF DecideStep, Statements
  <2>4. /\ p.pc = "logDecision" /\ p.op = q.op /\ p.user = q.user /\ ~p.stale
        /\ p.order = q.order
    BY <1>1, <2>3, Went
  <2>5. steps' = base BY <2>1, <2>2 DEF DecideStep, Atomic!Decided
  <2>6. Advancing(p, steps', base, from) BY <2>2, <2>4 DEF Advancing
  <2> QED BY <1>4, <2>1, <2>2, <2>4, <2>5, <2>6 DEF DecideStep
<1>6. CASE q.pc = "logDecision"
  <2>1. LogDecision(r) BY <1>6, AtStatement
  <2>2. /\ steps = base /\ q.order = from /\ actions = settled.actions
        /\ submittedBy = settled.submittedBy /\ documentStatus = settled.documentStatus
    BY <1>2, <1>6 DEF ApproveDone, Advancing
  <2>3. Goto(r, "readSteps") /\ "readSteps" \in Statements
    BY <2>1 DEF LogDecision, Statements
  <2>4. /\ p.pc = "readSteps" /\ p.op = q.op /\ p.user = q.user /\ ~p.stale
        /\ p.order = q.order
    BY <1>1, <2>3, Went
  <2>5. actions' = settled.actions \cup {DecisionOf(q)}
    BY <2>1, <2>2 DEF LogDecision, DecisionOf
  <2>6. Advancing(p, steps', base, from) BY <2>1, <2>2, <2>4 DEF LogDecision, Advancing
  <2> QED BY <1>4, <2>1, <2>2, <2>4, <2>5, <2>6 DEF LogDecision
<1>7. CASE q.pc \in {"readSteps", "forward"}
  <2>1. /\ actions = settled.actions \cup {DecisionOf(q)}
        /\ submittedBy = settled.submittedBy /\ documentStatus = settled.documentStatus
    BY <1>7 DEF ApproveDone
  <2>2. /\ Advancing(p, steps', base, from) /\ p.pc \in {"forward", "writeLine"} /\ ~p.stale
        /\ p.op = q.op /\ p.user = q.user
        /\ UNCHANGED <<documentStatus, submittedBy, actions, requestStatus>>
    <3>1. CASE q.pc = "readSteps" BY <1>2, <3>1, AtStatement, AdvanceReads DEF vars
    <3>2. CASE q.pc = "forward" BY <1>2, <3>2, AtStatement, AdvanceForwards
    <3> QED BY <1>7, <3>1, <3>2
  <2> QED BY <1>4, <2>1, <2>2
<1>8. ASSUME NEW pc \in {"writeDocument", "findRequest"}, Goto(r, pc),
             q.pc \in {"writeLine", "writeDocument"}, steps' = steps
      PROVE  /\ p.pc = pc /\ p.op = q.op /\ p.user = q.user /\ ~p.stale /\ p.next = q.next
             /\ Advancing(p, steps', base, from)
  <2>1. pc \in Statements BY DEF Statements
  <2>2. /\ p.pc = pc /\ p.op = q.op /\ p.user = q.user /\ ~p.stale /\ p.next = q.next
        /\ p.order = q.order
    BY <1>1, <1>8, <2>1, Went
  <2> QED BY <1>2, <1>8, <2>2, AdvancingGoes
<1>9. CASE q.pc = "writeLine"
  <2>1. WriteLine(r) BY <1>9, AtStatement
  <2>2. /\ actions = settled.actions \cup {DecisionOf(q)}
        /\ submittedBy = settled.submittedBy /\ documentStatus = settled.documentStatus
    BY <1>9 DEF ApproveDone
  <2>3. /\ Goto(r, IF q.next = NoOrder THEN "writeDocument" ELSE "findRequest")
        /\ steps' = steps /\ requestStatus' = requestStatus /\ submittedBy' = submittedBy
        /\ lineStatus' = OutcomeOf(q) /\ currentOrder' = q.next
        /\ documentStatus' = documentStatus /\ actions' = actions
    BY <1>3, <2>1 DEF WriteLine, OutcomeOf
  <2>4. /\ p.pc = IF q.next = NoOrder THEN "writeDocument" ELSE "findRequest"
        /\ p.op = q.op /\ p.user = q.user /\ ~p.stale /\ p.next = q.next
        /\ Advancing(p, steps', base, from)
    BY <1>8, <1>9, <2>3
  <2> QED BY <1>4, <2>2, <2>3, <2>4 DEF OutcomeOf
<1>10. CASE q.pc \in {"writeDocument", "findRequest", "syncRequest"}
  <2>0. /\ lineStatus = OutcomeOf(q) /\ currentOrder = q.next
        /\ submittedBy = settled.submittedBy /\ actions = settled.actions \cup {DecisionOf(q)}
    BY <1>10 DEF ApproveDone, LineIs
  <2>1. CASE q.pc = "writeDocument"
    <3>1. WriteDocument(r) /\ q.next = NoOrder BY <2>1, AtStatement DEF ApproveDone
    <3>2. /\ Goto(r, "findRequest") /\ documentStatus' = "APPROVED"
          /\ UNCHANGED <<lineStatus, currentOrder, submittedBy, steps, actions, requestStatus>>
      BY <1>3, <3>1 DEF WriteDocument, OutcomeOf
    <3>3. /\ p.pc = "findRequest" /\ p.op = q.op /\ p.user = q.user /\ ~p.stale
          /\ p.next = q.next /\ Advancing(p, steps', base, from)
      BY <1>8, <2>1, <3>2
    <3> QED BY <1>4, <2>0, <3>1, <3>2, <3>3 DEF OutcomeOf
  <2>2. CASE q.pc = "findRequest"
    <3>1. FindRequest(r) BY <2>2, AtStatement
    <3>2. UNCHANGED vars /\ ~p.stale BY <3>1, Finds
    <3>3. \/ p.pc = "idle" /\ Synced(requestStatus, Outcome(r)) = requestStatus
          \/ /\ p.pc = "syncRequest" /\ p.op = q.op /\ p.user = q.user
             /\ p.next = q.next /\ p.order = q.order
      BY <3>1, Finds
    <3>4. CASE p.pc = "idle" /\ Synced(requestStatus, Outcome(r)) = requestStatus
      <4>1. Current' => Atomic!Next
        BY <1>1, <2>2, <3>2, <3>4, Approved DEF vars
      <4> QED BY <3>2, <3>4, <4>1 DEF Onward
    <3>5. CASE /\ p.pc = "syncRequest" /\ p.op = q.op /\ p.user = q.user
               /\ p.next = q.next /\ p.order = q.order
      <4>1. documentStatus = IF q.next = NoOrder THEN "APPROVED" ELSE settled.documentStatus
        BY <2>2 DEF ApproveDone
      <4>2. Advancing(p, steps', base, from)
        BY <1>2, <2>2, <3>2, <3>5, AdvancingGoes DEF vars
      <4> QED BY <1>4, <2>0, <3>2, <3>5, <4>1, <4>2 DEF OutcomeOf, vars
    <3> QED BY <3>3, <3>4, <3>5
  <2>3. CASE q.pc = "syncRequest"
    <3>1. SyncRequest(r) BY <2>3, AtStatement
    <3>2. Current' => Atomic!Next BY <1>1, <2>3, <3>1, Approved DEF SyncRequest
    <3> QED BY <3>1, <3>2, Ended DEF Onward, SyncRequest
  <2> QED BY <1>10, <2>1, <2>2, <2>3
<1> QED BY <1>5, <1>6, <1>7, <1>9, <1>10 DEF ApproveDone

\* What reject has changed makes one Reject.
LEMMA Rejected ==
  ASSUME NEW r \in Requests, req[r].pc \in {"findRequest", "syncRequest"},
         req[r].op = "reject", RejectDone(req[r]), req[r].user \in Users,
         UNCHANGED <<documentStatus, lineStatus, currentOrder, submittedBy, steps, actions>>,
         requestStatus' = Synced(requestStatus, Outcome(r)), Current'
  PROVE  Atomic!Next
<1>1. Outcome(r) = "REJECTED" BY DEF Outcome
<1>2. DecisionOf(req[r]) = [type |-> "REJECT", order |-> settled.currentOrder, actor |-> req[r].user]
  BY DEF DecisionOf
<1>3. Atomic!Reject(req[r].user)
  BY <1>1, <1>2, SameOperators DEF RejectDone, Current, LineKept, Atomic!Reject
<1> QED BY <1>3 DEF Atomic!Next

LEMMA RejectAdds ==
  ASSUME TypeInv, NEW r \in Requests, Continue(r), ~req[r].stale,
         req[r].op = "reject", RejectDone(req[r])
  PROVE  Onward(r)
<1> DEFINE q == req[r]
           p == req'[r]
           rows == Atomic!Decided("REJECTED")
<1>1. q.pc # "idle" /\ q.user \in Users BY InFlightUser DEF RejectDone
<1>2. /\ Atomic!MayDecide(q.user) /\ q.order = settled.currentOrder
      /\ requestStatus = settled.requestStatus /\ submittedBy = settled.submittedBy
      /\ steps = IF q.pc = "decideStep" THEN settled.steps ELSE rows
  BY DEF RejectDone
<1>3. Outcome(r) = "REJECTED" /\ ~Submits(r) BY DEF Outcome, Submits
<1>4. ASSUME NEW pc \in {"writeLine", "writeDocument", "logDecision", "findRequest", "syncRequest"},
             Goto(r, pc), steps' = rows,
             requestStatus' = requestStatus, submittedBy' = submittedBy,
             pc # "writeLine" => lineStatus' = "REJECTED" /\ currentOrder' = NoOrder,
             pc \in {"logDecision", "findRequest", "syncRequest"} => documentStatus' = "REJECTED",
             actions' = IF pc \in {"findRequest", "syncRequest"}
                        THEN settled.actions \cup {DecisionOf(q)} ELSE settled.actions
      PROVE  Onward(r)
  <2>1. pc \in Statements BY DEF Statements
  <2>2. /\ p.pc = pc /\ p.pc # "idle" /\ p.op = q.op /\ p.user = q.user /\ ~p.stale
        /\ p.order = q.order
    BY <1>1, <1>4, <2>1, Went
  <2>3. ASSUME settled' = settled PROVE RejectDone(req[r])'
    <3>1. Atomic!MayDecide(q.user)' BY <1>2, <2>2, <2>3 DEF Atomic!MayDecide
    <3>2. rows' = rows /\ DecisionOf(q)' = DecisionOf(q)
      BY <2>2, <2>3 DEF Atomic!Decided, DecisionOf
    <3> QED BY <1>2, <1>4, <2>2, <2>3, <3>1, <3>2 DEF RejectDone
  <2> QED BY <2>2, <2>3 DEF Onward, Done
<1>5. CASE q.pc = "decideStep"
  <2>1. DecideStep(r) BY <1>5, AtStatement
  <2>2. steps = settled.steps /\ actions = settled.actions BY <1>5 DEF RejectDone
  <2>3. steps' = rows BY <1>2, <2>1, <2>2 DEF DecideStep, Atomic!Decided
  <2> QED BY <1>4, <2>1, <2>2, <2>3 DEF DecideStep
<1>6. CASE q.pc = "writeLine"
  <2>1. WriteLine(r) BY <1>6, AtStatement
  <2>2. actions = settled.actions BY <1>6 DEF RejectDone
  <2>3. /\ Goto(r, "writeDocument") /\ lineStatus' = "REJECTED" /\ currentOrder' = NoOrder
        /\ UNCHANGED <<submittedBy, steps, actions, requestStatus>>
    BY <1>3, <2>1 DEF WriteLine
  <2> QED BY <1>2, <1>4, <1>6, <2>2, <2>3
<1>7. CASE q.pc = "writeDocument"
  <2>1. WriteDocument(r) BY <1>7, AtStatement
  <2>2. /\ actions = settled.actions /\ lineStatus = "REJECTED" /\ currentOrder = NoOrder
    BY <1>7 DEF RejectDone
  <2>3. Goto(r, "logDecision") /\ documentStatus' = "REJECTED"
    BY <1>3, <2>1 DEF WriteDocument
  <2>4. UNCHANGED <<lineStatus, currentOrder, submittedBy, steps, actions, requestStatus>>
    BY <2>1 DEF WriteDocument
  <2> QED BY <1>2, <1>4, <1>7, <2>2, <2>3, <2>4
<1>8. CASE q.pc = "logDecision"
  <2>1. LogDecision(r) BY <1>8, AtStatement
  <2>2. /\ actions = settled.actions /\ lineStatus = "REJECTED" /\ currentOrder = NoOrder
        /\ documentStatus = "REJECTED"
    BY <1>8 DEF RejectDone
  <2>3. Goto(r, "findRequest") /\ actions' = settled.actions \cup {DecisionOf(q)}
    BY <1>2, <2>1, <2>2 DEF LogDecision, DecisionOf
  <2>4. UNCHANGED <<documentStatus, lineStatus, currentOrder, submittedBy, steps, requestStatus>>
    BY <2>1 DEF LogDecision
  <2> QED BY <1>2, <1>4, <1>8, <2>2, <2>3, <2>4
<1>9. CASE q.pc = "findRequest"
  <2>1. FindRequest(r) BY <1>9, AtStatement
  <2>2. /\ actions = settled.actions \cup {DecisionOf(q)} /\ lineStatus = "REJECTED"
        /\ currentOrder = NoOrder /\ documentStatus = "REJECTED"
    BY <1>9 DEF RejectDone
  <2>3. UNCHANGED vars BY <2>1 DEF FindRequest
  <2>4. CASE Goto(r, "syncRequest") BY <1>2, <1>4, <1>9, <2>2, <2>3, <2>4 DEF vars
  <2>5. CASE End(r) /\ Synced(requestStatus, Outcome(r)) = requestStatus
    <3>1. Current' => Atomic!Next BY <1>1, <1>9, <2>3, <2>5, Rejected DEF vars
    <3> QED BY <2>5, <3>1, Ended DEF Onward
  <2> QED BY <2>1, <2>4, <2>5 DEF FindRequest
<1>10. CASE q.pc = "syncRequest"
  <2>1. SyncRequest(r) BY <1>10, AtStatement
  <2>2. Current' => Atomic!Next BY <1>1, <1>10, <2>1, Rejected DEF SyncRequest
  <2> QED BY <2>1, <2>2, Ended DEF Onward, SyncRequest
<1> QED BY <1>5, <1>6, <1>7, <1>8, <1>9, <1>10 DEF RejectDone

\* What cancel has changed makes one Cancel.
LEMMA Cancels ==
  ASSUME NEW r \in Requests, req[r].pc \in {"findRequest", "syncRequest"},
         req[r].op = "cancel", CancelDone(req[r]), req[r].user \in Users,
         UNCHANGED <<documentStatus, lineStatus, currentOrder, submittedBy, steps, actions>>,
         requestStatus' = Synced(requestStatus, Outcome(r)), Current'
  PROVE  Atomic!Next
<1>1. Outcome(r) = "CANCELED" BY DEF Outcome
<1>2. Atomic!Cancel(req[r].user)
  BY <1>1, SameOperators DEF CancelDone, Current, LineKept, Atomic!Cancel
<1> QED BY <1>2 DEF Atomic!Next

LEMMA CancelAdds ==
  ASSUME TypeInv, NEW r \in Requests, Continue(r), ~req[r].stale,
         req[r].op = "cancel", CancelDone(req[r])
  PROVE  Onward(r)
<1> DEFINE q == req[r]
           p == req'[r]
           rows == Canceled(settled.steps)
<1>1. q.pc # "idle" /\ q.user \in Users BY InFlightUser DEF CancelDone
<1>2. /\ Atomic!MayCancel(q.user) /\ actions = settled.actions
      /\ requestStatus = settled.requestStatus /\ submittedBy = settled.submittedBy
      /\ steps = IF q.pc = "cancelSteps" THEN settled.steps ELSE rows
  BY DEF CancelDone
<1>3. Outcome(r) = "CANCELED" /\ ~Submits(r) BY DEF Outcome, Submits
<1>4. ASSUME NEW pc \in {"writeLine", "writeDocument", "findRequest", "syncRequest"},
             Goto(r, pc), steps' = rows, actions' = actions,
             requestStatus' = requestStatus, submittedBy' = submittedBy,
             pc # "writeLine" => lineStatus' = "CANCELED" /\ currentOrder' = NoOrder,
             pc \in {"findRequest", "syncRequest"} => documentStatus' = "CANCELED"
      PROVE  Onward(r)
  <2>1. pc \in Statements BY DEF Statements
  <2>2. /\ p.pc = pc /\ p.pc # "idle" /\ p.op = q.op /\ p.user = q.user /\ ~p.stale
    BY <1>1, <1>4, <2>1, Went
  <2>3. ASSUME settled' = settled PROVE CancelDone(req[r])'
    <3>1. Atomic!MayCancel(q.user)' BY <1>2, <2>2, <2>3 DEF Atomic!MayCancel
    <3>2. rows' = rows BY <2>3
    <3> QED BY <1>2, <1>4, <2>2, <2>3, <3>1, <3>2 DEF CancelDone
  <2> QED BY <2>2, <2>3 DEF Onward, Done
<1>5. CASE q.pc = "cancelSteps"
  <2>1. CancelSteps(r) BY <1>5, AtStatement
  <2> QED BY <1>2, <1>4, <1>5, <2>1 DEF CancelSteps
<1>6. CASE q.pc = "writeLine"
  <2>1. WriteLine(r) BY <1>6, AtStatement
  <2>2. /\ Goto(r, "writeDocument") /\ lineStatus' = "CANCELED" /\ currentOrder' = NoOrder
        /\ UNCHANGED <<submittedBy, steps, actions, requestStatus>>
    BY <1>3, <2>1 DEF WriteLine
  <2> QED BY <1>2, <1>4, <1>6, <2>2
<1>7. CASE q.pc = "writeDocument"
  <2>1. WriteDocument(r) BY <1>7, AtStatement
  <2>2. lineStatus = "CANCELED" /\ currentOrder = NoOrder BY <1>7 DEF CancelDone
  <2>3. /\ Goto(r, "findRequest") /\ documentStatus' = "CANCELED"
        /\ UNCHANGED <<lineStatus, currentOrder, submittedBy, steps, actions, requestStatus>>
    BY <1>3, <2>1 DEF WriteDocument
  <2> QED BY <1>2, <1>4, <1>7, <2>2, <2>3
<1>8. CASE q.pc = "findRequest"
  <2>1. FindRequest(r) BY <1>8, AtStatement
  <2>2. lineStatus = "CANCELED" /\ currentOrder = NoOrder /\ documentStatus = "CANCELED"
    BY <1>8 DEF CancelDone
  <2>3. UNCHANGED vars BY <2>1 DEF FindRequest
  <2>4. CASE Goto(r, "syncRequest") BY <1>2, <1>4, <1>8, <2>2, <2>3, <2>4 DEF vars
  <2>5. CASE End(r) /\ Synced(requestStatus, Outcome(r)) = requestStatus
    <3>1. Current' => Atomic!Next BY <1>1, <1>8, <2>3, <2>5, Cancels DEF vars
    <3> QED BY <2>5, <3>1, Ended DEF Onward
  <2> QED BY <2>1, <2>4, <2>5 DEF FindRequest
<1>9. CASE q.pc = "syncRequest"
  <2>1. SyncRequest(r) BY <1>9, AtStatement
  <2>2. Current' => Atomic!Next BY <1>1, <1>9, <2>1, Cancels DEF SyncRequest
  <2> QED BY <2>1, <2>2, Ended DEF Onward, SyncRequest
<1> QED BY <1>5, <1>6, <1>7, <1>8, <1>9 DEF CancelDone

\* The first of the approvers is the next one, and moving on to it opens its step only.
LEMMA FirstApprover ==
  ASSUME NEW approvers \in ApproverLists, DOMAIN approvers # {},
         NEW n, IsNextActionable(FreshSteps(RoutingOf(approvers)), NoOrder, n)
  PROVE  /\ n = 1
         /\ Forwarded(FreshSteps(RoutingOf(approvers)), NoOrder, n) = FirstOpen(approvers)
<1>1. PICK k \in {m \in Orders \cup {0} : 1..m \subseteq Orders} : approvers \in [1..k -> Employees]
  BY DEF ApproverLists
<1>2. k \in Nat /\ DOMAIN approvers = 1..k BY <1>1, OrdersArePositive
<1>3. 1 \in DOMAIN approvers /\ \A o \in DOMAIN approvers : o \in Nat /\ o >= 1
  BY <1>2
<1> DEFINE rows == FreshSteps(RoutingOf(approvers))
<1>4. /\ DOMAIN rows = DOMAIN approvers
      /\ \A o \in DOMAIN approvers :
           rows[o] = [type |-> "APPROVE", approver |-> approvers[o], status |-> "WAITING"]
  BY DEF FreshSteps, RoutingOf
<1> HIDE DEF rows
<1>5. \A o \in DOMAIN rows : IsActionable(rows[o]) BY <1>4 DEF IsActionable
<1>6. {o \in DOMAIN rows : o > NoOrder /\ IsActionable(rows[o])} = DOMAIN rows
  BY <1>3, <1>4, <1>5 DEF NoOrder
<1>7. n \in DOMAIN rows /\ \A o \in DOMAIN rows : n <= o
  BY <1>3, <1>4, <1>6 DEF IsNextActionable, rows
<1>8. n = 1 BY <1>3, <1>4, <1>7
<1>9. ASSUME NEW o \in DOMAIN approvers
      PROVE  (IF /\ o > NoOrder /\ (n = NoOrder \/ o < n)
                 /\ ~IsActionable(rows[o]) /\ rows[o].status \in {"WAITING", "PENDING"}
              THEN [rows[o] EXCEPT !.status = "APPROVED"]
              ELSE IF o = n /\ rows[o].status = "WAITING"
                   THEN [rows[o] EXCEPT !.status = "PENDING"] ELSE rows[o])
             = [type |-> "APPROVE", approver |-> approvers[o],
                status |-> IF o = 1 THEN "PENDING" ELSE "WAITING"]
  BY <1>4, <1>5, <1>8
<1>10. Forwarded(rows, NoOrder, n) = FirstOpen(approvers)
  BY <1>4, <1>9 DEF Forwarded, FirstOpen
<1> QED BY <1>8, <1>10 DEF rows

\* What createLeaveRequest and createAttendanceCorrection have changed makes one CreateRequest.
LEMMA Created ==
  ASSUME NEW r \in Requests, req[r].pc = "insertRequest", CreateDone(req[r]), req[r].user \in Users,
         UNCHANGED <<documentStatus, lineStatus, currentOrder, submittedBy, steps, actions>>,
         requestStatus' = "REQUESTED", Current'
  PROVE  Atomic!Next
<1> DEFINE q == req[r]
<1>1. PICK approvers \in ApproverLists : q.routing = RoutingOf(approvers) BY DEF CreateDone
<1>2. DOMAIN q.routing = DOMAIN approvers BY <1>1 DEF RoutingOf
<1>3. /\ settled.documentStatus = "NONE" /\ EmployeeOf[q.user] # NoEmployee
      /\ settled'.requestStatus = "REQUESTED" /\ settled'.actions = {}
  BY DEF CreateDone, Current
<1>4. CASE DOMAIN approvers = {}
  <2>1. LineKept /\ steps = settled.steps /\ documentStatus = "DRAFT"
    BY <1>2, <1>4 DEF CreateDone
  <2>2. /\ settled'.documentStatus = "DRAFT" /\ settled'.lineStatus = settled.lineStatus
        /\ settled'.currentOrder = settled.currentOrder
        /\ settled'.submittedBy = settled.submittedBy /\ settled'.steps = settled.steps
    BY <2>1 DEF LineKept, Current
  <2>3. Atomic!CreateRequest(q.user, approvers)
    BY <1>3, <1>4, <2>2 DEF Atomic!CreateRequest
  <2> QED BY <2>3, SameOperators DEF Atomic!Next
<1>5. CASE DOMAIN approvers # {}
  <2>1. /\ LineIs(OutcomeOf(q), q.next, EmployeeOf[q.user]) /\ documentStatus = OutcomeOf(q)
        /\ Advancing(q, steps, FreshSteps(q.routing), NoOrder)
    BY <1>2, <1>5 DEF CreateDone
  <2>2. /\ IsNextActionable(FreshSteps(RoutingOf(approvers)), NoOrder, q.next)
        /\ steps = Forwarded(FreshSteps(RoutingOf(approvers)), NoOrder, q.next)
    BY <1>1, <2>1 DEF Advancing
  <2>3. q.next = 1 /\ steps = FirstOpen(approvers) BY <1>5, <2>2, FirstApprover
  <2>4. OutcomeOf(q) = "IN_REVIEW" BY <2>3 DEF OutcomeOf, NoOrder
  <2>5. /\ settled'.documentStatus = "IN_REVIEW" /\ settled'.lineStatus = "IN_REVIEW"
        /\ settled'.currentOrder = 1 /\ settled'.submittedBy = EmployeeOf[q.user]
        /\ settled'.steps = steps
    BY <2>1, <2>3, <2>4 DEF LineIs, LineKept, Current
  <2>6. Atomic!CreateRequest(q.user, approvers)
    BY <1>3, <1>5, <2>3, <2>5 DEF Atomic!CreateRequest, FirstOpen
  <2> QED BY <2>6, SameOperators DEF Atomic!Next
<1> QED BY <1>4, <1>5

LEMMA FreshIsWaiting ==
  ASSUME NEW routing PROVE Waiting(FreshSteps(routing)) = FreshSteps(routing)
BY DEF Waiting, FreshSteps

LEMMA CreateAdds ==
  ASSUME TypeInv, NEW r \in Requests, Continue(r), ~req[r].stale,
         req[r].op = "create", CreateDone(req[r])
  PROVE  Onward(r)
<1> DEFINE q == req[r]
           p == req'[r]
           base == FreshSteps(q.routing)
<1>1. q.pc # "idle" /\ q.user \in Users BY InFlightUser DEF CreateDone
<1>2. CASE q.pc = "insertRequest"
  <2>1. InsertRequest(r) BY <1>2, AtStatement
  <2>2. Current' => Atomic!Next BY <1>1, <1>2, <2>1, Created DEF InsertRequest
  <2> QED BY <2>1, <2>2, Ended DEF Onward, InsertRequest
<1>3. CASE q.pc # "insertRequest"
  <2>1. /\ DOMAIN q.routing # {} /\ Advancing(q, steps, base, NoOrder) /\ q.order = NoOrder
        /\ settled.documentStatus = "NONE" /\ EmployeeOf[q.user] # NoEmployee
        /\ actions = {} /\ requestStatus = "NONE"
        /\ \E approvers \in ApproverLists : q.routing = RoutingOf(approvers)
    BY <1>3 DEF CreateDone, Advancing
  <2>2. Outcome(r) = OutcomeOf(q) /\ Submits(r) BY DEF Outcome, OutcomeOf, Submits
  <2>3. ASSUME p.pc \in {"createLine", "createSteps", "readLine", "resetSteps", "readSteps",
                         "forward", "writeLine", "writeDocument", "logSubmission", "findRequest",
                         "insertRequest"},
               p.op = q.op, p.user = q.user, p.routing = q.routing, ~p.stale,
               Advancing(p, steps', base, NoOrder), actions' = {}, requestStatus' = "NONE",
               p.pc = "createLine" => lineStatus' = "NONE",
               p.pc \in {"createLine", "createSteps"} => DOMAIN steps' = {},
               p.pc \in {"createSteps", "readLine"} => lineStatus' = "DRAFT",
               p.pc \in {"readLine", "resetSteps"} => steps' = base,
               p.pc \in {"writeDocument", "logSubmission", "findRequest", "insertRequest"} =>
                 /\ lineStatus' = OutcomeOf(p) /\ currentOrder' = p.next
                 /\ submittedBy' = EmployeeOf[p.user],
               documentStatus' = IF p.pc \in {"logSubmission", "findRequest", "insertRequest"}
                                 THEN OutcomeOf(p) ELSE "DRAFT"
        PROVE  Onward(r)
    <3>1. settled' = settled => CreateDone(req[r])'
      BY <2>1, <2>3 DEF CreateDone, LineIs, OutcomeOf
    <3> QED BY <2>3, <3>1 DEF Onward, Done
  <2>4. ASSUME NEW pc \in Statements, Goto(r, pc)
        PROVE  /\ p.pc = pc /\ p.op = q.op /\ p.user = q.user /\ ~p.stale
               /\ p.routing = q.routing /\ p.next = q.next /\ p.order = q.order
    BY <1>1, <2>4, Went
  <2>5. ASSUME NEW pc \in {"createLine", "createSteps", "readLine", "resetSteps"}, Goto(r, pc),
               documentStatus' = "DRAFT", actions' = actions, requestStatus' = requestStatus,
               pc = "createLine" => lineStatus' = "NONE",
               pc \in {"createLine", "createSteps"} => DOMAIN steps' = {},
               pc \in {"createSteps", "readLine"} => lineStatus' = "DRAFT",
               pc \in {"readLine", "resetSteps"} => steps' = base
        PROVE  Onward(r)
    <3>1. pc \in Statements BY DEF Statements
    <3>2. /\ p.pc = pc /\ p.op = q.op /\ p.user = q.user /\ ~p.stale
          /\ p.routing = q.routing /\ p.next = q.next /\ p.order = q.order
      BY <2>4, <2>5, <3>1
    <3>3. Advancing(p, steps', base, NoOrder) BY <2>1, <2>5, <3>2 DEF Advancing
    <3> QED BY <2>1, <2>3, <2>5, <3>2, <3>3
  <2>6. CASE q.pc \in {"findLine", "createLine"}
    <3>1. lineStatus = "NONE" /\ DOMAIN steps = {} /\ documentStatus = "DRAFT"
      BY <2>6 DEF CreateDone
    <3>2. CASE q.pc = "findLine"
      <4>1. FindLine(r) BY <3>2, AtStatement
      <4> QED BY <2>5, <3>1, <4>1 DEF FindLine, vars
    <3>3. CASE q.pc = "createLine"
      <4>1. CreateLine(r) BY <3>3, AtStatement
      <4> QED BY <2>5, <3>1, <4>1 DEF CreateLine
    <3> QED BY <2>6, <3>2, <3>3
  <2>7. CASE q.pc = "createSteps"
    <3>1. DOMAIN steps = {} /\ documentStatus = "DRAFT" /\ lineStatus = "DRAFT"
      BY <2>7 DEF CreateDone
    <3>2. CreateSteps(r) BY <2>7, AtStatement
    <3>3. /\ Goto(r, "readLine") /\ steps' = base
          /\ UNCHANGED <<documentStatus, lineStatus, actions, requestStatus>>
      BY <3>1, <3>2 DEF CreateSteps, FreshSteps
    <3> QED BY <2>5, <3>1, <3>3
  <2>8. CASE q.pc = "readLine"
    <3>1. lineStatus = "DRAFT" /\ steps = base /\ documentStatus = "DRAFT"
      BY <2>8 DEF CreateDone
    <3>2. ReadLine(r) BY <2>8, AtStatement
    <3> QED BY <2>5, <3>1, <3>2 DEF ReadLine, vars
  <2>9. CASE q.pc = "resetSteps"
    <3>1. steps = base /\ documentStatus = "DRAFT" BY <2>9 DEF CreateDone
    <3>2. ResetSteps(r) BY <2>9, AtStatement
    <3>3. /\ Goto(r, "readSteps") /\ steps' = base
          /\ UNCHANGED <<documentStatus, actions, requestStatus>>
      BY <3>1, <3>2, FreshIsWaiting DEF ResetSteps
    <3>4. "readSteps" \in Statements BY DEF Statements
    <3>5. /\ p.pc = "readSteps" /\ p.op = q.op /\ p.user = q.user /\ ~p.stale
          /\ p.routing = q.routing /\ p.next = q.next /\ p.order = q.order
      BY <2>4, <3>3, <3>4
    <3>6. Advancing(p, steps', base, NoOrder) BY <2>1, <3>3, <3>5 DEF Advancing
    <3> QED BY <2>1, <2>3, <3>1, <3>3, <3>5, <3>6
  <2>10. CASE q.pc \in {"readSteps", "forward"}
    <3>1. documentStatus = "DRAFT" BY <2>10 DEF CreateDone
    <3>2. /\ Advancing(p, steps', base, NoOrder) /\ p.pc \in {"forward", "writeLine"} /\ ~p.stale
          /\ p.op = q.op /\ p.user = q.user /\ p.routing = q.routing
          /\ UNCHANGED <<documentStatus, actions, requestStatus>>
      <4>1. CASE q.pc = "readSteps" BY <2>1, <4>1, AtStatement, AdvanceReads DEF vars
      <4>2. CASE q.pc = "forward" BY <2>1, <4>2, AtStatement, AdvanceForwards
      <4> QED BY <2>10, <4>1, <4>2
    <3> QED BY <2>1, <2>3, <3>1, <3>2
  <2>11. ASSUME NEW pc \in {"writeDocument", "logSubmission", "findRequest", "insertRequest"},
                Goto(r, pc),
                q.pc \in {"writeLine", "writeDocument", "logSubmission", "findRequest"},
                steps' = steps, actions' = {}, requestStatus' = "NONE",
                lineStatus' = OutcomeOf(q), currentOrder' = q.next,
                submittedBy' = EmployeeOf[q.user],
                documentStatus' = IF pc = "writeDocument" THEN "DRAFT" ELSE OutcomeOf(q)
         PROVE  Onward(r)
    <3>1. pc \in Statements BY DEF Statements
    <3>2. /\ p.pc = pc /\ p.op = q.op /\ p.user = q.user /\ ~p.stale
          /\ p.routing = q.routing /\ p.next = q.next /\ p.order = q.order
      BY <2>4, <2>11, <3>1
    <3>3. Advancing(p, steps', base, NoOrder) BY <2>1, <2>11, <3>2, AdvancingGoes
    <3> QED BY <2>3, <2>11, <3>2, <3>3 DEF OutcomeOf
  <2>12. CASE q.pc = "writeLine"
    <3>1. WriteLine(r) BY <2>12, AtStatement
    <3>2. documentStatus = "DRAFT" BY <2>12 DEF CreateDone
    <3>3. /\ Goto(r, "writeDocument") /\ UNCHANGED <<documentStatus, steps, actions, requestStatus>>
          /\ lineStatus' = OutcomeOf(q) /\ currentOrder' = q.next
          /\ submittedBy' = EmployeeOf[q.user]
      BY <2>2, <3>1 DEF WriteLine, OutcomeOf
    <3> QED BY <2>1, <2>11, <2>12, <3>2, <3>3
  <2>13. CASE q.pc \in {"writeDocument", "logSubmission", "findRequest"}
    <3>1. /\ lineStatus = OutcomeOf(q) /\ currentOrder = q.next
          /\ submittedBy = EmployeeOf[q.user]
          /\ q.pc # "writeDocument" => documentStatus = OutcomeOf(q)
      BY <2>1, <2>13 DEF CreateDone, LineIs
    <3>2. CASE q.pc = "writeDocument"
      <4>1. WriteDocument(r) BY <3>2, AtStatement
      <4>2. /\ Goto(r, "logSubmission") /\ documentStatus' = OutcomeOf(q)
            /\ UNCHANGED <<lineStatus, currentOrder, submittedBy, steps, actions, requestStatus>>
        BY <2>2, <4>1 DEF WriteDocument
      <4> QED BY <2>1, <2>11, <3>1, <3>2, <4>2
    <3>3. CASE q.pc = "logSubmission"
      <4>1. LogSubmission(r) BY <3>3, AtStatement
      <4> QED BY <2>1, <2>11, <3>1, <3>3, <4>1 DEF LogSubmission
    <3>4. CASE q.pc = "findRequest"
      <4>1. FindRequest(r) BY <3>4, AtStatement
      <4>2. Synced(requestStatus, Outcome(r)) = requestStatus BY <2>1 DEF Synced
      <4>3. Goto(r, "insertRequest") /\ UNCHANGED vars BY <4>1, <4>2 DEF FindRequest
      <4> QED BY <2>1, <2>11, <3>1, <3>4, <4>3 DEF vars
    <3> QED BY <2>13, <3>2, <3>3, <3>4
  <2> QED BY <1>3, <2>6, <2>7, <2>8, <2>9, <2>10, <2>12, <2>13 DEF CreateDone
<1> QED BY <1>2, <1>3

(***************************************************************************)
(* Taking up a request.                                                    *)
(***************************************************************************)
LEMMA NewRequest ==
  ASSUME NEW name, NEW u, NEW pc
  PROVE  LET request == Request(name, u, pc)
         IN  /\ request.pc = pc /\ request.op = name /\ request.user = u
             /\ request.order = NoOrder /\ request.next = NoOrder /\ ~request.stale
             /\ \A routing : LET q == [request EXCEPT !.routing = routing]
                             IN  /\ q.routing = routing /\ q.pc = pc /\ q.op = name /\ q.user = u
                                 /\ q.order = NoOrder /\ q.next = NoOrder /\ ~q.stale
             /\ \A order : LET q == [request EXCEPT !.order = order]
                           IN  /\ q.order = order /\ q.pc = pc /\ q.op = name /\ q.user = u
                               /\ q.next = NoOrder /\ ~q.stale
BY DEF Request, Idle

LEMMA Arrives ==
  ASSUME TypeInv, Foundations, NEW r \in Requests, ~req[r].stale,
         req[r].pc = "idle" => Current, NEW u \in Users, Arrive(r, u)
  PROVE  Onward(r)
<1> DEFINE p == req'[r]
<1>1. ASSUME NEW request, Begin(r, request) PROVE p = request /\ req[r].pc = "idle"
  BY <1>1 DEF Begin
<1>2. ASSUME At(r, "idle"), UNCHANGED req, CreateDocument(u) \/ AddVersion(u)
      PROVE  Onward(r)
  <2>1. Current /\ p.pc = "idle" /\ ~p.stale BY <1>2 DEF At
  <2>2. ASSUME Current', CreateDocument(u) PROVE Atomic!CreateDocument(u)
    BY <2>1, <2>2 DEF Current, LineKept, CreateDocument, Atomic!CreateDocument
  <2>3. ASSUME Current', AddVersion(u) PROVE Atomic!AddVersion(u)
    BY <2>1, <2>3 DEF Current, LineKept, AddVersion, Atomic!AddVersion
  <2> QED BY <1>2, <2>1, <2>2, <2>3 DEF Onward, Atomic!Next
<1>3. CASE BeginCreateDocument(r, u) BY <1>2, <1>3 DEF BeginCreateDocument
<1>4. CASE BeginAddVersion(r, u) BY <1>2, <1>4 DEF BeginAddVersion
<1>5. ASSUME NEW approvers \in ApproverLists, BeginCreate(r, u, approvers) PROVE Onward(r)
  <2> DEFINE routing == RoutingOf(approvers)
             pc == IF DOMAIN approvers = {} THEN "insertRequest" ELSE "findLine"
  <2>1. /\ Begin(r, [Request("create", u, pc) EXCEPT !.routing = routing])
        /\ documentStatus = "NONE" /\ documentStatus' = "DRAFT" /\ EmployeeOf[u] # NoEmployee
        /\ UNCHANGED <<lineStatus, currentOrder, submittedBy, steps, actions, requestStatus>>
    BY <1>5 DEF BeginCreate, RoutingOf
  <2> HIDE DEF routing, pc
  <2>2. Current /\ p = [Request("create", u, pc) EXCEPT !.routing = routing] BY <1>1, <2>1
  <2>3. /\ p.routing = routing /\ p.pc = pc /\ p.op = "create" /\ p.user = u
        /\ p.order = NoOrder /\ ~p.stale
    BY <2>2, NewRequest
  <2>4. /\ settled.documentStatus = "NONE" /\ lineStatus = "NONE" /\ requestStatus = "NONE"
        /\ DOMAIN steps = {} /\ actions = {}
    BY <2>1, <2>2 DEF Current, LineKept, Foundations
  <2>5. DOMAIN routing = DOMAIN approvers BY DEF routing, RoutingOf
  <2>6. pc = (IF DOMAIN routing = {} THEN "insertRequest" ELSE "findLine") BY <2>5 DEF pc
  <2>7. DOMAIN routing # {} => Advancing(p, steps', FreshSteps(routing), NoOrder)
    BY <2>3, <2>6 DEF Advancing
  <2>8. \E a \in ApproverLists : routing = RoutingOf(a) BY DEF routing
  <2>9. ASSUME settled' = settled PROVE CreateDone(req[r])'
    <3>1. LineKept' /\ steps' = settled'.steps
      BY <2>1, <2>2, <2>9 DEF Current, LineKept
    <3> QED BY <2>1, <2>3, <2>4, <2>6, <2>7, <2>8, <2>9, <3>1 DEF CreateDone
  <2> QED BY <2>3, <2>6, <2>9 DEF Onward, Done
<1>6. ASSUME NEW routing \in RequestRoutings, BeginConfigure(r, u, routing) PROVE Onward(r)
  <2> DEFINE pc == IF lineStatus = "NONE" THEN "createLine" ELSE "deleteActions"
  <2>1. /\ Begin(r, [Request("configure", u, pc) EXCEPT !.routing = routing])
        /\ documentStatus # "NONE" /\ lineStatus # "IN_REVIEW" /\ UNCHANGED vars
    BY <1>6 DEF BeginConfigure
  <2> HIDE DEF pc
  <2>2. Current /\ p = [Request("configure", u, pc) EXCEPT !.routing = routing] BY <1>1, <2>1
  <2>3. /\ p.routing = routing /\ p.pc = pc /\ p.op = "configure" /\ p.user = u /\ ~p.stale
    BY <2>2, NewRequest
  <2>4. routing \in Routings BY RequestsAssumption
  <2>5. lineStatus = "NONE" => DOMAIN steps = {} /\ actions = {}
    BY <2>2 DEF Current, LineKept, Foundations
  <2>6. settled' = settled => ConfigureDone(req[r])'
    BY <2>1, <2>2, <2>3, <2>4, <2>5 DEF ConfigureDone, Current, LineKept, vars, pc
  <2> QED BY <2>3, <2>6 DEF Onward, Done, pc
<1>7. CASE BeginSubmit(r, u) \/ BeginResubmit(r, u)
  <2>1. PICK name \in {"submit", "resubmit"} :
          /\ Begin(r, Request(name, u, "resetSteps"))
          /\ IF name = "submit" THEN lineStatus = "DRAFT"
                                ELSE lineStatus \in {"REJECTED", "CANCELED"}
    BY <1>7 DEF BeginSubmit, BeginResubmit
  <2>2. EmployeeOf[u] # NoEmployee /\ UNCHANGED vars BY <1>7 DEF BeginSubmit, BeginResubmit
  <2>3. Current /\ p = Request(name, u, "resetSteps") BY <1>1, <2>1
  <2>4. /\ p.pc = "resetSteps" /\ p.op = name /\ p.user = u /\ p.order = NoOrder /\ ~p.stale
    BY <2>3, NewRequest
  <2>5. Advancing(p, steps', Waiting(settled.steps), NoOrder) BY <2>4 DEF Advancing
  <2>6. settled' = settled => SubmitDone(req[r])'
    BY <2>1, <2>2, <2>3, <2>4, <2>5 DEF SubmitDone, Current, LineKept, vars
  <2> QED BY <2>1, <2>4, <2>6 DEF Onward, Done
<1>8. ASSUME NEW name \in {"approve", "reject"}, BeginDecision(r, u, name) PROVE Onward(r)
  <2>1. /\ Begin(r, [Request(name, u, "decideStep") EXCEPT !.order = currentOrder])
        /\ MayDecide(u) /\ UNCHANGED vars
    BY <1>8 DEF BeginDecision
  <2>2. Current /\ p = [Request(name, u, "decideStep") EXCEPT !.order = currentOrder]
    BY <1>1, <2>1
  <2>3. /\ p.pc = "decideStep" /\ p.op = name /\ p.user = u /\ p.order = settled.currentOrder
        /\ ~p.stale
    BY <2>2, NewRequest DEF Current, LineKept
  <2>4. ASSUME settled' = settled
        PROVE  IF name = "approve" THEN ApproveDone(req[r])' ELSE RejectDone(req[r])'
    <3>1. Atomic!MayDecide(u)'
      BY <2>1, <2>2, <2>4 DEF Current, LineKept, MayDecide, Atomic!MayDecide
    <3>2. Advancing(p, steps', Atomic!Decided("APPROVED")', settled'.currentOrder)
      BY <2>3, <2>4 DEF Advancing
    <3>3. Current' BY <2>1, <2>2, <2>4 DEF Current, LineKept, vars
    <3>4. name = "approve" => ApproveDone(req[r])'
      BY <2>3, <2>4, <3>1, <3>2, <3>3 DEF ApproveDone, Current, LineKept
    <3>5. name = "reject" => RejectDone(req[r])'
      BY <2>3, <2>4, <3>1, <3>3 DEF RejectDone, Current, LineKept
    <3> QED BY <3>4, <3>5
  <2> QED BY <1>8, <2>3, <2>4 DEF Onward, Done
<1>9. CASE BeginCancel(r, u)
  <2>1. Begin(r, Request("cancel", u, "cancelSteps")) /\ MayCancel(u) /\ UNCHANGED vars
    BY <1>9 DEF BeginCancel
  <2>2. Current /\ p = Request("cancel", u, "cancelSteps") BY <1>1, <2>1
  <2>3. p.pc = "cancelSteps" /\ p.op = "cancel" /\ p.user = u /\ ~p.stale
    BY <2>2, NewRequest
  <2>4. ASSUME settled' = settled PROVE CancelDone(req[r])'
    <3>1. Atomic!MayCancel(u)'
      BY <2>1, <2>2, <2>4 DEF Current, LineKept, MayCancel, Atomic!MayCancel
    <3>2. Current' BY <2>1, <2>2, <2>4 DEF Current, LineKept, vars
    <3> QED BY <2>3, <3>1, <3>2 DEF CancelDone, Current, LineKept
  <2> QED BY <2>3, <2>4 DEF Onward, Done
<1> QED BY <1>3, <1>4, <1>5, <1>6, <1>7, <1>8, <1>9 DEF Arrive

(***************************************************************************)
(* The refinement.                                                         *)
(***************************************************************************)
LEMMA FoundationsStay ==
  ASSUME Foundations, Atomic!Next
  PROVE  Foundations'
<1> PICK u \in Users :
      \/ Atomic!CreateDocument(u)
      \/ Atomic!AddVersion(u)
      \/ \E approvers \in Atomic!ApproverLists : Atomic!CreateRequest(u, approvers)
      \/ \E routing \in Atomic!Routings : Atomic!ConfigureLine(u, routing)
      \/ Atomic!Submit(u) \/ Atomic!Resubmit(u) \/ Atomic!Approve(u) \/ Atomic!Reject(u)
      \/ Atomic!Cancel(u)
  BY DEF Atomic!Next
<1>1. CASE Atomic!CreateDocument(u) \/ Atomic!AddVersion(u)
  BY <1>1 DEF Foundations, Atomic!CreateDocument, Atomic!AddVersion
<1>2. ASSUME NEW approvers, Atomic!CreateRequest(u, approvers) PROVE Foundations'
  BY <1>2 DEF Foundations, Atomic!CreateRequest
<1>3. ASSUME NEW routing, Atomic!ConfigureLine(u, routing) PROVE Foundations'
  BY <1>3 DEF Foundations, Atomic!ConfigureLine
<1>4. CASE Atomic!StartReview(u)
  <2>1. settled'.lineStatus \in {"APPROVED", "IN_REVIEW"}
        /\ settled'.documentStatus = settled'.lineStatus
    BY <1>4 DEF Atomic!StartReview
  <2> QED BY <2>1 DEF Foundations
<1>5. CASE Atomic!Approve(u) \/ Atomic!Reject(u)
  <2>1. settled.documentStatus # "NONE"
    BY <1>5 DEF Foundations, Atomic!Approve, Atomic!Reject, Atomic!MayDecide
  <2>2. /\ settled'.lineStatus \in {"APPROVED", "IN_REVIEW", "REJECTED"}
        /\ settled'.documentStatus \in {"APPROVED", "REJECTED", settled.documentStatus}
    BY <1>5 DEF Atomic!Approve, Atomic!Reject
  <2> QED BY <2>1, <2>2 DEF Foundations
<1>6. CASE Atomic!Cancel(u) BY <1>6 DEF Foundations, Atomic!Cancel
<1> QED BY <1>1, <1>2, <1>3, <1>4, <1>5, <1>6 DEF Atomic!Submit, Atomic!Resubmit

LEMMA SerialStep ==
  ASSUME OneAtATime, TypeInv, TypeInv', SerialInv, SerialNext
  PROVE  SerialInv' /\ [Atomic!Next]_(Atomic!vars)
<1>1. PICK r \in Requests : Requests = {r} BY DEF OneAtATime
<1>2. /\ ~req[r].stale /\ Foundations /\ SettledTyped
      /\ IF req[r].pc = "idle" THEN Current ELSE Done(req[r])
  BY DEF SerialInv
<1>3. ASSUME Continue(r) PROVE Onward(r)
  <2>1. req[r].pc # "idle" BY <1>3, Continuing
  <2> QED BY <1>2, <1>3, <2>1, ConfigureAdds, SubmitAdds, CreateAdds, ApproveAdds, RejectAdds,
             CancelAdds DEF Done
<1>4. ~Crash(r) BY DEF Crash, OneAtATime, TypeInv
<1>5. Onward(r) BY <1>1, <1>2, <1>3, <1>4, Arrives DEF SerialNext, RequestsNext
<1>6. CASE req'[r].pc # "idle"
  <2>1. InFlight' # {} BY <1>1, <1>6 DEF InFlight
  <2>2. settled' = settled BY <2>1 DEF SerialNext
  <2>3. Done(req[r])' /\ ~req'[r].stale BY <1>5, <1>6, <2>2 DEF Onward
  <2>4. Foundations' /\ SettledTyped' BY <1>2, <2>2 DEF Foundations, SettledTyped
  <2>5. UNCHANGED Atomic!vars BY <2>2 DEF Atomic!vars
  <2> QED BY <1>1, <1>6, <2>3, <2>4, <2>5 DEF SerialInv
<1>7. CASE req'[r].pc = "idle"
  <2>1. InFlight' = {} BY <1>1, <1>7 DEF InFlight
  <2>2. settled' = Database' BY <2>1 DEF SerialNext
  <2>3. Current' BY <2>2 DEF Current, LineKept, Database
  <2>4. Atomic!Next /\ ~req'[r].stale BY <1>5, <1>7, <2>3 DEF Onward
  <2>5. Foundations' BY <1>2, <2>4, FoundationsStay
  <2>6. SettledTyped' BY <2>3 DEF SettledTyped, Current, LineKept, TypeInv, TypeOK
  <2> QED BY <1>1, <1>7, <2>3, <2>4, <2>5, <2>6 DEF SerialInv
<1> QED BY <1>6, <1>7

LEMMA SerialStutters ==
  ASSUME SerialInv, UNCHANGED <<reqVars, settled>>
  PROVE  SerialInv' /\ UNCHANGED Atomic!vars
<1>1. /\ settled' = settled /\ req' = req /\ documentStatus' = documentStatus
      /\ lineStatus' = lineStatus /\ currentOrder' = currentOrder /\ submittedBy' = submittedBy
      /\ steps' = steps /\ actions' = actions /\ requestStatus' = requestStatus
  BY DEF reqVars, vars
<1>2. Foundations' /\ SettledTyped' BY <1>1 DEF SerialInv, Foundations, SettledTyped
<1>3. Current => Current' BY <1>1 DEF Current, LineKept
<1>4. ASSUME NEW r \in Requests, Done(req[r]) PROVE Done(req[r])'
  <2>1. ConfigureDone(req[r]) => ConfigureDone(req[r])' BY <1>1 DEF ConfigureDone, LineIs
  <2>2. SubmitDone(req[r]) => SubmitDone(req[r])' BY <1>1 DEF SubmitDone, LineIs, OutcomeOf
  <2>3. CreateDone(req[r]) => CreateDone(req[r])'
    BY <1>1 DEF CreateDone, LineKept, LineIs, OutcomeOf
  <2>4. /\ Atomic!MayDecide(req[r].user) <=> Atomic!MayDecide(req[r].user)'
        /\ Atomic!MayCancel(req[r].user) <=> Atomic!MayCancel(req[r].user)'
        /\ \A status : Atomic!Decided(status)' = Atomic!Decided(status)
        /\ DecisionOf(req[r])' = DecisionOf(req[r])
    BY <1>1 DEF Atomic!MayDecide, Atomic!MayCancel, Atomic!Decided, DecisionOf
  <2>5. ApproveDone(req[r]) => ApproveDone(req[r])'
    BY <1>1, <2>4 DEF ApproveDone, LineIs, OutcomeOf
  <2>6. RejectDone(req[r]) => RejectDone(req[r])' BY <1>1, <2>4 DEF RejectDone
  <2>7. CancelDone(req[r]) => CancelDone(req[r])' BY <1>1, <2>4 DEF CancelDone
  <2> QED BY <1>1, <1>4, <2>1, <2>2, <2>3, <2>5, <2>6, <2>7 DEF Done
<1>5. SerialInv' BY <1>1, <1>2, <1>3, <1>4 DEF SerialInv
<1> QED BY <1>1, <1>5 DEF Atomic!vars

LEMMA SerialStarts == SerialInit => TypeInv /\ HoldingInv /\ SerialInv /\ Atomic!Init
<1> SUFFICES ASSUME SerialInit PROVE TypeInv /\ HoldingInv /\ SerialInv /\ Atomic!Init
  OBVIOUS
<1>1. TypeInv /\ HoldingInv BY TypesInit DEF SerialInit
<1>2. Current BY DEF SerialInit, Current, LineKept, Database
<1>3. Atomic!Init
  BY <1>2 DEF SerialInit, RequestsInit, Init, Current, LineKept, Atomic!Init, Atomic!NoOrder,
              Atomic!NoSteps, NoOrder, NoSteps
<1>4. Foundations
  BY <1>2, NothingRouted DEF SerialInit, RequestsInit, Init, Current, LineKept, Foundations
<1>5. SettledTyped BY <1>1, <1>2 DEF SettledTyped, Current, LineKept, TypeInv, TypeOK
<1>6. \A r \in Requests : req[r].pc = "idle" /\ ~req[r].stale
  BY DEF SerialInit, RequestsInit, Idle
<1> QED BY <1>1, <1>2, <1>3, <1>4, <1>5, <1>6 DEF SerialInv

\* Taken one at a time and not cut short, the statement sequences of the handlers do, for any
\* company, routings and approvers, what the atomic handlers of Approvals do.
THEOREM SerialHandlersAreAtomic ==
  ASSUME OneAtATime
  PROVE  SerialSpec => ImplementsAtomicHandlers
<1> DEFINE SInv == TypeInv /\ HoldingInv /\ SerialInv
<1>1. SerialInit => SInv /\ Atomic!Init BY SerialStarts
<1>2. SInv /\ [SerialNext]_<<reqVars, settled>> => SInv' /\ [Atomic!Next]_(Atomic!vars)
  <2> SUFFICES ASSUME SInv, [SerialNext]_<<reqVars, settled>>
               PROVE  SInv' /\ [Atomic!Next]_(Atomic!vars)
    OBVIOUS
  <2>1. TypeInv' /\ HoldingInv' BY TypesNext DEF SerialNext
  <2>2. CASE SerialNext BY <2>1, <2>2, SerialStep
  <2>3. CASE UNCHANGED <<reqVars, settled>> BY <2>1, <2>3, SerialStutters
  <2> QED BY <2>2, <2>3
<1>3. SerialSpec => Atomic!Init /\ [][Atomic!Next]_(Atomic!vars)
  <2> HIDE DEF SInv
  <2> QED BY <1>1, <1>2, PTL DEF SerialSpec
<1> QED BY <1>3 DEF ImplementsAtomicHandlers, Atomic!Spec
===============================================================================
