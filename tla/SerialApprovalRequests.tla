------------------------ MODULE SerialApprovalRequests ------------------------
(***************************************************************************)
(* Requests that never overlap and never crash (one slot, MaxCrashes = 0)  *)
(* implement module Approvals: each handler's statements add up to one     *)
(* step of it.  The abstract state is the database as it was when last no  *)
(* request was in flight, kept in the history variable settled; a handler  *)
(* is a series of stutters ending in the step that takes its effect.       *)
(***************************************************************************)
EXTENDS ApprovalRequests

VARIABLE settled

Database == [documentStatus |-> documentStatus, lineStatus |-> lineStatus,
             currentOrder |-> currentOrder, submittedBy |-> submittedBy,
             steps |-> steps, actions |-> actions, requestStatus |-> requestStatus]

SerialInit == RequestsInit /\ settled = Database

SerialNext == RequestsNext /\ settled' = IF InFlight' = {} THEN Database' ELSE settled

SerialSpec == SerialInit /\ [][SerialNext]_<<reqVars, settled>>

Atomic == INSTANCE Approvals WITH
            documentStatus <- settled.documentStatus, lineStatus <- settled.lineStatus,
            currentOrder <- settled.currentOrder, submittedBy <- settled.submittedBy,
            steps <- settled.steps, actions <- settled.actions,
            requestStatus <- settled.requestStatus

\* Taken one at a time, the statement sequences of configureLine, submit,
\* approve, reject, cancel, resubmit, createLeaveRequest and addVersion do what
\* the atomic handlers of Approvals do, and nothing else.
ImplementsAtomicHandlers == Atomic!Spec
=============================================================================
