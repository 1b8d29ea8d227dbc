----------------------- MODULE MCSerialApprovalRequests -----------------------
(***************************************************************************)
(* Values for SerialApprovalRequests' constants: two employees and an      *)
(* administrator without an employee row.                                  *)
(***************************************************************************)
EXTENDS SerialApprovalRequests

CONSTANTS member, manager, admin, e1, e2

MCEmployeeOf ==
  [u \in Users |-> CASE u = member  -> e1
                     [] u = manager -> e2
                     [] u = admin   -> NoEmployee]

\* Every set of orders and types; the approver goes with the order.
MCRoutings == {routing \in Routings :
                 \A o \in DOMAIN routing : routing[o].approver = IF o = 1 THEN e1 ELSE e2}
===============================================================================
