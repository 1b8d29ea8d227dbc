----------------------------- MODULE MCApprovals -----------------------------
(***************************************************************************)
(* Values for Approvals' constants: two members with employee rows and an  *)
(* administrator without one.                                              *)
(***************************************************************************)
EXTENDS Approvals

CONSTANTS member, manager, admin, e1, e2

MCUsers == {member, manager, admin}
MCEmployees == {e1, e2}
MCEmployeeOf ==
  [u \in MCUsers |-> CASE u = member  -> e1
                       [] u = manager -> e2
                       [] u = admin   -> NoEmployee]
MCAdmins == {admin}
=============================================================================
