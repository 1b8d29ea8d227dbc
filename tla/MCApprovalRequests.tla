-------------------------- MODULE MCApprovalRequests --------------------------
(***************************************************************************)
(* Values for ApprovalRequests' constants.  The routings are chosen for    *)
(* the races: two approvers in a row, the second alone (the same order is  *)
(* then another approver's), one behind a step that is only acknowledged   *)
(* on the way, and three approvers with such a step between.               *)
(***************************************************************************)
EXTENDS ApprovalRequests, TLC

CONSTANTS member, manager, director, admin, e1, e2, e3

MCEmployeeOf ==
  [u \in Users |-> CASE u = member   -> e1
                     [] u = manager  -> e2
                     [] u = director -> e3
                     [] u = admin    -> NoEmployee]

Row(type, approver) == [type |-> type, approver |-> approver]

TwoApprovers == 1 :> Row("APPROVE", e1) @@ 2 :> Row("CONSULT", e2)
OtherApprover == 1 :> Row("APPROVE", e2)
ReaderFirst == 1 :> Row("CC", e1) @@ 2 :> Row("APPROVE", e2)
ThreeApprovers == 1 :> Row("AGREE", e1) @@ 2 :> Row("APPROVE", e2)
                  @@ 3 :> Row("RECEIVE", e1) @@ 4 :> Row("APPROVE", e3)
ReadersOnly == 1 :> Row("CC", e1) @@ 2 :> Row("RECEIVE", e2)

MCOneRouting == {TwoApprovers}
MCTwoRoutings == {TwoApprovers, OtherApprover}
MCThreeRoutings == {TwoApprovers, ReaderFirst, ReadersOnly}
MCLongRouting == {ThreeApprovers}

MCSlotSymmetry == Permutations(Requests)
=============================================================================
