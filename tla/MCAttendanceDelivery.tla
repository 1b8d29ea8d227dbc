-------------------------- MODULE MCAttendanceDelivery --------------------------
(***************************************************************************)
(* A file with two of three events of a card, one of which the agent       *)
(* cannot map and one the API refuses, and a batch of two of which the     *)
(* first is an event of the same card that names its employee.             *)
(***************************************************************************)
EXTENDS AttendanceDelivery

MCFileRows == <<{"in", "bad", "whose"}>>
MCBatchRows == <<"badge", "out">>
MCUserOf == [r \in {"in", "bad", "whose", "badge", "out"} |-> "card"]
MCNumberOf == [r \in {"in", "bad", "whose", "badge", "out"} |-> IF r = "out" THEN "" ELSE "7"]

\* Before the first poll: the file holds the rows, and so many faults are still to come
\* (the others were polls that failed).
Before(rows, left) ==
  /\ files = [f \in FileIds |-> [rows |-> rows, mtime |-> Len(rows)]]
  /\ processed = [f \in {} |-> 0]
  /\ buffer = <<>> /\ tail = "ended"
  /\ agent = IdleAgent
  /\ request = [q \in Slots |-> FreeSlot]
  /\ dropped = {} /\ swallowed = {}
  /\ faults = MaxFaults - left

BatchToCome == batch = "open" /\ identity = [u \in {} |-> NoNumber] /\ raw = {}

BatchAccepted ==
  /\ batch = "accepted"
  /\ identity = [u \in {"card"} |-> "7"]
  /\ raw = {[row |-> r, employee |-> "7"] : r \in {"badge", "out"}}

\* States a behaviour from DeliveryInit goes through: the batch meets few faults, and
\* most of them come when it is accepted.
MCInit ==
  \/ BatchToCome /\ (Before(<<>>, 0) \/ Before(<<"in">>, 1))
  \/ BatchAccepted /\ (Before(<<"in">>, 3) \/ Before(<<"bad", "in">>, 3))

MCSpec == MCInit /\ [][DeliveryNext]_deliveryVars /\ DeliveryFairness
=============================================================================
