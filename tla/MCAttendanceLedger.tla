--------------------------- MODULE MCAttendanceLedger ---------------------------
(***************************************************************************)
(* One company with a day shift by default that is replaced by a night     *)
(* shift, and an employee of a Korean company whose events are an evening  *)
(* and the night after it.  A unit is an hour.                             *)
(***************************************************************************)
EXTENDS AttendanceLedger

MCDay == [start |-> 9, end |-> 18, break |-> 1, grace |-> 0]
MCNight == [start |-> 22, end |-> 6, break |-> 1, grace |-> 1]
MCShifts == {MCDay, MCNight}
MCCompanies == {"c"}
MCCodes == {"shift"}
MCSeeded == <<"c", "shift", 1>> :> [shift |-> MCNight, isDefault |-> TRUE]

MCDays == {-1, 0, 1, 2}
MCAssigned == [d \in MCDays |-> NoPolicy]
\* Recorded are the first three, at 22:00, 06:00 (OUT) and 07:00 of local time; the
\* others make stretches with breaks and stretches of two days of them.
MCType == <<"IN", "OUT", "ACCESS_GRANTED",
            "BREAK_OUT", "BREAK_IN", "BREAK_OUT", "BREAK_IN", "OUT">>
MCTime == <<13, 21, 22, 14, 16, 26, 27, 50>>
MCEvents == {1, 2, 3}

MCCreates == {[caller |-> "c", code |-> "shift", version |-> 2, shift |-> MCNight,
               isDefault |-> FALSE]}
MCUpdates == {[caller |-> "c", key |-> <<"c", "shift", 1>>, shift |-> MCDay,
               asked |-> "yes"]}
=============================================================================
