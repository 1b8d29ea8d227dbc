---------------------------- MODULE AttendanceLedger ----------------------------
(***************************************************************************)
(* normalizeAttendanceJob of the worker: raw attendance events become the  *)
(* ledgers of an employee's days, under the shift policies of module       *)
(* ShiftPolicies, which change meanwhile.                                  *)
(*                                                                         *)
(* Every tick starts a run and waits for no earlier one.  A run reads a    *)
(* batch of events that are not normalised, finds the work day of each     *)
(* under the policy in force (reading each day's policy once, into a cache *)
(* of its own), and then writes a ledger per day, each in a transaction    *)
(* that also links the events to the ledger and marks them.  Nothing       *)
(* handles an error: it ends the process with all its runs.                *)
(*                                                                         *)
(* Groups of different employees or companies share nothing, so there is   *)
(* one employee of one company.  Times are numbers of the unit DayLength   *)
(* counts.  Left out: the site, holidayMinutes (always 0), notes and the   *)
(* audit row.                                                              *)
(***************************************************************************)
EXTENDS ShiftPolicies, FiniteSetsExt

CONSTANTS
  Company,       \* the company of the employee
  Assigned,      \* day -> the policy assigned to the employee, or NoPolicy
  NoPolicy,
  EventType,     \* event -> AttendanceEventType
  EventTime,     \* event -> eventTimestamp, in UTC, from a midnight before them all
  Events,        \* those of the events that may be recorded
  Days,          \* the days a ledger may be for
  DayLength,     \* the length of a day; a unit is a minute or a multiple of it
  Offset,        \* local time minus UTC
  NightStart,    \* 22:00
  NightEnd,      \* 06:00
  BatchSize,     \* ATTENDANCE_NORMALIZE_BATCH_SIZE
  LedgerRuns,    \* slots for the runs under way
  MaxRestarts    \* how often the worker stops

CheckIns == {"IN", "ACCESS_GRANTED"}
EventTypes == CheckIns \cup {"OUT", "BREAK_OUT", "BREAK_IN", "ACCESS_DENIED", "UNKNOWN"}

ASSUME AttendanceLedgerAssumption ==
  /\ Company \in Companies
  /\ NoPolicy \notin PolicyKeys \cup Shifts
  /\ Days \subseteq Int
  /\ Assigned \in [Days -> PolicyKeys \cup {NoPolicy}]
  /\ \A d \in Days : Assigned[d] = NoPolicy \/ Assigned[d] \in DOMAIN SeededPolicies
  /\ EventType \in [DOMAIN EventTime -> EventTypes]
  /\ DOMAIN EventTime \subseteq Int /\ IsFiniteSet(DOMAIN EventTime)
  /\ \A e \in DOMAIN EventTime : EventTime[e] \in Nat
  /\ Events \subseteq DOMAIN EventTime
  /\ DayLength \in Nat \ {0} /\ Offset \in Int
  /\ NightStart \in 0..DayLength /\ NightEnd \in 0..NightStart
  /\ \A e \in Events : LET day == (EventTime[e] + Offset) \div DayLength
                       IN  {day - 1, day} \subseteq Days
  /\ BatchSize \in Nat \ {0}
  /\ LedgerRuns \subseteq Int
  /\ MaxRestarts \in Nat

VARIABLES
  raw,          \* the events recorded for the employee
  normalized,   \* those with AttendanceRawEvent.normalized
  ledger,       \* day -> the AttendanceLedger row, or NoLedger
  sources,      \* day -> the events of its AttendanceLedgerSource rows
  run,          \* the local state of the run in each slot
  restarts      \* how often the worker has stopped

ledgerVars == <<raw, normalized, ledger, sources, run, restarts>>
attendanceVars == <<policyVars, ledgerVars>>

(***************************************************************************)
(* normalizeAttendanceEvents.                                              *)
(***************************************************************************)
NoTime == 0 - 1
NoLedger == [none |-> TRUE]

EventIds == DOMAIN EventTime
ShiftOrNone == Shifts \cup {NoPolicy}

Larger(x, y) == IF x > y THEN x ELSE y
Smaller(x, y) == IF x < y THEN x ELSE y

Total(f) == MapThenSumSet(LAMBDA x : f[x], DOMAIN f)

Priority(e) ==
  CASE EventType[e] \in CheckIns -> 1
    [] EventType[e] = "BREAK_OUT" -> 2
    [] EventType[e] = "BREAK_IN" -> 3
    [] EventType[e] = "OUT" -> 4
    [] OTHER -> 9

\* The order of the sort; equal events may stand in either order.
Sorted(e, f) ==
  \/ EventTime[e] < EventTime[f]
  \/ EventTime[e] = EventTime[f] /\ Priority(e) < Priority(f)
  \/ EventTime[e] = EventTime[f] /\ Priority(e) = Priority(f) /\ e < f

OfType(S, types) == {e \in S : EventType[e] \in types}
Times(S) == {EventTime[e] : e \in S}

\* A BREAK_IN ends the last BREAK_OUT before it, unless one ended it already.
Breaks(S) ==
  {p \in OfType(S, {"BREAK_OUT"}) \X OfType(S, {"BREAK_IN"}) :
     /\ Sorted(p[1], p[2])
     /\ \A e \in OfType(S, {"BREAK_OUT", "BREAK_IN"}) :
          ~(Sorted(p[1], e) /\ Sorted(e, p[2]))}

Overlap(a, b, c, d) == Larger(0, Smaller(b, d) - Larger(a, c))

\* Mutant: the night that began the day before is forgotten (MinutesAreCounted).
NightMinutesFromTheFirst(a, b) ==
  IF b <= a THEN 0
  ELSE Total([day \in (a \div DayLength)..(b \div DayLength) |->
                Overlap(a, b, day * DayLength + NightStart, (day + 1) * DayLength + NightEnd)])

\* calculateNightMinutesInRange: the nights from the day before the first.
NightMinutes(a, b) ==
  IF b <= a THEN 0
  ELSE Total([day \in ((a \div DayLength) - 1)..(b \div DayLength) |->
                Overlap(a, b, day * DayLength + NightStart, (day + 1) * DayLength + NightEnd)])

Status(in, out, shift) ==
  LET midnight == (in \div DayLength) * DayLength
      from == midnight + shift.start
      to == midnight + shift.end + (IF shift.end <= shift.start THEN DayLength ELSE 0)
  IN  IF in > from + Larger(shift.grace, 0) THEN "LATE"
      ELSE IF out < to THEN "EARLY_LEAVE" ELSE "NORMAL"

Scheduled(shift) ==
  LET span == shift.end - shift.start
      length == span + (IF span <= 0 THEN DayLength ELSE 0)
  IN  Larger(0, length - Larger(shift.break, 0))

CheckIn(S) ==
  LET ins == Times(OfType(S, CheckIns))
  IN  IF ins = {} THEN NoTime ELSE CHOOSE t \in ins : \A u \in ins : t <= u

CheckOut(S) ==
  LET outs == Times(OfType(S, {"OUT"}))
  IN  IF outs = {} THEN NoTime ELSE CHOOSE t \in outs : \A u \in outs : t >= u

BreakMinutes(S) ==
  Total([p \in Breaks(S) |-> Larger(0, EventTime[p[2]] - EventTime[p[1]])])

BreakNightMinutes(S) ==
  Total([p \in Breaks(S) |-> NightMinutes(EventTime[p[1]], EventTime[p[2]])])

\* The columns that hold whatever the policy; worked is 0 while one end is missing.
Attended(S) ==
  LET in == CheckIn(S)
      out == CheckOut(S)
      break == BreakMinutes(S)
  IN  [checkIn |-> in, checkOut |-> out, break |-> break,
       worked |-> IF NoTime \in {in, out} THEN 0
                  ELSE Larger(0, Larger(0, out - in) - break)]

ToReview(a, shift) == NoTime \in {a.checkIn, a.checkOut} \/ shift = NoPolicy

\* The columns for the events S under the shift of a policy.
NormalizeEvents(S, shift) ==
  LET a == Attended(S)
      row(overtime, night, status) ==
        [checkIn |-> a.checkIn, checkOut |-> a.checkOut, break |-> a.break,
         worked |-> a.worked, overtime |-> overtime, night |-> night, status |-> status]
  IN  IF ToReview(a, shift) THEN row(0, 0, "NEEDS_REVIEW")
      ELSE row(Larger(0, a.worked - Scheduled(shift)),
               Larger(0, NightMinutes(a.checkIn, a.checkOut) - BreakNightMinutes(S)),
               Status(a.checkIn, a.checkOut, shift))

\* The same as a table, which TLC fills once.
Normalize == [j \in (SUBSET EventIds) \X ShiftOrNone |-> NormalizeEvents(j[1], j[2])]

\* The copy in packages/domain counts no night, and ends every shift on the day it begins.
DomainStatus(in, out, shift) ==
  LET midnight == (in \div DayLength) * DayLength
  IN  IF in > midnight + shift.start + Larger(shift.grace, 0) THEN "LATE"
      ELSE IF out < midnight + shift.end THEN "EARLY_LEAVE" ELSE "NORMAL"

DomainNormalize(S, shift) ==
  LET a == Attended(S)
      scheduled == Larger(0, shift.end - shift.start - Larger(shift.break, 0))
      row(overtime, status) ==
        [checkIn |-> a.checkIn, checkOut |-> a.checkOut, break |-> a.break,
         worked |-> a.worked, overtime |-> overtime, status |-> status]
  IN  IF ToReview(a, shift) THEN row(0, "NEEDS_REVIEW")
      ELSE row(Larger(0, a.worked - scheduled),
               DomainStatus(a.checkIn, a.checkOut, shift))

(***************************************************************************)
(* The work day of an event.                                               *)
(***************************************************************************)
LocalDay(e) == (EventTime[e] + Offset) \div DayLength
LocalTime(e) == (EventTime[e] + Offset) % DayLength
ShiftOf(policy) == IF policy = NoPolicy THEN NoPolicy ELSE policies[policy].shift

\* Mutant: the grace does not move the cut-off (SourcesBelongToTheirDay).
WorkDayGraceless(e, shift) ==
  IF shift # NoPolicy /\ shift.end <= shift.start /\ LocalTime(e) < shift.end
  THEN LocalDay(e) - 1 ELSE LocalDay(e)

\* resolveWorkDateKeyForEvent: up to the end of an overnight shift it is still the
\* day before.
WorkDayFor(e, shift) ==
  IF /\ shift # NoPolicy
     /\ shift.end <= shift.start
     /\ LocalTime(e) < shift.end + Larger(shift.grace, 0)
  THEN LocalDay(e) - 1 ELSE LocalDay(e)

WorkDay == [j \in EventIds \X ShiftOrNone |-> WorkDayFor(j[1], j[2])]

\* What resolvePolicy may find for a day: the assignment, or a default of the highest
\* version, whatever its code.
Resolved(day) ==
  LET defaults == {k \in DOMAIN policies : k[1] = Company /\ policies[k].isDefault}
  IN  IF Assigned[day] # NoPolicy THEN {Assigned[day]}
      ELSE IF defaults = {} THEN {NoPolicy}
      ELSE {k \in defaults : \A l \in defaults : l[3] <= k[3]}

(***************************************************************************)
(* The runs.  batch: the events a run still has to write.  cache: day ->   *)
(* the policy the run has read for it.                                     *)
(***************************************************************************)
IdleRun == [batch |-> {}, cache |-> [d \in {} |-> NoPolicy]]

LedgerInit ==
  /\ PolicyInit
  /\ raw = {} /\ normalized = {}
  /\ ledger = [d \in Days |-> NoLedger]
  /\ sources = [d \in Days |-> {}]
  /\ run = [r \in LedgerRuns |-> IdleRun]
  /\ restarts = 0

\* The ingest records an event; events arrive late and in any order.
Record(e) ==
  /\ e \notin raw
  /\ raw' = raw \cup {e}
  /\ UNCHANGED <<policyVars, normalized, ledger, sources, run, restarts>>

\* The oldest events that wait, as many as a batch holds; the first slot that is free
\* holds the run.
Start(r) ==
  LET pending == raw \ normalized
  IN  /\ run[r] = IdleRun
      /\ \A q \in LedgerRuns : q < r => run[q] # IdleRun
      /\ \E batch \in (SUBSET pending) \ {{}} :
           /\ Cardinality(batch) = Smaller(BatchSize, Cardinality(pending))
           /\ \A e \in batch, f \in pending \ batch : EventTime[e] <= EventTime[f]
           /\ run' = [run EXCEPT ![r].batch = batch]
      /\ UNCHANGED <<policyVars, raw, normalized, ledger, sources, restarts>>

Earliest(S) == {e \in S : \A f \in S : EventTime[e] <= EventTime[f]}

\* The day of an event of the batch, once its local day's policy is in the cache.
DayOf(cache, e) == WorkDay[<<e, ShiftOf(cache[LocalDay(e)])>>]

\* The days groupPendingEvents has still to read for an event: the local day first, and
\* the day before if the event belongs there.
Unread(cache, e) ==
  IF LocalDay(e) \notin DOMAIN cache THEN {LocalDay(e)}
  ELSE {DayOf(cache, e)} \ DOMAIN cache

UnreadEvents(r) == {e \in run[r].batch : Unread(run[r].cache, e) # {}}

Cached(cache, day, policy) ==
  [d \in DOMAIN cache \cup {day} |-> IF d = day THEN policy ELSE cache[d]]

\* resolvePolicy beside the cache, for the events in their order.
Read(r) ==
  /\ \E e \in Earliest(UnreadEvents(r)) :
       \E day \in Unread(run[r].cache, e) : \E policy \in Resolved(day) :
         run' = [run EXCEPT ![r].cache = Cached(@, day, policy)]
  /\ UNCHANGED <<policyVars, raw, normalized, ledger, sources, restarts>>

Together(batch, cache, day) == {e \in batch : DayOf(cache, e) = day}

\* The group that is next, once every day is read: that of the first event left.
NextGroup(r) ==
  LET group(day) == [day |-> day, policy |-> run[r].cache[day],
                     events |-> Together(run[r].batch, run[r].cache, day)]
  IN  IF UnreadEvents(r) # {} THEN {}
      ELSE {group(day) : day \in {DayOf(run[r].cache, e) : e \in Earliest(run[r].batch)}}

\* Mutant: the run does not end when its batch is written (LedgerTypeOK).
RestLingering(r, events) == [run[r] EXCEPT !.batch = @ \ events]

\* What the run keeps when the group is written.
Rest(r, events) ==
  IF run[r].batch = events THEN IdleRun ELSE [run[r] EXCEPT !.batch = @ \ events]

\* What the upsert leaves in the row: an undefined policy keeps the recorded one.
Upserted(old, policy, columns) ==
  [policy |-> IF old # NoLedger /\ policy = NoPolicy THEN old.policy ELSE policy,
   columns |-> columns]

\* Mutant: the events of the group are not marked (EveryEventIsNormalized).
WriteUnmarked(r) ==
  \E g \in NextGroup(r) :
    /\ run' = [run EXCEPT ![r] = Rest(r, g.events)]
    /\ sources' = [sources EXCEPT ![g.day] = @ \cup g.events]
    /\ ledger' = [ledger EXCEPT ![g.day] =
         Upserted(@, g.policy, Normalize[<<g.events, ShiftOf(g.policy)>>])]
    /\ UNCHANGED <<policyVars, raw, normalized, restarts>>

\* Mutant: the row records the policy in force now (RecordedPolicyExplainsLedger).
WriteLatestPolicy(r) ==
  \E g \in NextGroup(r) : \E now \in Resolved(g.day) :
    /\ run' = [run EXCEPT ![r] = Rest(r, g.events)]
    /\ normalized' = normalized \cup g.events
    /\ sources' = [sources EXCEPT ![g.day] = @ \cup g.events]
    /\ ledger' = [ledger EXCEPT ![g.day] =
         Upserted(@, now, Normalize[<<g.events, ShiftOf(g.policy)>>])]
    /\ UNCHANGED <<policyVars, raw, restarts>>

\* The transaction of a group: the row is written anew, from the group's events alone.
Write(r) ==
  \E g \in NextGroup(r) :
    /\ run' = [run EXCEPT ![r] = Rest(r, g.events)]
    /\ normalized' = normalized \cup g.events
    /\ sources' = [sources EXCEPT ![g.day] = @ \cup g.events]
    /\ ledger' = [ledger EXCEPT ![g.day] =
         Upserted(@, g.policy, Normalize[<<g.events, ShiftOf(g.policy)>>])]
    /\ UNCHANGED <<policyVars, raw, restarts>>

\* The worker stops, also because a statement of a run failed, and starts again.
Restart ==
  /\ \E r \in LedgerRuns : run[r] # IdleRun
  /\ restarts < MaxRestarts
  /\ restarts' = restarts + 1
  /\ run' = [r \in LedgerRuns |-> IdleRun]
  /\ UNCHANGED <<policyVars, raw, normalized, ledger, sources>>

Step(r) == Read(r) \/ Write(r)

LedgerNext ==
  \/ \E e \in Events : Record(e)
  \/ \E r \in LedgerRuns : Start(r) \/ Step(r)
  \/ Restart
  \/ PolicyRequest /\ UNCHANGED ledgerVars

\* setInterval keeps ticking and every await of a run is resumed.
LedgerFairness ==
  /\ WF_attendanceVars(\E r \in LedgerRuns : Start(r))
  /\ \A r \in LedgerRuns : WF_attendanceVars(Step(r))

LedgerSpec == LedgerInit /\ [][LedgerNext]_attendanceVars /\ LedgerFairness

(***************************************************************************)
(* Properties.                                                             *)
(***************************************************************************)
Policies == PolicyKeys \cup {NoPolicy}

LedgerStatuses == {"NEEDS_REVIEW", "LATE", "EARLY_LEAVE", "NORMAL"}

RunTypeOK(q) ==
  /\ DOMAIN q = {"batch", "cache"}
  /\ q.batch \in SUBSET raw
  /\ q = IdleRun \/ q.batch # {}
  /\ DOMAIN q.cache \subseteq Days
  /\ \A d \in DOMAIN q.cache : q.cache[d] \in DOMAIN policies \cup {NoPolicy}

\* The types, the policies' included; a run holds recorded events, some while it is
\* under way, and published policies.
LedgerTypeOK ==
  /\ PoliciesTypeOK
  /\ raw \subseteq Events /\ normalized \subseteq raw
  /\ DOMAIN ledger = Days
  /\ \A d \in Days : ledger[d] # NoLedger =>
       ledger[d].policy \in Policies /\ ledger[d].columns.status \in LedgerStatuses
  /\ sources \in [Days -> SUBSET raw]
  /\ DOMAIN run = LedgerRuns /\ \A r \in LedgerRuns : RunTypeOK(run[r])
  /\ restarts \in 0..MaxRestarts

\* How far a day of a shift reaches into the next.
Carryover(shift) ==
  IF shift # NoPolicy /\ shift.end <= shift.start THEN shift.end + Larger(shift.grace, 0) ELSE 0

InDay(e, day, shift) ==
  (EventTime[e] + Offset) - day * DayLength - Carryover(shift) \in 0..(DayLength - 1)

\* A company that has a default policy keeps one, unless a member of two companies
\* publishes a version for the other (updateShiftPolicy clears the defaults of auth's).
MayLackDefault ==
  \/ Companies # {Company}
  \/ ~\E k \in DOMAIN SeededPolicies : k[1] = Company /\ SeededPolicies[k].isDefault

\* A policy divides time into days without gap or overlap, an overnight shift's day
\* reaching to its cut-off, and the source events of a ledger fall on its day as some
\* published policy divides time, also while defaults are exchanged: an event is counted
\* for two days only where policies have changed between two runs that both read it
\* (resolveWorkDateKeyForEvent, resolvePolicy).
SourcesBelongToTheirDay ==
  \A d \in Days : \A e \in sources[d] :
    \/ \E p \in DOMAIN policies : InDay(e, d, ShiftOf(p))
    \/ MayLackDefault /\ InDay(e, d, NoPolicy)

\* A ledger can be recomputed from what it points to: some of its source events,
\* judged by the policy version it records (or by none, for review) give its row.
\* Versions published or defaults changed later do not alter what it was judged by
\* (normalizeAttendanceJob, ShiftPolicy's versions).
RecordedPolicyExplainsLedger ==
  \A d \in Days : ledger[d] # NoLedger =>
    /\ ledger[d].policy \in DOMAIN policies \cup {NoPolicy}
    /\ \E S \in (SUBSET sources[d]) \ {{}}, p \in {ledger[d].policy, NoPolicy} :
         ledger[d].columns = Normalize[<<S, ShiftOf(p)>>]

Waiting == {e \in raw : e \notin normalized \/ \A d \in Days : e \notin sources[d]}

\* The worker catches up: however ticks overlap and wherever it stops, time and again
\* every event recorded is some day's source event and marked, so none waits for ever,
\* as Events is finite (normalizeAttendanceJob's batches).
EveryEventIsNormalized == []<>(Waiting = {})

\* A stretch of work as it should be: it begins with IN, ends with OUT, and each break
\* in it ends before the next begins.
WellFormed(S) ==
  /\ Cardinality(Times(S)) = Cardinality(S)
  /\ \E a \in OfType(S, CheckIns), b \in OfType(S, {"OUT"}) :
       LET inner == S \ {a, b}
           before(e) == {f \in inner : EventTime[f] < EventTime[e]}
       IN  /\ EventTime[a] < EventTime[b]
           /\ \A e \in inner : EventTime[a] < EventTime[e] /\ EventTime[e] < EventTime[b]
           /\ \A e \in inner : EventType[e] =
                (IF Cardinality(before(e)) % 2 = 0 THEN "BREAK_OUT" ELSE "BREAK_IN")
           /\ Cardinality(inner) % 2 = 0

\* The units of the stretch that are worked: the last event before them is no BREAK_OUT.
WorkedUnits(S) ==
  LET from == CHOOSE t \in Times(S) : \A u \in Times(S) : t <= u
      to == CHOOSE t \in Times(S) : \A u \in Times(S) : t >= u
  IN  {t \in from..(to - 1) :
         \E e \in S : /\ EventType[e] # "BREAK_OUT" /\ EventTime[e] <= t
                      /\ \A f \in S : EventTime[f] <= t => EventTime[f] <= EventTime[e]}

AtNight(t) == t % DayLength >= NightStart \/ t % DayLength < NightEnd

Stretches == {S \in SUBSET EventIds : WellFormed(S)}

CountedUnitByUnit ==
  {p \in Stretches \X Shifts :
     LET units == WorkedUnits(p[1])
     IN  /\ Normalize[p].worked = Cardinality(units)
         /\ Normalize[p].night = Cardinality({t \in units : AtNight(t)})}

\* The shifts for which the copy of the domain package agrees, whatever the events.
CopyAgrees ==
  {shift \in Shifts :
     \A S \in SUBSET EventIds :
       LET copy == DomainNormalize(S, shift)
       IN  copy = [c \in DOMAIN copy |-> Normalize[<<S, shift>>][c]]}

\* The minutes of a well-formed stretch are those one counts unit by unit: worked
\* outside the breaks, at night between 22:00 and 06:00, and none of either twice or
\* forgotten where a break or the stretch spans a midnight (normalizeAttendanceEvents
\* and its helpers, over every stretch among the events and every published policy; what is
\* recorded makes no difference to it, and it is asked before anything is). The copy in
\* packages/domain makes the same of any events for a shift within one day, and, as it
\* never learned of nights, makes overtime of all the work for one across midnight.
MinutesAreCounted ==
  raw = {} =>
    \A k \in DOMAIN policies :
      LET shift == policies[k].shift
      IN  /\ \A S \in Stretches : <<S, shift>> \in CountedUnitByUnit
          /\ IF shift.end > shift.start THEN shift \in CopyAgrees
             ELSE \A S \in Stretches :
                    DomainNormalize(S, shift).overtime = Cardinality(WorkedUnits(S))

\* docs/architecture/README.md:68 calls ledgers normalized views: a ledger is what
\* the policy it records makes of all its source events.
LedgerIsViewOfItsSources ==
  \A d \in Days : ledger[d] # NoLedger =>
    ledger[d].columns = Normalize[<<sources[d], ShiftOf(ledger[d].policy)>>]
=============================================================================
