------------------------- MODULE AttendanceLedgerProofs -------------------------
(***************************************************************************)
(* Theorems about AttendanceLedger, for any shift policies and requests    *)
(* for them, events, batch size, number of overlapping runs and restarts.  *)
(***************************************************************************)
EXTENDS AttendanceLedger, FiniteSetTheorems, WellFoundedInduction, TLAPS

(***************************************************************************)
(* The policies.                                                           *)
(***************************************************************************)
LEMMA PoliciesInit == PolicyInit => PoliciesTypeOK
BY ShiftPoliciesAssumption DEF PolicyInit, PoliciesTypeOK

LEMMA EnterKeepsTypes ==
  ASSUME PoliciesTypeOK, NEW s \in PolicySlots, NEW caller \in Companies,
         NEW key \in PolicyKeys, NEW shift \in Shifts, NEW clears \in BOOLEAN,
         NEW isDefault \in BOOLEAN, Enter(s, caller, key, shift, clears, isDefault),
         UNCHANGED policies
  PROVE  PoliciesTypeOK'
<1> DEFINE new == [pc |-> IF clears THEN "clear" ELSE "insert", caller |-> caller,
                   key |-> key, row |-> [shift |-> shift, isDefault |-> isDefault],
                   cleared |-> {}]
<1>1. new \in RequestAt({"clear", "insert"})
  BY DEF RequestAt, PolicyRows
<1>2. policyRequest' = [policyRequest EXCEPT ![s] = new]
  BY DEF Enter
<1>3. QED
  BY <1>1, <1>2 DEF PoliciesTypeOK

\* What a step of a policy request leaves as it was.
PoliciesOnlyGrow ==
  /\ DOMAIN policies \subseteq DOMAIN policies'
  /\ \A k \in DOMAIN policies : policies'[k].shift = policies[k].shift

LEMMA PolicyStep ==
  ASSUME PoliciesTypeOK, PolicyRequest
  PROVE  PoliciesTypeOK' /\ PoliciesOnlyGrow
<1>1. PICK s \in PolicySlots :
        \/ \E q \in Creates : BeginCreatePolicy(s, q)
        \/ \E q \in Updates : BeginUpdatePolicy(s, q)
        \/ ClearDefaults(s)
        \/ InsertVersion(s)
  BY DEF PolicyRequest
<1>2. CASE \E q \in Creates : BeginCreatePolicy(s, q)
  <2>1. PICK q \in CreateInputs : BeginCreatePolicy(s, q)
    BY <1>2, ShiftPoliciesAssumption
  <2>2. PICK latest \in Latest(q.caller, q.code) :
          LET v == IF q.version = 0 THEN latest + 1 ELSE q.version
          IN  v <= MaxVersion /\ Enter(s, q.caller, <<q.caller, q.code, v>>, q.shift,
                                       q.isDefault, q.isDefault)
    BY <2>1 DEF BeginCreatePolicy
  <2> DEFINE v == IF q.version = 0 THEN latest + 1 ELSE q.version
  <2>3. latest \in Nat
    BY ShiftPoliciesAssumption DEF Latest, Versions
  <2>4. v \in 1..MaxVersion
    BY <2>2, <2>3, ShiftPoliciesAssumption DEF CreateInputs
  <2>5. <<q.caller, q.code, v>> \in PolicyKeys
    BY <2>4 DEF PolicyKeys, CreateInputs
  <2>6. UNCHANGED policies
    BY <2>1 DEF BeginCreatePolicy
  <2>7. q.caller \in Companies /\ q.shift \in Shifts /\ q.isDefault \in BOOLEAN
    BY DEF CreateInputs
  <2>8. QED
    BY <2>2, <2>5, <2>6, <2>7, EnterKeepsTypes DEF PoliciesOnlyGrow
<1>3. CASE \E q \in Updates : BeginUpdatePolicy(s, q)
  <2>1. PICK q \in UpdateInputs : BeginUpdatePolicy(s, q)
    BY <1>3, ShiftPoliciesAssumption
  <2> DEFINE key == <<q.key[1], q.key[2], q.key[3] + 1>>
             isDefault == IF q.asked = "same" THEN policies[q.key].isDefault
                          ELSE q.asked = "yes"
  <2>2. key \in PolicyKeys
    BY <2>1, ShiftPoliciesAssumption DEF BeginUpdatePolicy, UpdateInputs, PolicyKeys
  <2>3. isDefault \in BOOLEAN
    BY <2>1 DEF BeginUpdatePolicy, PoliciesTypeOK, PolicyRows
  <2>4. Enter(s, q.caller, key, q.shift, q.asked = "yes", isDefault) /\ UNCHANGED policies
    BY <2>1 DEF BeginUpdatePolicy
  <2>5. q.caller \in Companies /\ q.shift \in Shifts /\ (q.asked = "yes") \in BOOLEAN
    BY DEF UpdateInputs
  <2> HIDE DEF key, isDefault
  <2>6. QED
    BY <2>2, <2>3, <2>4, <2>5, EnterKeepsTypes DEF PoliciesOnlyGrow
<1>4. CASE ClearDefaults(s)
  <2>1. policyRequest[s] \in RequestAt({"clear", "insert"})
    BY <1>4 DEF ClearDefaults, PoliciesTypeOK, NoRequest
  <2> DEFINE found == {k \in DOMAIN policies : k[1] = policyRequest[s].caller
                                               /\ policies[k].isDefault}
  <2>2. [policyRequest[s] EXCEPT !.pc = "insert", !.cleared = found]
          \in RequestAt({"clear", "insert"})
    BY <2>1 DEF RequestAt, PoliciesTypeOK
  <2>3. policyRequest' = [policyRequest EXCEPT
          ![s] = [policyRequest[s] EXCEPT !.pc = "insert", !.cleared = found]]
    BY <1>4 DEF ClearDefaults
  <2>4. UNCHANGED policies
    BY <1>4 DEF ClearDefaults
  <2> HIDE DEF found
  <2>5. QED
    BY <2>2, <2>3, <2>4 DEF PoliciesTypeOK, PoliciesOnlyGrow
<1>5. CASE InsertVersion(s)
  <2>1. policyRequest[s] \in RequestAt({"clear", "insert"})
    BY <1>5 DEF InsertVersion, PoliciesTypeOK, NoRequest
  <2>2. policyRequest[s].key \in PolicyKeys /\ policyRequest[s].row \in PolicyRows
    BY <2>1 DEF RequestAt
  <2>3. policyRequest' \in [PolicySlots -> {NoRequest} \cup RequestAt({"clear", "insert"})]
    BY <1>5 DEF InsertVersion, PoliciesTypeOK
  <2>4. CASE policyRequest[s].key \in DOMAIN policies
    <3>1. policies' = policies
      BY <1>5, <2>4 DEF InsertVersion
    <3>2. QED
      BY <2>3, <3>1 DEF PoliciesTypeOK, PoliciesOnlyGrow
  <2>5. CASE policyRequest[s].key \notin DOMAIN policies
    <3>1. policies' = WithVersion(policyRequest[s])
      BY <1>5, <2>5 DEF InsertVersion
    <3>2. DOMAIN policies' = DOMAIN policies \cup {policyRequest[s].key}
      BY <3>1 DEF WithVersion
    <3>3. \A k \in DOMAIN policies : [policies[k] EXCEPT !.isDefault = FALSE] \in PolicyRows
                                     /\ policies[k] \in PolicyRows
      BY DEF PoliciesTypeOK, PolicyRows
    <3>4. \A k \in DOMAIN policies' : policies'[k] \in PolicyRows
      BY <2>2, <3>1, <3>2, <3>3 DEF WithVersion
    <3>5. \A k \in DOMAIN policies : policies'[k].shift = policies[k].shift
      BY <2>5, <3>1, <3>3 DEF WithVersion, PolicyRows
    <3>6. QED
      BY <2>2, <2>3, <3>2, <3>4, <3>5 DEF PoliciesTypeOK, PoliciesOnlyGrow
  <2>6. QED
    BY <2>4, <2>5
<1>6. QED
  BY <1>1, <1>2, <1>3, <1>4, <1>5

(***************************************************************************)
(* Types.                                                                  *)
(***************************************************************************)
Known == DOMAIN policies \cup {NoPolicy}

TypeInv ==
  /\ LedgerTypeOK
  /\ DOMAIN SeededPolicies \subseteq DOMAIN policies

LEMMA DaysOfAnEvent ==
  ASSUME NEW e \in Events, NEW shift \in ShiftOrNone
  PROVE  /\ LocalDay(e) \in Days
         /\ WorkDay[<<e, shift>>] = WorkDayFor(e, shift)
         /\ WorkDayFor(e, shift) \in Days
<1>1. e \in EventIds
  BY AttendanceLedgerAssumption DEF EventIds
<1>2. <<e, shift>> \in EventIds \X ShiftOrNone
  BY <1>1
<1>3. WorkDay[<<e, shift>>] = WorkDayFor(e, shift)
  BY <1>2 DEF WorkDay
<1>4. {LocalDay(e) - 1, LocalDay(e)} \subseteq Days
  BY AttendanceLedgerAssumption DEF LocalDay
<1>5. WorkDayFor(e, shift) \in {LocalDay(e) - 1, LocalDay(e)}
  BY DEF WorkDayFor
<1>6. QED
  BY <1>3, <1>4, <1>5

LEMMA ShiftsAreKnown ==
  ASSUME PoliciesTypeOK, NEW p \in Known
  PROVE  ShiftOf(p) \in ShiftOrNone
BY DEF PoliciesTypeOK, Known, ShiftOf, ShiftOrNone, PolicyRows

LEMMA ResolvedIsKnown ==
  ASSUME TypeInv, NEW day \in Days, NEW p \in Resolved(day)
  PROVE  p \in Known
BY AttendanceLedgerAssumption DEF TypeInv, Resolved, Known

LEMMA RowHasStatus ==
  ASSUME NEW S \in SUBSET EventIds, NEW shift \in ShiftOrNone
  PROVE  /\ Normalize[<<S, shift>>] = NormalizeEvents(S, shift)
         /\ NormalizeEvents(S, shift).status \in LedgerStatuses
<1>1. <<S, shift>> \in (SUBSET EventIds) \X ShiftOrNone
  OBVIOUS
<1>2. Normalize[<<S, shift>>] = NormalizeEvents(S, shift)
  BY <1>1 DEF Normalize
<1>3. \A in, out : Status(in, out, shift) \in LedgerStatuses
  BY DEF Status, LedgerStatuses
<1>4. NormalizeEvents(S, shift).status \in LedgerStatuses
  BY <1>3 DEF NormalizeEvents, LedgerStatuses
<1>5. QED
  BY <1>2, <1>4

\* What a run holds when it writes a group.
LEMMA GroupIsKnown ==
  ASSUME TypeInv, NEW r \in LedgerRuns, NEW g \in NextGroup(r)
  PROVE  /\ g.day \in Days /\ g.policy \in Known
         /\ g.policy \in {run[r].cache[d] : d \in DOMAIN run[r].cache}
         /\ g.events \in SUBSET run[r].batch /\ g.events # {}
         /\ \A e \in g.events :
              /\ LocalDay(e) \in DOMAIN run[r].cache
              /\ WorkDayFor(e, ShiftOf(run[r].cache[LocalDay(e)])) = g.day
<1> DEFINE batch == run[r].batch
           cache == run[r].cache
<1>1. /\ batch \in SUBSET raw /\ raw \subseteq Events
      /\ DOMAIN cache \subseteq Days
      /\ \A d \in DOMAIN cache : cache[d] \in Known
  BY DEF TypeInv, LedgerTypeOK, RunTypeOK, Known
<1>2. UnreadEvents(r) = {}
  BY DEF NextGroup
<1>3. PICK e \in Earliest(batch) :
        g = [day |-> DayOf(cache, e), policy |-> cache[DayOf(cache, e)],
             events |-> Together(batch, cache, DayOf(cache, e))]
  BY <1>2 DEF NextGroup
<1>4. e \in batch
  BY <1>3 DEF Earliest
<1>5. \A f \in batch : Unread(cache, f) = {}
  BY <1>2 DEF UnreadEvents
<1>6. \A f \in batch : LocalDay(f) \in DOMAIN cache /\ DayOf(cache, f) \in DOMAIN cache
  BY <1>5 DEF Unread
<1>7. \A f \in batch : DayOf(cache, f) = WorkDayFor(f, ShiftOf(cache[LocalDay(f)]))
  <2> SUFFICES ASSUME NEW f \in batch
               PROVE  DayOf(cache, f) = WorkDayFor(f, ShiftOf(cache[LocalDay(f)]))
    OBVIOUS
  <2>1. ShiftOf(cache[LocalDay(f)]) \in ShiftOrNone
    BY <1>1, <1>6, ShiftsAreKnown DEF TypeInv, LedgerTypeOK
  <2>2. f \in Events
    BY <1>1
  <2>3. QED
    BY <2>1, <2>2, DaysOfAnEvent DEF DayOf
<1>8. g.events \in SUBSET batch /\ e \in g.events
  BY <1>3, <1>4 DEF Together
<1>9. \A f \in g.events : DayOf(cache, f) = g.day
  BY <1>3 DEF Together
<1>10. g.day \in DOMAIN cache /\ g.policy = cache[g.day]
  BY <1>3, <1>4, <1>6
<1>11. QED
  BY <1>1, <1>6, <1>7, <1>8, <1>9, <1>10

LEMMA LedgerTypesInit == LedgerInit => TypeInv
<1> SUFFICES ASSUME LedgerInit PROVE TypeInv
  OBVIOUS
<1>1. PoliciesTypeOK
  BY PoliciesInit DEF LedgerInit
<1>2. \A r \in LedgerRuns : RunTypeOK(run[r])
  BY DEF LedgerInit, RunTypeOK, IdleRun
<1>3. restarts \in 0..MaxRestarts
  BY AttendanceLedgerAssumption DEF LedgerInit
<1>4. QED
  BY <1>1, <1>2, <1>3 DEF LedgerInit, PolicyInit, TypeInv, LedgerTypeOK

\* RunTypeOK of the next state, said of a value.
RunFitsNext(q) ==
  /\ DOMAIN q = {"batch", "cache"}
  /\ q.batch \in SUBSET raw'
  /\ q = IdleRun \/ q.batch # {}
  /\ DOMAIN q.cache \subseteq Days
  /\ \A d \in DOMAIN q.cache : q.cache[d] \in DOMAIN policies' \cup {NoPolicy}

\* A run that gets a new state keeps the types if the new state has them.
LEMMA RunsKeepTypes ==
  ASSUME TypeInv, NEW r \in LedgerRuns, NEW q, run' = [run EXCEPT ![r] = q],
         raw \subseteq raw', PoliciesOnlyGrow, RunFitsNext(q)
  PROVE  DOMAIN run' = LedgerRuns /\ \A t \in LedgerRuns : RunTypeOK(run[t])'
BY DEF TypeInv, LedgerTypeOK, RunTypeOK, RunFitsNext, PoliciesOnlyGrow, IdleRun

LEMMA LedgerTypesNext ==
  ASSUME TypeInv, [LedgerNext]_attendanceVars
  PROVE  TypeInv' /\ PoliciesOnlyGrow
<1> USE DEF TypeInv
<1>1. ASSUME NEW e \in Events, Record(e)
      PROVE  TypeInv' /\ PoliciesOnlyGrow
  <2>1. UNCHANGED <<policyVars, normalized, ledger, sources, run, restarts>>
        /\ raw' = raw \cup {e}
    BY <1>1 DEF Record
  <2>2. PoliciesTypeOK' /\ PoliciesOnlyGrow /\ DOMAIN SeededPolicies \subseteq DOMAIN policies'
    BY <2>1 DEF LedgerTypeOK, policyVars, PoliciesTypeOK, PoliciesOnlyGrow
  <2>3. \A r \in LedgerRuns : RunTypeOK(run[r])'
    BY <2>1 DEF LedgerTypeOK, RunTypeOK, policyVars
  <2>4. QED
    BY <2>1, <2>2, <2>3 DEF LedgerTypeOK, Policies
<1>2. ASSUME NEW r \in LedgerRuns, Start(r)
      PROVE  TypeInv' /\ PoliciesOnlyGrow
  <2>1. PICK batch \in (SUBSET (raw \ normalized)) \ {{}} :
          run' = [run EXCEPT ![r].batch = batch]
    BY <1>2 DEF Start
  <2>2. UNCHANGED <<policyVars, raw, normalized, ledger, sources, restarts>>
    BY <1>2 DEF Start
  <2>3. PoliciesTypeOK' /\ PoliciesOnlyGrow /\ DOMAIN SeededPolicies \subseteq DOMAIN policies'
    BY <2>2 DEF LedgerTypeOK, policyVars, PoliciesTypeOK, PoliciesOnlyGrow
  <2>4. RunFitsNext([run[r] EXCEPT !.batch = batch])
    BY <2>1, <2>2 DEF LedgerTypeOK, RunTypeOK, RunFitsNext, policyVars
  <2>5. DOMAIN run' = LedgerRuns /\ \A t \in LedgerRuns : RunTypeOK(run[t])'
    BY <2>1, <2>2, <2>3, <2>4, RunsKeepTypes
  <2>6. QED
    BY <2>2, <2>3, <2>5 DEF LedgerTypeOK, Policies
<1>3. ASSUME NEW r \in LedgerRuns, Read(r)
      PROVE  TypeInv' /\ PoliciesOnlyGrow
  <2>a. PICK e \in UnreadEvents(r) : \E day \in Unread(run[r].cache, e) :
          \E policy \in Resolved(day) :
            run' = [run EXCEPT ![r].cache = Cached(@, day, policy)]
    BY <1>3 DEF Read, Earliest
  <2>b. PICK day \in Unread(run[r].cache, e) : \E policy \in Resolved(day) :
          run' = [run EXCEPT ![r].cache = Cached(@, day, policy)]
    BY <2>a
  <2>1. PICK policy \in Resolved(day) :
          run' = [run EXCEPT ![r].cache = Cached(@, day, policy)]
    BY <2>b
  <2>2. UNCHANGED <<policyVars, raw, normalized, ledger, sources, restarts>>
    BY <1>3 DEF Read
  <2>3. PoliciesTypeOK' /\ PoliciesOnlyGrow /\ DOMAIN SeededPolicies \subseteq DOMAIN policies'
    BY <2>2 DEF LedgerTypeOK, policyVars, PoliciesTypeOK, PoliciesOnlyGrow
  <2>4. e \in Events /\ e \in run[r].batch
    BY DEF UnreadEvents, LedgerTypeOK, RunTypeOK
  <2>5. day \in Days
    <3>1. CASE LocalDay(e) \notin DOMAIN run[r].cache
      <4>1. LocalDay(e) \in Days
        BY <2>4, AttendanceLedgerAssumption DEF LocalDay
      <4>2. QED
        BY <3>1, <4>1 DEF Unread
    <3>2. CASE LocalDay(e) \in DOMAIN run[r].cache
      <4>1. run[r].cache[LocalDay(e)] \in Known
        BY <3>2 DEF LedgerTypeOK, RunTypeOK, Known
      <4>2. ShiftOf(run[r].cache[LocalDay(e)]) \in ShiftOrNone
        BY <4>1, ShiftsAreKnown DEF LedgerTypeOK
      <4>3. DayOf(run[r].cache, e) \in Days
        BY <2>4, <4>2, DaysOfAnEvent DEF DayOf
      <4>4. QED
        BY <3>2, <4>3 DEF Unread
    <3>3. QED
      BY <3>1, <3>2
  <2>6. policy \in Known
    BY <2>5, ResolvedIsKnown
  <2>7. RunFitsNext([run[r] EXCEPT !.cache = Cached(run[r].cache, day, policy)])
    <3> DEFINE q == [run[r] EXCEPT !.cache = Cached(run[r].cache, day, policy)]
    <3>1. /\ DOMAIN q = {"batch", "cache"}
          /\ q.batch = run[r].batch /\ q.cache = Cached(run[r].cache, day, policy)
      BY DEF LedgerTypeOK, RunTypeOK
    <3>2. q.batch # {} /\ q.batch \in SUBSET raw
      BY <2>4, <3>1 DEF LedgerTypeOK, RunTypeOK
    <3>3. /\ DOMAIN q.cache \subseteq Days
          /\ \A d \in DOMAIN q.cache : q.cache[d] \in DOMAIN policies \cup {NoPolicy}
      BY <2>5, <2>6, <3>1 DEF Cached, LedgerTypeOK, RunTypeOK, Known
    <3>4. QED
      BY <2>2, <3>1, <3>2, <3>3 DEF RunFitsNext, policyVars
  <2>8. DOMAIN run' = LedgerRuns /\ \A t \in LedgerRuns : RunTypeOK(run[t])'
    BY <2>1, <2>2, <2>3, <2>7, RunsKeepTypes
  <2>9. QED
    BY <2>2, <2>3, <2>8 DEF LedgerTypeOK, Policies
<1>4. ASSUME NEW r \in LedgerRuns, Write(r)
      PROVE  TypeInv' /\ PoliciesOnlyGrow
  <2>1. PICK g \in NextGroup(r) :
          /\ run' = [run EXCEPT ![r] = Rest(r, g.events)]
          /\ normalized' = normalized \cup g.events
          /\ sources' = [sources EXCEPT ![g.day] = @ \cup g.events]
          /\ ledger' = [ledger EXCEPT ![g.day] =
               Upserted(@, g.policy, Normalize[<<g.events, ShiftOf(g.policy)>>])]
    BY <1>4 DEF Write
  <2>2. UNCHANGED <<policyVars, raw, restarts>>
    BY <1>4 DEF Write
  <2>3. PoliciesTypeOK' /\ PoliciesOnlyGrow /\ DOMAIN SeededPolicies \subseteq DOMAIN policies'
    BY <2>2 DEF LedgerTypeOK, policyVars, PoliciesTypeOK, PoliciesOnlyGrow
  <2>4. /\ g.day \in Days /\ g.policy \in Known
        /\ g.events \in SUBSET run[r].batch /\ g.events # {}
    BY GroupIsKnown
  <2>5. run[r].batch \in SUBSET raw /\ raw \subseteq Events /\ Events \subseteq EventIds
    BY AttendanceLedgerAssumption DEF LedgerTypeOK, RunTypeOK, EventIds
  <2>6. RunFitsNext(Rest(r, g.events))
    <3>1. CASE run[r].batch = g.events
      <4>1. Rest(r, g.events) = IdleRun
        BY <3>1 DEF Rest
      <4>2. QED
        BY <4>1 DEF RunFitsNext, IdleRun
    <3>2. CASE run[r].batch # g.events
      <4> DEFINE q == [run[r] EXCEPT !.batch = run[r].batch \ g.events]
      <4>1. Rest(r, g.events) = q
        BY <3>2 DEF Rest
      <4>2. /\ DOMAIN q = {"batch", "cache"}
            /\ q.batch = run[r].batch \ g.events /\ q.cache = run[r].cache
        BY DEF LedgerTypeOK, RunTypeOK
      <4>3. q.batch # {} /\ q.batch \in SUBSET raw
        BY <2>4, <2>5, <3>2, <4>2
      <4>4. QED
        BY <2>2, <4>1, <4>2, <4>3 DEF RunFitsNext, RunTypeOK, LedgerTypeOK, policyVars
    <3>3. QED
      BY <3>1, <3>2
  <2>7. DOMAIN run' = LedgerRuns /\ \A t \in LedgerRuns : RunTypeOK(run[t])'
    BY <2>1, <2>2, <2>3, <2>6, RunsKeepTypes
  <2>8. Normalize[<<g.events, ShiftOf(g.policy)>>].status \in LedgerStatuses
    BY <2>4, <2>5, ShiftsAreKnown, RowHasStatus DEF LedgerTypeOK
  <2>9. /\ DOMAIN ledger' = Days
        /\ \A d \in Days : ledger'[d] # NoLedger =>
             ledger'[d].policy \in Policies /\ ledger'[d].columns.status \in LedgerStatuses
    BY <2>1, <2>4, <2>8 DEF LedgerTypeOK, Upserted, Policies, Known, PoliciesTypeOK
  <2>10. sources' \in [Days -> SUBSET raw']
    BY <2>1, <2>2, <2>4, <2>5 DEF LedgerTypeOK
  <2>11. raw' \subseteq Events /\ normalized' \subseteq raw' /\ restarts' \in 0..MaxRestarts
    BY <2>1, <2>2, <2>4, <2>5 DEF LedgerTypeOK
  <2>12. QED
    BY <2>3, <2>7, <2>9, <2>10, <2>11 DEF LedgerTypeOK, Policies
<1>5. ASSUME Restart
      PROVE  TypeInv' /\ PoliciesOnlyGrow
  <2>1. /\ UNCHANGED <<policyVars, raw, normalized, ledger, sources>>
        /\ restarts < MaxRestarts /\ restarts' = restarts + 1
        /\ run' = [r \in LedgerRuns |-> IdleRun]
    BY <1>5 DEF Restart
  <2>2. PoliciesTypeOK' /\ PoliciesOnlyGrow /\ DOMAIN SeededPolicies \subseteq DOMAIN policies'
    BY <2>1 DEF LedgerTypeOK, policyVars, PoliciesTypeOK, PoliciesOnlyGrow
  <2>3. \A r \in LedgerRuns : RunTypeOK(run[r])'
    BY <2>1 DEF RunTypeOK, IdleRun
  <2>4. restarts' \in 0..MaxRestarts
    BY <2>1, AttendanceLedgerAssumption DEF LedgerTypeOK
  <2>5. QED
    BY <2>1, <2>2, <2>3, <2>4 DEF LedgerTypeOK, Policies
<1>6. ASSUME PolicyRequest, UNCHANGED ledgerVars
      PROVE  TypeInv' /\ PoliciesOnlyGrow
  <2>1. PoliciesTypeOK' /\ PoliciesOnlyGrow
    BY <1>6, PolicyStep DEF LedgerTypeOK
  <2>2. \A r \in LedgerRuns : RunTypeOK(run[r])'
    BY <1>6, <2>1 DEF LedgerTypeOK, RunTypeOK, ledgerVars, PoliciesOnlyGrow
  <2>3. QED
    BY <1>6, <2>1, <2>2 DEF LedgerTypeOK, Policies, ledgerVars, PoliciesOnlyGrow
<1>7. CASE UNCHANGED attendanceVars
  BY <1>7 DEF attendanceVars, policyVars, ledgerVars, LedgerTypeOK, PoliciesTypeOK, RunTypeOK,
              Policies, PoliciesOnlyGrow
<1>8. QED
  BY <1>1, <1>2, <1>3, <1>4, <1>5, <1>6, <1>7 DEF LedgerNext, Step

\* The types hold, whatever the requests, the events and the restarts (LedgerTypeOK).
THEOREM LedgerTypesHold == LedgerSpec => []LedgerTypeOK
<1>1. LedgerInit => TypeInv
  BY LedgerTypesInit
<1>2. TypeInv /\ [LedgerNext]_attendanceVars => TypeInv'
  BY LedgerTypesNext
<1>3. TypeInv => LedgerTypeOK
  BY DEF TypeInv
<1>4. QED
  BY <1>1, <1>2, <1>3, PTL DEF LedgerSpec

(***************************************************************************)
(* What a ledger is explained by.                                          *)
(***************************************************************************)
LEMMA ShiftsAreKept ==
  ASSUME PoliciesOnlyGrow, NEW p \in Known
  PROVE  p \in Known' /\ ShiftOf(p)' = ShiftOf(p)
BY DEF PoliciesOnlyGrow, Known, ShiftOf

ExplainedBy(row, S, p) ==
  p \in {row.policy, NoPolicy} /\ row.columns = Normalize[<<S, ShiftOf(p)>>]

ExplainedInv ==
  \A d \in Days : ledger[d] # NoLedger =>
    /\ ledger[d].policy \in Known
    /\ \E S \in (SUBSET sources[d]) \ {{}} : \E p \in Known : ExplainedBy(ledger[d], S, p)

LEMMA ExplainedStep ==
  ASSUME TypeInv, ExplainedInv, [LedgerNext]_attendanceVars
  PROVE  ExplainedInv'
<1>1. PoliciesOnlyGrow
  BY LedgerTypesNext
<1>2. \A p \in Known : p \in Known' /\ ShiftOf(p)' = ShiftOf(p)
  BY <1>1, ShiftsAreKept
<1>3. ASSUME NEW d \in Days, ledger'[d] # NoLedger,
             ledger'[d] = ledger[d], sources[d] \subseteq sources'[d]
      PROVE  /\ ledger'[d].policy \in Known'
             /\ \E S \in (SUBSET sources'[d]) \ {{}} : \E p \in Known' :
                  ExplainedBy(ledger[d], S, p)'
  <2>1. PICK S \in (SUBSET sources[d]) \ {{}} : \E p \in Known : ExplainedBy(ledger[d], S, p)
    BY <1>3 DEF ExplainedInv
  <2>2. PICK p \in Known : ExplainedBy(ledger[d], S, p)
    BY <2>1
  <2>3. p \in Known' /\ ShiftOf(p)' = ShiftOf(p)
    BY <1>2
  <2>4. ExplainedBy(ledger[d], S, p)'
    BY <1>3, <2>2, <2>3 DEF ExplainedBy
  <2>5. ledger'[d].policy \in Known'
    BY <1>2, <1>3 DEF ExplainedInv
  <2>6. QED
    BY <1>3, <2>3, <2>4, <2>5
<1>4. CASE \E r \in LedgerRuns : Write(r)
  <2>1. PICK r \in LedgerRuns : Write(r)
    BY <1>4
  <2>2. PICK g \in NextGroup(r) :
          /\ sources' = [sources EXCEPT ![g.day] = @ \cup g.events]
          /\ ledger' = [ledger EXCEPT ![g.day] =
               Upserted(@, g.policy, Normalize[<<g.events, ShiftOf(g.policy)>>])]
    BY <2>1 DEF Write
  <2>3. g.day \in Days /\ g.policy \in Known /\ g.events # {}
    BY GroupIsKnown
  <2>4. UNCHANGED policies
    BY <2>1 DEF Write, policyVars
  <2>5. \A d \in Days : sources[d] \subseteq sources'[d]
    BY <2>2, <2>3 DEF TypeInv, LedgerTypeOK
  <2>6. /\ g.events \subseteq sources'[g.day]
        /\ ledger'[g.day] = Upserted(ledger[g.day], g.policy,
                                     Normalize[<<g.events, ShiftOf(g.policy)>>])
    BY <2>2, <2>3 DEF TypeInv, LedgerTypeOK
  <2>7. ledger'[g.day].policy \in Known'
    BY <2>3, <2>4, <2>6 DEF Upserted, ExplainedInv, Known
  <2>8. ExplainedBy(ledger[g.day], g.events, g.policy)'
    <3>1. ShiftOf(g.policy)' = ShiftOf(g.policy)
      BY <2>4 DEF ShiftOf
    <3>2. QED
      BY <2>6, <3>1 DEF ExplainedBy, Upserted
  <2>9. \A d \in Days \ {g.day} : ledger'[d] = ledger[d]
    BY <2>2 DEF TypeInv, LedgerTypeOK
  <2>10. QED
    BY <1>2, <1>3, <2>3, <2>5, <2>6, <2>7, <2>8, <2>9 DEF ExplainedInv
<1>5. CASE UNCHANGED <<ledger, sources>>
  BY <1>3, <1>5 DEF ExplainedInv
<1>6. QED
  BY <1>4, <1>5 DEF LedgerNext, Step, Record, Start, Read, Restart, ledgerVars, attendanceVars

\* A ledger can be recomputed from its source events and the policy version it records,
\* whatever is published later (normalizeAttendanceJob, ShiftPolicy's versions).
THEOREM LedgersAreExplained == LedgerSpec => []RecordedPolicyExplainsLedger
<1>1. LedgerInit => TypeInv /\ ExplainedInv
  BY LedgerTypesInit DEF LedgerInit, ExplainedInv
<1>2. TypeInv /\ ExplainedInv /\ [LedgerNext]_attendanceVars => TypeInv' /\ ExplainedInv'
  BY LedgerTypesNext, ExplainedStep
<1>3. ExplainedInv => RecordedPolicyExplainsLedger
  BY DEF ExplainedInv, ExplainedBy, RecordedPolicyExplainsLedger, Known
<1>4. QED
  BY <1>1, <1>2, <1>3, PTL DEF LedgerSpec

(***************************************************************************)
(* The days of the sources.                                                *)
(***************************************************************************)
LEMMA Division ==
  ASSUME NEW x \in Int, NEW n \in Nat, n > 0
  PROVE  /\ x \div n \in Int /\ x % n \in Int
         /\ x = (x \div n) * n + (x % n)
         /\ 0 <= x % n /\ x % n < n
OBVIOUS

\* What WorkDayFor makes of an event is the day that InDay says, for the shifts whose
\* overtime past midnight is no longer than a day.
LEMMA WorkDayIsItsDay ==
  ASSUME NEW e \in EventIds, NEW shift \in ShiftOrNone,
         0 <= Carryover(shift), Carryover(shift) <= DayLength
  PROVE  InDay(e, WorkDayFor(e, shift), shift)
<1> DEFINE x == EventTime[e] + Offset
           q == x \div DayLength
           m == x % DayLength
           c == Carryover(shift)
<1>1. x \in Int /\ DayLength \in Nat \ {0}
  BY AttendanceLedgerAssumption DEF EventIds
<1>2. q \in Int /\ m \in Int /\ x = q * DayLength + m /\ 0 <= m /\ m < DayLength
  <2> HIDE DEF x
  <2>1. DayLength \in Nat /\ DayLength > 0
    BY <1>1
  <2>2. QED
    BY <1>1, <2>1, Division
<1>3. c \in Int
  <2>1. CASE shift = NoPolicy
    BY <2>1 DEF Carryover
  <2>2. CASE shift \in Shifts
    <3>1. shift.end \in Int /\ shift.grace \in Int
      BY <2>2, ShiftPoliciesAssumption DEF ShiftFields
    <3>2. QED
      BY <3>1 DEF Carryover, Larger
  <2>3. QED
    BY <2>1, <2>2 DEF ShiftOrNone
<1> DEFINE since == x - WorkDayFor(e, shift) * DayLength
<1>4. InDay(e, WorkDayFor(e, shift), shift) <=> since - c \in 0..(DayLength - 1)
  BY DEF InDay
<1>5. CASE shift # NoPolicy /\ shift.end <= shift.start /\ m < shift.end + Larger(shift.grace, 0)
  <2>1. WorkDayFor(e, shift) = q - 1 /\ m < c
    BY <1>5 DEF WorkDayFor, LocalDay, LocalTime, Carryover
  <2>2. x - (q - 1) * DayLength = m + DayLength
    <3> HIDE DEF x, q, m
    <3>1. QED
      BY <1>1, <1>2
  <2>3. c <= m + DayLength /\ m + DayLength < DayLength + c
    BY <1>1, <1>2, <1>3, <2>1
  <2>4. since = m + DayLength
    <3> HIDE DEF x, q, m
    <3>1. QED
      BY <2>1, <2>2
  <2> HIDE DEF x, q, since, m, c
  <2>5. QED
    BY <1>1, <1>2, <1>3, <1>4, <2>3, <2>4
<1>6. CASE ~(shift # NoPolicy /\ shift.end <= shift.start
             /\ m < shift.end + Larger(shift.grace, 0))
  <2>1. WorkDayFor(e, shift) = q
    BY <1>6 DEF WorkDayFor, LocalDay, LocalTime
  <2>2. c <= m
    <3>1. CASE shift # NoPolicy /\ shift.end <= shift.start
      <4>1. c = shift.end + Larger(shift.grace, 0)
        BY <3>1 DEF Carryover
      <4>2. QED
        BY <1>2, <1>3, <1>6, <3>1, <4>1
    <3>2. CASE ~(shift # NoPolicy /\ shift.end <= shift.start)
      <4>1. c = 0
        BY <3>2 DEF Carryover
      <4>2. QED
        BY <1>2, <4>1
    <3>3. QED
      BY <3>1, <3>2
  <2>3. x - q * DayLength = m
    <3> HIDE DEF x, q, m
    <3>1. QED
      BY <1>1, <1>2
  <2>4. m < DayLength + c
    BY <1>1, <1>2, <1>3
  <2>5. since = m
    <3> HIDE DEF x, q, m
    <3>1. QED
      BY <2>1, <2>3
  <2> HIDE DEF x, q, since, m, c
  <2>6. QED
    BY <1>1, <1>2, <1>3, <1>4, <2>2, <2>4, <2>5
<1>7. QED
  BY <1>5, <1>6

\* A company with a default keeps one; a request that clears defaults leaves its own.
DefaultInv ==
  /\ MayLackDefault \/ \E k \in DOMAIN policies : k[1] = Company /\ policies[k].isDefault
  /\ \A s \in PolicySlots : policyRequest[s] # NoRequest =>
       (policyRequest[s].pc = "clear" \/ policyRequest[s].cleared # {}
         => policyRequest[s].row.isDefault)

CacheInv ==
  \A r \in LedgerRuns : \A d \in DOMAIN run[r].cache :
    run[r].cache[d] = NoPolicy => MayLackDefault

SourcesInv ==
  \A d \in Days : \A e \in sources[d] : \E p \in Known :
    WorkDayFor(e, ShiftOf(p)) = d /\ (p = NoPolicy => MayLackDefault)

LEMMA EnterKeepsDefaults ==
  ASSUME DefaultInv, PoliciesTypeOK, NEW s \in PolicySlots, NEW caller \in Companies,
         NEW key, NEW shift, NEW clears \in BOOLEAN,
         NEW isDefault \in BOOLEAN, Enter(s, caller, key, shift, clears, isDefault),
         clears => isDefault, UNCHANGED policies
  PROVE  DefaultInv'
<1> DEFINE new == [pc |-> IF clears THEN "clear" ELSE "insert", caller |-> caller,
                   key |-> key, row |-> [shift |-> shift, isDefault |-> isDefault],
                   cleared |-> {}]
<1>1. policyRequest' = [policyRequest EXCEPT ![s] = new]
  BY DEF Enter
<1>2. (new.pc = "clear" \/ new.cleared # {}) => new.row.isDefault
  OBVIOUS
<1>3. QED
  BY <1>1, <1>2 DEF DefaultInv, MayLackDefault, PoliciesTypeOK

LEMMA DefaultStep ==
  ASSUME DefaultInv, PoliciesTypeOK, PolicyRequest
  PROVE  DefaultInv'
<1>1. PICK s \in PolicySlots :
        \/ \E q \in Creates : BeginCreatePolicy(s, q)
        \/ \E q \in Updates : BeginUpdatePolicy(s, q)
        \/ ClearDefaults(s)
        \/ InsertVersion(s)
  BY DEF PolicyRequest
<1>2. CASE \E q \in Creates : BeginCreatePolicy(s, q)
  <2>1. PICK q \in CreateInputs : BeginCreatePolicy(s, q)
    BY <1>2, ShiftPoliciesAssumption
  <2>2. PICK latest \in Latest(q.caller, q.code) :
          LET v == IF q.version = 0 THEN latest + 1 ELSE q.version
          IN  Enter(s, q.caller, <<q.caller, q.code, v>>, q.shift, q.isDefault, q.isDefault)
    BY <2>1 DEF BeginCreatePolicy
  <2>3. UNCHANGED policies /\ q.caller \in Companies /\ q.isDefault \in BOOLEAN
    BY <2>1 DEF BeginCreatePolicy, CreateInputs
  <2>4. QED
    BY <2>2, <2>3, EnterKeepsDefaults
<1>3. CASE \E q \in Updates : BeginUpdatePolicy(s, q)
  <2>1. PICK q \in UpdateInputs : BeginUpdatePolicy(s, q)
    BY <1>3, ShiftPoliciesAssumption
  <2> DEFINE key == <<q.key[1], q.key[2], q.key[3] + 1>>
             isDefault == IF q.asked = "same" THEN policies[q.key].isDefault
                          ELSE q.asked = "yes"
  <2>2. isDefault \in BOOLEAN /\ (q.asked = "yes" => isDefault)
    BY <2>1 DEF BeginUpdatePolicy, PoliciesTypeOK, PolicyRows
  <2>3. Enter(s, q.caller, key, q.shift, q.asked = "yes", isDefault) /\ UNCHANGED policies
    BY <2>1 DEF BeginUpdatePolicy
  <2>4. q.caller \in Companies /\ (q.asked = "yes") \in BOOLEAN
    BY DEF UpdateInputs
  <2> HIDE DEF key, isDefault
  <2>5. QED
    BY <2>2, <2>3, <2>4, EnterKeepsDefaults
<1>4. CASE ClearDefaults(s)
  <2>1. policyRequest[s] \in RequestAt({"clear", "insert"}) /\ policyRequest[s] # NoRequest
    BY <1>4 DEF ClearDefaults, PoliciesTypeOK, NoRequest
  <2>2. policyRequest[s].row.isDefault
    BY <1>4, <2>1 DEF ClearDefaults, DefaultInv
  <2>3. /\ policyRequest'[s].row.isDefault
        /\ \A t \in PolicySlots \ {s} : policyRequest'[t] = policyRequest[t]
    BY <1>4, <2>1, <2>2 DEF ClearDefaults, PoliciesTypeOK, RequestAt
  <2>4. UNCHANGED policies
    BY <1>4 DEF ClearDefaults
  <2>5. QED
    BY <2>3, <2>4 DEF DefaultInv, MayLackDefault
<1>5. CASE InsertVersion(s)
  <2> DEFINE q == policyRequest[s]
  <2>1. q \in RequestAt({"clear", "insert"}) /\ q # NoRequest
    BY <1>5 DEF InsertVersion, PoliciesTypeOK, NoRequest
  <2>2. \A t \in PolicySlots : policyRequest'[t] # NoRequest =>
          policyRequest'[t] = policyRequest[t]
    BY <1>5 DEF InsertVersion, PoliciesTypeOK
  <2>3. CASE q.key \in DOMAIN policies \/ MayLackDefault
    BY <1>5, <2>2, <2>3 DEF InsertVersion, DefaultInv, MayLackDefault
  <2>4. CASE q.key \notin DOMAIN policies /\ ~MayLackDefault
    <3>1. policies' = WithVersion(q)
      BY <1>5, <2>4 DEF InsertVersion
    <3>2. q.key[1] = Company
      BY <2>1, <2>4 DEF MayLackDefault, RequestAt, PolicyKeys
    <3>3. PICK k \in DOMAIN policies : k[1] = Company /\ policies[k].isDefault
      BY <2>4 DEF DefaultInv
    <3>4. \E l \in DOMAIN policies' : l[1] = Company /\ policies'[l].isDefault
      <4>1. CASE q.row.isDefault
        BY <3>1, <3>2, <4>1 DEF WithVersion
      <4>2. CASE ~q.row.isDefault
        <5>1. q.cleared = {}
          BY <2>1, <4>2 DEF DefaultInv
        <5>2. policies'[k] = policies[k] /\ k \in DOMAIN policies'
          BY <2>4, <3>1, <5>1 DEF WithVersion
        <5>3. QED
          BY <3>3, <5>2
      <4>3. QED
        BY <4>1, <4>2
    <3>5. QED
      BY <2>2, <3>4 DEF DefaultInv
  <2>5. QED
    BY <2>3, <2>4
<1>6. QED
  BY <1>1, <1>2, <1>3, <1>4, <1>5

LEMMA DaysStep ==
  ASSUME TypeInv, DefaultInv, CacheInv, SourcesInv, [LedgerNext]_attendanceVars
  PROVE  DefaultInv' /\ CacheInv' /\ SourcesInv'
<1>1. PoliciesOnlyGrow /\ PoliciesTypeOK
  BY LedgerTypesNext DEF TypeInv, LedgerTypeOK
<1>2. \A p \in Known : p \in Known' /\ ShiftOf(p)' = ShiftOf(p)
  BY <1>1, ShiftsAreKept
<1>3. MayLackDefault' = MayLackDefault
  BY DEF MayLackDefault
<1>4. DefaultInv'
  <2>1. CASE PolicyRequest
    BY <1>1, <2>1, DefaultStep
  <2>2. CASE UNCHANGED policyVars
    BY <2>2, <1>3 DEF DefaultInv, policyVars
  <2>3. QED
    BY <2>1, <2>2 DEF LedgerNext, Step, Record, Start, Read, Write, Restart, attendanceVars
<1>5. CacheInv'
  <2>1. CASE UNCHANGED run
    BY <1>3, <2>1 DEF CacheInv
  <2>2. ASSUME NEW r \in LedgerRuns, NEW q, run' = [run EXCEPT ![r] = q],
               \A d \in DOMAIN q.cache : q.cache[d] = NoPolicy => MayLackDefault
        PROVE  CacheInv'
    BY <1>3, <2>2 DEF CacheInv, TypeInv, LedgerTypeOK
  <2>3. ASSUME NEW r \in LedgerRuns, Start(r)
        PROVE  CacheInv'
    <3>1. PICK batch : run' = [run EXCEPT ![r].batch = batch]
      BY <2>3 DEF Start
    <3>2. \A d \in DOMAIN run[r].cache : run[r].cache[d] = NoPolicy => MayLackDefault
      BY DEF CacheInv
    <3>3. [run[r] EXCEPT !.batch = batch].cache = run[r].cache
      BY DEF TypeInv, LedgerTypeOK, RunTypeOK
    <3>4. QED
      BY <2>2, <3>1, <3>2, <3>3
  <2>4. ASSUME NEW r \in LedgerRuns, Read(r)
        PROVE  CacheInv'
    <3>1. PICK e \in UnreadEvents(r) : \E day \in Unread(run[r].cache, e) :
            \E policy \in Resolved(day) :
              run' = [run EXCEPT ![r].cache = Cached(@, day, policy)]
      BY <2>4 DEF Read, Earliest
    <3>2. PICK day \in Unread(run[r].cache, e) : \E policy \in Resolved(day) :
            run' = [run EXCEPT ![r].cache = Cached(@, day, policy)]
      BY <3>1
    <3>3. PICK policy \in Resolved(day) :
            run' = [run EXCEPT ![r].cache = Cached(@, day, policy)]
      BY <3>2
    <3>4. policy = NoPolicy => MayLackDefault
      BY AttendanceLedgerAssumption DEF Resolved, DefaultInv, PoliciesTypeOK, TypeInv,
         LedgerTypeOK
    <3> DEFINE cache == Cached(run[r].cache, day, policy)
    <3>5. \A d \in DOMAIN cache : cache[d] = NoPolicy => MayLackDefault
      BY <3>4 DEF Cached, CacheInv
    <3>6. [run[r] EXCEPT !.cache = cache].cache = cache
      BY DEF TypeInv, LedgerTypeOK, RunTypeOK
    <3> HIDE DEF cache
    <3>7. QED
      BY <2>2, <3>3, <3>5, <3>6 DEF cache
  <2>5. ASSUME NEW r \in LedgerRuns, Write(r)
        PROVE  CacheInv'
    <3>1. PICK g \in NextGroup(r) : run' = [run EXCEPT ![r] = Rest(r, g.events)]
      BY <2>5 DEF Write
    <3>2. \A d \in DOMAIN Rest(r, g.events).cache :
            Rest(r, g.events).cache[d] = NoPolicy => MayLackDefault
      BY DEF Rest, IdleRun, CacheInv, TypeInv, LedgerTypeOK, RunTypeOK
    <3>3. QED
      BY <2>2, <3>1, <3>2
  <2>6. CASE Restart
    BY <2>6 DEF Restart, CacheInv, IdleRun
  <2>7. QED
    BY <2>1, <2>3, <2>4, <2>5, <2>6 DEF LedgerNext, Step, Record, attendanceVars, ledgerVars
<1>6. SourcesInv'
  <2>1. CASE UNCHANGED sources
    BY <1>2, <1>3, <2>1 DEF SourcesInv
  <2>2. ASSUME NEW r \in LedgerRuns, Write(r)
        PROVE  SourcesInv'
    <3>1. PICK g \in NextGroup(r) : sources' = [sources EXCEPT ![g.day] = @ \cup g.events]
      BY <2>2 DEF Write
    <3>2. ASSUME NEW e \in g.events
          PROVE  \E p \in Known : /\ WorkDayFor(e, ShiftOf(p)) = g.day
                                  /\ p = NoPolicy => MayLackDefault
      <4> DEFINE p == run[r].cache[LocalDay(e)]
      <4>1. LocalDay(e) \in DOMAIN run[r].cache /\ WorkDayFor(e, ShiftOf(p)) = g.day
        BY GroupIsKnown
      <4>2. p \in Known /\ (p = NoPolicy => MayLackDefault)
        BY <4>1 DEF CacheInv, TypeInv, LedgerTypeOK, RunTypeOK, Known
      <4>3. QED
        BY <4>1, <4>2
    <3>3. g.day \in Days
      BY GroupIsKnown
    <3>4. \A d \in Days : \A e \in sources'[d] :
            e \in sources[d] \/ (d = g.day /\ e \in g.events)
      BY <3>1, <3>3 DEF TypeInv, LedgerTypeOK
    <3>5. \A d \in Days : \A e \in sources'[d] : \E p \in Known :
            WorkDayFor(e, ShiftOf(p)) = d /\ (p = NoPolicy => MayLackDefault)
      BY <3>2, <3>4 DEF SourcesInv
    <3>6. QED
      BY <1>2, <1>3, <3>5 DEF SourcesInv
  <2>3. QED
    BY <2>1, <2>2 DEF LedgerNext, Step, Record, Start, Read, Restart, attendanceVars, ledgerVars
<1>7. QED
  BY <1>4, <1>5, <1>6

\* No shift is late by more than a day: its end and its grace together.
ShiftsEndWithinADay ==
  \A shift \in ShiftOrNone : 0 <= Carryover(shift) /\ Carryover(shift) <= DayLength

\* The source events of a ledger fall on its day, as some published policy divides time
\* (resolveWorkDateKeyForEvent, resolvePolicy, updateShiftPolicy's exchange of defaults).
THEOREM SourcesFallOnTheirDay ==
  ASSUME ShiftsEndWithinADay
  PROVE  LedgerSpec => []SourcesBelongToTheirDay
<1> DEFINE Inv == TypeInv /\ DefaultInv /\ CacheInv /\ SourcesInv
<1>1. LedgerInit => Inv
  <2> SUFFICES ASSUME LedgerInit PROVE Inv
    OBVIOUS
  <2>1. TypeInv
    BY LedgerTypesInit
  <2>2. DefaultInv
    BY DEF LedgerInit, PolicyInit, DefaultInv, MayLackDefault
  <2>3. CacheInv /\ SourcesInv
    BY DEF LedgerInit, CacheInv, SourcesInv, IdleRun
  <2>4. QED
    BY <2>1, <2>2, <2>3
<1>2. Inv /\ [LedgerNext]_attendanceVars => Inv'
  BY LedgerTypesNext, DaysStep
<1>3. Inv => SourcesBelongToTheirDay
  <2> SUFFICES ASSUME Inv, NEW d \in Days, NEW e \in sources[d]
               PROVE  \/ \E p \in DOMAIN policies : InDay(e, d, ShiftOf(p))
                      \/ MayLackDefault /\ InDay(e, d, NoPolicy)
    BY DEF SourcesBelongToTheirDay
  <2>1. PICK p \in Known : WorkDayFor(e, ShiftOf(p)) = d /\ (p = NoPolicy => MayLackDefault)
    BY DEF SourcesInv
  <2>2. e \in EventIds
    BY AttendanceLedgerAssumption DEF TypeInv, LedgerTypeOK, EventIds
  <2>3. ShiftOf(p) \in ShiftOrNone
    BY ShiftsAreKnown DEF TypeInv, LedgerTypeOK
  <2>4. InDay(e, d, ShiftOf(p))
    BY <2>1, <2>2, <2>3, WorkDayIsItsDay DEF ShiftsEndWithinADay
  <2>5. QED
    BY <2>1, <2>4 DEF Known, ShiftOf
<1>4. QED
  BY <1>1, <1>2, <1>3, PTL DEF LedgerSpec

(***************************************************************************)
(* Sums.  A sum over a finite set is a fold that takes one element after   *)
(* another; what it comes to is found by induction on the size of the set, *)
(* which is the fact that a set of numbers has a smallest one.             *)
(***************************************************************************)
LEMMA Smallest ==
  ASSUME NEW U \in SUBSET Nat, U # {}
  PROVE  \E x \in U : \A y \in U : x <= y
<1> DEFINE Less == OpToRel(<, Nat)
<1>1. \A x, y \in Nat : x < y => <<x, y>> \in Less
  BY DEF OpToRel
<1>2. IsWellFoundedOn(Less, Nat)
  BY NatLessThanWellFounded
<1> HIDE DEF Less
<1>3. PICK x \in U : \A y \in U : ~(<<y, x>> \in Less)
  BY <1>2, WFMin
<1>4. \A y \in U : ~(y < x)
  BY <1>1, <1>3
<1>5. QED
  BY <1>4

LEMMA Induction ==
  ASSUME NEW T, 0 \in T, \A n \in Nat : n \in T => n + 1 \in T
  PROVE  Nat \subseteq T
<1>1. SUFFICES ASSUME ~(Nat \subseteq T) PROVE FALSE
  OBVIOUS
<1>2. PICK x \in Nat \ T : \A y \in Nat \ T : x <= y
  BY <1>1, Smallest
<1>3. x - 1 \in Nat /\ x = (x - 1) + 1 /\ ~(x <= x - 1)
  BY <1>2
<1>4. QED
  BY <1>2, <1>3

Picked(T) == CHOOSE x \in T : TRUE

\* g is what the fold computes for the subsets of f's domain that are in W.
Folds(g, f, W) ==
  g = [T \in W |-> IF T = {} THEN 0 ELSE f[Picked(T)] + g[T \ {Picked(T)}]]

LEMMA TotalIsAFold ==
  ASSUME NEW f, NEW h, Folds(h, f, SUBSET DOMAIN f)
  PROVE  \E g : Folds(g, f, SUBSET DOMAIN f) /\ Total(f) = g[DOMAIN f]
<1>1. Folds(CHOOSE g : Folds(g, f, SUBSET DOMAIN f), f, SUBSET DOMAIN f)
  OBVIOUS
<1>2. Total(f) = (CHOOSE g : Folds(g, f, SUBSET DOMAIN f))[DOMAIN f]
  BY DEF Total, MapThenSumSet, MapThenFoldSet, Folds, Picked
<1>3. QED
  BY <1>1, <1>2

UpTo(D, n) == {T \in SUBSET D : Cardinality(T) <= n}

LEMMA OneLess ==
  ASSUME NEW D, IsFiniteSet(D), NEW T \in SUBSET D, T # {}
  PROVE  /\ Picked(T) \in T
         /\ T \ {Picked(T)} \in SUBSET D
         /\ Cardinality(T) \in Nat
         /\ Cardinality(T) = Cardinality(T \ {Picked(T)}) + 1
<1>1. Picked(T) \in T
  BY DEF Picked
<1>2. IsFiniteSet(T) /\ Cardinality(T) \in Nat
  BY FS_Subset, FS_CardinalityType
<1>3. Cardinality(T \ {Picked(T)}) = Cardinality(T) - 1
  BY <1>1, <1>2, FS_RemoveElement
<1>4. QED
  BY <1>1, <1>2, <1>3

\* The fold exists, as it does for the sets of up to any size.
LEMMA FoldExists ==
  ASSUME NEW f, IsFiniteSet(DOMAIN f)
  PROVE  \E h : Folds(h, f, SUBSET DOMAIN f)
<1> DEFINE D == DOMAIN f
           Sizes == {n \in Nat : \E h : Folds(h, f, UpTo(D, n))}
<1>1. 0 \in Sizes
  <2> DEFINE h == [T \in UpTo(D, 0) |-> 0]
  <2>1. \A T \in UpTo(D, 0) : T = {}
    <3>1. \A T \in UpTo(D, 0) : IsFiniteSet(T) /\ Cardinality(T) \in Nat
      BY FS_Subset, FS_CardinalityType DEF UpTo
    <3>2. \A T \in UpTo(D, 0) : Cardinality(T) = 0
      BY <3>1 DEF UpTo
    <3>3. QED
      BY <3>1, <3>2, FS_EmptySet
  <2>2. Folds(h, f, UpTo(D, 0))
    BY <2>1 DEF Folds
  <2>3. QED
    BY <2>2
<1>2. ASSUME NEW n \in Nat, n \in Sizes
      PROVE  n + 1 \in Sizes
  <2>1. PICK h : Folds(h, f, UpTo(D, n))
    BY <1>2
  <2> DEFINE k == [T \in UpTo(D, n + 1) |-> IF T = {} THEN 0 ELSE f[Picked(T)] + h[T \ {Picked(T)}]]
  <2>2. UpTo(D, n) \subseteq UpTo(D, n + 1)
    <3>1. \A T \in SUBSET D : Cardinality(T) \in Nat
      BY FS_Subset, FS_CardinalityType
    <3>2. QED
      BY <3>1 DEF UpTo
  <2>3. \A T \in UpTo(D, n) : k[T] = h[T]
    BY <2>1, <2>2 DEF Folds
  <2>4. \A T \in UpTo(D, n + 1) : T # {} => T \ {Picked(T)} \in UpTo(D, n)
    <3>1. TAKE T \in UpTo(D, n + 1)
    <3>2. HAVE T # {}
    <3>3. T \in SUBSET D /\ Cardinality(T) <= n + 1
      BY DEF UpTo
    <3>4. /\ T \ {Picked(T)} \in SUBSET D /\ Cardinality(T) \in Nat
          /\ Cardinality(T) = Cardinality(T \ {Picked(T)}) + 1
      BY <3>2, <3>3, OneLess
    <3>5. Cardinality(T \ {Picked(T)}) \in Nat
      BY <3>4, FS_Subset, FS_CardinalityType
    <3>6. Cardinality(T \ {Picked(T)}) <= n
      BY <3>3, <3>4, <3>5
    <3>7. QED
      BY <3>4, <3>6 DEF UpTo
  <2>5. k = [T \in UpTo(D, n + 1) |-> IF T = {} THEN 0 ELSE f[Picked(T)] + k[T \ {Picked(T)}]]
    BY <2>3, <2>4
  <2> HIDE DEF k
  <2>6. Folds(k, f, UpTo(D, n + 1))
    BY <2>5 DEF Folds
  <2>7. QED
    BY <2>6
<1>3. Cardinality(D) \in Sizes
  <2>1. Cardinality(D) \in Nat
    BY FS_CardinalityType
  <2> HIDE DEF Sizes
  <2>2. QED
    BY <1>1, <1>2, <2>1, Induction
<1>4. UpTo(D, Cardinality(D)) = SUBSET D
  BY FS_Subset DEF UpTo
<1>5. QED
  BY <1>3, <1>4

\* The parts of f are finite, have nothing in common, and are of the sizes f says.
PartsOf(f, part) ==
  /\ IsFiniteSet(DOMAIN f) /\ DOMAIN part = DOMAIN f
  /\ \A x \in DOMAIN f : IsFiniteSet(part[x]) /\ f[x] = Cardinality(part[x])
  /\ \A x, y \in DOMAIN f : x # y => part[x] \cap part[y] = {}

Whole(part) == UNION {part[x] : x \in DOMAIN part}

\* A sum of the sizes of such parts is the size of what they make together.
LEMMA TotalCounts ==
  ASSUME NEW f, NEW part, PartsOf(f, part)
  PROVE  IsFiniteSet(Whole(part)) /\ Total(f) = Cardinality(Whole(part))
<1> DEFINE D == DOMAIN f
           U(T) == UNION {part[x] : x \in T}
<1>1. PICK g : Folds(g, f, SUBSET D) /\ Total(f) = g[D]
  BY FoldExists, TotalIsAFold DEF PartsOf
<1> DEFINE Sizes == {n \in Nat : \A T \in SUBSET D : Cardinality(T) = n =>
                                   IsFiniteSet(U(T)) /\ g[T] = Cardinality(U(T))}
<1>2. 0 \in Sizes
  <2>1. ASSUME NEW T \in SUBSET D, Cardinality(T) = 0
        PROVE  IsFiniteSet(U(T)) /\ g[T] = Cardinality(U(T))
    <3>1. T = {}
      BY <2>1, FS_Subset, FS_EmptySet DEF PartsOf
    <3>2. U(T) = {}
      BY <3>1
    <3>3. g[T] = 0
      BY <1>1, <3>1 DEF Folds
    <3>4. QED
      BY <3>2, <3>3, FS_EmptySet
  <2>2. QED
    BY <2>1
<1>3. ASSUME NEW n \in Nat, n \in Sizes
      PROVE  n + 1 \in Sizes
  <2>1. ASSUME NEW T \in SUBSET D, Cardinality(T) = n + 1
        PROVE  IsFiniteSet(U(T)) /\ g[T] = Cardinality(U(T))
    <3> DEFINE x == Picked(T)
               V == T \ {x}
    <3>1. T # {}
      BY <2>1, FS_EmptySet
    <3>2. x \in T /\ V \in SUBSET D /\ Cardinality(T) = Cardinality(V) + 1
      BY <3>1, OneLess DEF PartsOf
    <3>3. Cardinality(V) = n
      <4>1. Cardinality(V) \in Nat
        BY <3>2, FS_Subset, FS_CardinalityType DEF PartsOf
      <4> HIDE DEF V
      <4>2. QED
        BY <2>1, <3>2, <4>1
    <3>4. IsFiniteSet(U(V)) /\ g[V] = Cardinality(U(V))
      BY <1>3, <3>2, <3>3
    <3>5. IsFiniteSet(part[x]) /\ f[x] = Cardinality(part[x])
      BY <3>2 DEF PartsOf
    <3>6. part[x] \cap U(V) = {}
      <4>1. \A y \in V : part[x] \cap part[y] = {}
        BY <3>2 DEF PartsOf
      <4>2. QED
        BY <4>1
    <3>7. U(T) = part[x] \cup U(V)
      BY <3>2
    <3>8. g[T] = f[x] + g[V]
      BY <1>1, <3>1 DEF Folds
    <3> HIDE DEF x, V, U
    <3>9. IsFiniteSet(U(T))
          /\ Cardinality(U(T)) = Cardinality(part[x]) + Cardinality(U(V)) - Cardinality({})
      BY <3>4, <3>5, <3>6, <3>7, FS_Union
    <3>10. Cardinality(part[x]) \in Nat /\ Cardinality(U(V)) \in Nat /\ Cardinality({}) = 0
      BY <3>4, <3>5, FS_CardinalityType, FS_EmptySet
    <3>11. QED
      BY <3>4, <3>5, <3>8, <3>9, <3>10
  <2>2. QED
    BY <2>1
<1>4. Cardinality(D) \in Sizes
  <2>1. Cardinality(D) \in Nat
    BY FS_CardinalityType DEF PartsOf
  <2> HIDE DEF Sizes
  <2>2. QED
    BY <1>2, <1>3, <2>1, Induction
<1>5. Whole(part) = U(D)
  BY DEF PartsOf, Whole
<1>6. QED
  BY <1>1, <1>4, <1>5

(***************************************************************************)
(* Nights.                                                                 *)
(***************************************************************************)
Span(a, b) == a..(b - 1)

LEMMA SpanSize ==
  ASSUME NEW a \in Int, NEW b \in Int
  PROVE  /\ IsFiniteSet(Span(a, b))
         /\ Cardinality(Span(a, b)) = Larger(0, b - a)
<1>1. b - 1 \in Int /\ (a > b - 1 <=> b <= a) /\ b - 1 - a + 1 = b - a
  OBVIOUS
<1>2. IsFiniteSet(a..(b - 1))
      /\ Cardinality(a..(b - 1)) = IF a > b - 1 THEN 0 ELSE b - 1 - a + 1
  BY <1>1, FS_Interval
<1>3. QED
  BY <1>1, <1>2 DEF Span, Larger

LEMMA OverlapCounts ==
  ASSUME NEW a \in Int, NEW b \in Int, NEW c \in Int, NEW d \in Int
  PROVE  /\ IsFiniteSet(Span(a, b) \cap Span(c, d))
         /\ Overlap(a, b, c, d) = Cardinality(Span(a, b) \cap Span(c, d))
<1> DEFINE from == Larger(a, c)
           to == Smaller(b, d)
<1>1. from \in Int /\ to \in Int
  BY DEF Larger, Smaller
<1>2. Span(a, b) \cap Span(c, d) = Span(from, to)
  BY DEF Span, Larger, Smaller
<1>3. Overlap(a, b, c, d) = Larger(0, to - from)
  BY DEF Overlap
<1> HIDE DEF from, to
<1>4. QED
  BY <1>1, <1>2, <1>3, SpanSize

LEMMA Scaled ==
  ASSUME NEW i \in Int, NEW j \in Int, NEW n \in Nat, i <= j
  PROVE  i * n <= j * n
OBVIOUS

LEMMA Quotient ==
  ASSUME NEW x \in Int, NEW n \in Nat, n > 0, NEW k \in Int, k * n <= x, x < k * n + n
  PROVE  x \div n = k /\ x % n = x - k * n
<1> DEFINE q == x \div n
           m == x % n
<1>1. q \in Int /\ m \in Int /\ x = q * n + m /\ 0 <= m /\ m < n
  BY Division
<1> HIDE DEF q, m
<1>2. k * n \in Int /\ q * n \in Int /\ (k + 1) * n = k * n + n /\ (q + 1) * n = q * n + n
  BY <1>1
<1>3. ~(q >= k + 1)
  <2>1. q >= k + 1 => (k + 1) * n <= q * n
    BY <1>1, Scaled
  <2>2. QED
    BY <1>1, <1>2, <2>1
<1>4. ~(k >= q + 1)
  <2>1. k >= q + 1 => (q + 1) * n <= k * n
    BY <1>1, Scaled
  <2>2. QED
    BY <1>1, <1>2, <2>1
<1>5. q = k
  BY <1>1, <1>3, <1>4
<1>6. m = x - k * n
  BY <1>1, <1>2, <1>5
<1>7. QED
  BY <1>5, <1>6 DEF q, m

LEMMA QuotientGrows ==
  ASSUME NEW x \in Int, NEW y \in Int, x <= y, NEW n \in Nat, n > 0
  PROVE  x \div n <= y \div n
<1> DEFINE q == x \div n
           p == y \div n
<1>1. q \in Int /\ q * n <= x
  BY Division
<1>2. p \in Int /\ y < p * n + n
  BY Division
<1> HIDE DEF q, p
<1>3. q * n \in Int /\ p * n \in Int /\ (p + 1) * n = p * n + n
  BY <1>1, <1>2
<1>4. q >= p + 1 => (p + 1) * n <= q * n
  BY <1>1, <1>2, Scaled
<1>5. q <= p
  BY <1>1, <1>2, <1>3, <1>4
<1>6. QED
  BY <1>5 DEF q, p

\* The night that begins on a day.
Night(day) == Span(day * DayLength + NightStart, (day + 1) * DayLength + NightEnd)

LEMMA NightBounds ==
  /\ DayLength \in Nat /\ DayLength > 0
  /\ NightStart \in Nat /\ NightStart <= DayLength
  /\ NightEnd \in Nat /\ NightEnd <= NightStart
BY AttendanceLedgerAssumption

LEMMA DayEnds ==
  ASSUME NEW day \in Int
  PROVE  /\ day * DayLength \in Int /\ (day + 1) * DayLength \in Int
         /\ (day + 1) * DayLength = day * DayLength + DayLength
BY NightBounds

\* A unit at night is of the night that begins on its day or on the day before.
LEMMA NightsAre ==
  ASSUME NEW t \in Int, NEW day \in Int
  PROVE  t \in Night(day) <=>
           \/ day = t \div DayLength /\ t % DayLength >= NightStart
           \/ day = (t \div DayLength) - 1 /\ t % DayLength < NightEnd
<1> DEFINE q == t \div DayLength
           m == t % DayLength
           from == day * DayLength
<1>1. q \in Int /\ m \in Int /\ t = q * DayLength + m /\ 0 <= m /\ m < DayLength
  BY NightBounds, Division
<1>2. from \in Int /\ (day + 1) * DayLength = from + DayLength
  BY DayEnds
<1>3. t \in Night(day) <=> from + NightStart <= t /\ t < from + DayLength + NightEnd
  <2> HIDE DEF from
  <2>1. QED
    BY <1>2, NightBounds DEF Night, Span, from
<1>4. CASE from <= t /\ t < from + DayLength
  <2>1. q = day /\ m = t - from
    BY <1>4, NightBounds, Quotient
  <2> HIDE DEF q, m, from
  <2>2. QED
    BY <1>1, <1>2, <1>3, <1>4, <2>1, NightBounds DEF q, m
<1>5. CASE from + DayLength <= t /\ t < from + DayLength + DayLength
  <2>1. q = day + 1 /\ m = t - (from + DayLength)
    BY <1>2, <1>5, NightBounds, Quotient
  <2> HIDE DEF from
  <2>2. t \in Night(day) <=> m < NightEnd
    <3> HIDE DEF q, m
    <3>1. QED
      BY <1>1, <1>2, <1>3, <1>5, <2>1, NightBounds
  <2>3. day # q /\ day = q - 1
    <3> HIDE DEF q, m
    <3>1. QED
      BY <1>1, <2>1
  <2>4. QED
    BY <2>2, <2>3
<1>6. CASE t < from \/ from + DayLength + DayLength <= t
  <2>1. t \notin Night(day)
    <3> HIDE DEF from
    <3>1. QED
      BY <1>2, <1>3, <1>6, NightBounds
  <2>2. q # day /\ q # day + 1
    <3> HIDE DEF q, m
    <3>1. (day + 1) * DayLength + DayLength = from + DayLength + DayLength
      BY <1>2
    <3>2. q = day => t = from + m
      BY <1>1
    <3>3. q = day + 1 => t = from + DayLength + m
      BY <1>1, <1>2
    <3> HIDE DEF from
    <3>4. QED
      BY <1>1, <1>2, <1>6, <3>2, <3>3, NightBounds
  <2> HIDE DEF from, q, m
  <2>3. day # q /\ day # q - 1
    BY <1>1, <2>2
  <2>4. QED
    BY <2>1, <2>3 DEF q
<1>7. QED
  <2> HIDE DEF from, q, m
  <2>1. QED
    BY <1>2, <1>4, <1>5, <1>6, NightBounds

\* The minutes at night between two times are the units between them that are at night:
\* no night that reaches into the range is left out, and none is counted twice, wherever
\* the midnights lie (calculateNightMinutesInRange).
THEOREM NightMinutesAreUnits ==
  ASSUME NEW a \in Int, NEW b \in Int
  PROVE  LET units == {t \in a..(b - 1) : AtNight(t)}
         IN  IsFiniteSet(units) /\ NightMinutes(a, b) = Cardinality(units)
<1> DEFINE units == {t \in a..(b - 1) : AtNight(t)}
<1>1. CASE b <= a
  <2>1. units = {}
    BY <1>1
  <2>2. NightMinutes(a, b) = 0
    BY <1>1 DEF NightMinutes
  <2>3. QED
    BY <2>1, <2>2, FS_EmptySet
<1>2. CASE a < b
  <2> DEFINE first == (a \div DayLength) - 1
             last == b \div DayLength
             days == first..last
             f == [day \in days |-> Overlap(a, b, day * DayLength + NightStart,
                                                  (day + 1) * DayLength + NightEnd)]
             part == [day \in days |-> Span(a, b) \cap Night(day)]
  <2>1. NightMinutes(a, b) = Total(f)
    BY <1>2 DEF NightMinutes
  <2>2. first \in Int /\ last \in Int /\ a \div DayLength \in Int
    BY NightBounds, Division
  <2>3. IsFiniteSet(days)
    <3> HIDE DEF first, last
    <3>1. QED
      BY <2>2, FS_Interval
  <2>4. \A day \in days : day \in Int
    <3> HIDE DEF first, last
    <3>1. QED
      BY <2>2
  <2>5. ASSUME NEW day \in days
        PROVE  IsFiniteSet(part[day]) /\ f[day] = Cardinality(part[day])
    <3> DEFINE c == day * DayLength + NightStart
               d == (day + 1) * DayLength + NightEnd
    <3> HIDE DEF days
    <3>1. c \in Int /\ d \in Int
      BY <2>4, DayEnds, NightBounds
    <3>2. f[day] = Overlap(a, b, c, d) /\ part[day] = Span(a, b) \cap Span(c, d)
      BY DEF Night
    <3> HIDE DEF c, d, f, part
    <3>3. QED
      BY <3>1, <3>2, OverlapCounts
  <2>6. ASSUME NEW i \in days, NEW j \in days, i # j
        PROVE  part[i] \cap part[j] = {}
    <3>1. SUFFICES ASSUME NEW t \in part[i] \cap part[j] PROVE FALSE
      OBVIOUS
    <3>2. t \in Int /\ t \in Night(i) /\ t \in Night(j)
      BY DEF Span
    <3> HIDE DEF days, part
    <3>3. i \in Int /\ j \in Int
      BY <2>4
    <3>4. /\ t \div DayLength \in Int /\ t % DayLength \in Int
      BY <3>2, NightBounds, Division
    <3>5. ~(t % DayLength >= NightStart /\ t % DayLength < NightEnd)
      BY <3>4, NightBounds
    <3>6. QED
      BY <2>6, <3>2, <3>3, <3>5, NightsAre
  <2>7. Whole(part) = units
    <3>1. ASSUME NEW day \in days, NEW t \in part[day]
          PROVE  t \in units
      <4>1. t \in Int /\ t \in a..(b - 1) /\ t \in Night(day)
        BY DEF Span
      <4> HIDE DEF days, part
      <4>2. QED
        BY <2>4, <4>1, NightsAre DEF AtNight
    <3>2. ASSUME NEW t \in units
          PROVE  \E day \in days : t \in part[day]
      <4> DEFINE q == t \div DayLength
      <4>1. t \in Int /\ t \in Span(a, b) /\ AtNight(t) /\ a <= t /\ t <= b
        BY DEF Span
      <4>2. q \in Int /\ a \div DayLength <= q /\ q <= b \div DayLength
        BY <4>1, NightBounds, Division, QuotientGrows
      <4>3. q \in days /\ q - 1 \in days
        <5> HIDE DEF q
        <5>1. a \div DayLength = first + 1
          BY <2>2
        <5> HIDE DEF first
        <5>2. QED
          BY <2>2, <4>2, <5>1
      <4> HIDE DEF days
      <4>4. t \in Night(q) \/ t \in Night(q - 1)
        BY <4>1, <4>2, NightsAre DEF AtNight
      <4>5. QED
        BY <4>1, <4>3, <4>4
    <3> HIDE DEF days, part, units
    <3>3. DOMAIN part = days
      BY DEF part
    <3>4. QED
      BY <3>1, <3>2, <3>3 DEF Whole
  <2> HIDE DEF days, units
  <2>8. DOMAIN f = days /\ DOMAIN part = days
    OBVIOUS
  <2> HIDE DEF f, part
  <2>9. PartsOf(f, part)
    BY <2>3, <2>5, <2>6, <2>8 DEF PartsOf
  <2>10. QED
    BY <2>1, <2>7, <2>9, TotalCounts DEF units
<1>3. QED
  BY <1>1, <1>2

(***************************************************************************)
(* Stretches of work.                                                      *)
(***************************************************************************)
Before(I, e) == {f \in I : EventTime[f] < EventTime[e]}

\* S is a stretch from a to b, the events inner between them.
Bounded(S, a, b) ==
  /\ S \subseteq EventIds
  /\ a \in S /\ b \in S
  /\ EventType[a] \in CheckIns /\ EventType[b] = "OUT"
  /\ EventTime[a] < EventTime[b]
  /\ \A e, f \in S : EventTime[e] = EventTime[f] => e = f
  /\ \A e \in S \ {a, b} : EventTime[a] < EventTime[e] /\ EventTime[e] < EventTime[b]

Alternating(I) ==
  /\ IsFiniteSet(I)
  /\ Cardinality(I) % 2 = 0
  /\ \A e \in I : EventType[e] =
       (IF Cardinality(Before(I, e)) % 2 = 0 THEN "BREAK_OUT" ELSE "BREAK_IN")

LEMMA TimesAreNat == \A e \in EventIds : e \in Int /\ EventTime[e] \in Nat
BY AttendanceLedgerAssumption DEF EventIds

LEMMA NoneBeforeItself ==
  ASSUME NEW e \in EventIds
  PROVE  ~Sorted(e, e)
<1>1. Priority(e) \in Int
  BY DEF Priority
<1>2. e \in Int /\ EventTime[e] \in Int
  BY TimesAreNat
<1>3. QED
  BY <1>1, <1>2 DEF Sorted

LEMMA StretchesAre ==
  ASSUME NEW S \in Stretches
  PROVE  \E a, b \in S : Bounded(S, a, b) /\ Alternating(S \ {a, b})
<1>1. S \subseteq EventIds /\ WellFormed(S)
  BY DEF Stretches
<1>2. IsFiniteSet(S)
  BY <1>1, AttendanceLedgerAssumption, FS_Subset DEF EventIds
<1>3. \A e, f \in S : EventTime[e] = EventTime[f] => e = f
  <2> DEFINE g == [e \in S |-> EventTime[e]]
  <2>1. Cardinality(S) = Cardinality(Times(S))
    BY <1>1 DEF WellFormed
  <2>2. g \in Surjection(S, Times(S))
    BY DEF Surjection, Times
  <2>3. g \in Injection(S, Times(S))
    <3> HIDE DEF g
    <3>1. QED
      BY <1>2, <2>1, <2>2, FS_SurjSameCardinalityImpliesInj
  <2>4. QED
    BY <2>3 DEF Injection, IsInjective
<1>4. PICK a \in OfType(S, CheckIns), b \in OfType(S, {"OUT"}) :
        LET inner == S \ {a, b}
            before(e) == {f \in inner : EventTime[f] < EventTime[e]}
        IN  /\ EventTime[a] < EventTime[b]
            /\ \A e \in inner : EventTime[a] < EventTime[e] /\ EventTime[e] < EventTime[b]
            /\ \A e \in inner : EventType[e] =
                 (IF Cardinality(before(e)) % 2 = 0 THEN "BREAK_OUT" ELSE "BREAK_IN")
            /\ Cardinality(inner) % 2 = 0
  BY <1>1 DEF WellFormed
<1>5. a \in S /\ b \in S /\ EventType[a] \in CheckIns /\ EventType[b] = "OUT"
  BY DEF OfType
<1>6. Bounded(S, a, b)
  BY <1>1, <1>3, <1>4, <1>5 DEF Bounded
<1>7. IsFiniteSet(S \ {a, b})
  BY <1>2, FS_Subset
<1>8. Alternating(S \ {a, b})
  BY <1>4, <1>7 DEF Alternating, Before
<1>9. QED
  BY <1>5, <1>6, <1>8

LEMMA TypesInside ==
  ASSUME NEW S, NEW a \in S, NEW b \in S, Bounded(S, a, b), Alternating(S \ {a, b})
  PROVE  /\ \A e \in S \ {a, b} : EventType[e] \in {"BREAK_OUT", "BREAK_IN"}
         /\ \A e \in S : EventType[e] \in {"BREAK_OUT", "BREAK_IN"} => e \in S \ {a, b}
         /\ OfType(S, CheckIns) = {a}
         /\ OfType(S, {"OUT"}) = {b}
<1>1. \A e \in S \ {a, b} : EventType[e] \in {"BREAK_OUT", "BREAK_IN"}
  BY DEF Alternating
<1>2. EventType[a] \in {"IN", "ACCESS_GRANTED"} /\ EventType[b] = "OUT"
  BY DEF Bounded, CheckIns
<1>3. QED
  BY <1>1, <1>2 DEF OfType, CheckIns

LEMMA EndsOfAStretch ==
  ASSUME NEW S, NEW a \in S, NEW b \in S, Bounded(S, a, b), Alternating(S \ {a, b})
  PROVE  /\ EventTime[a] \in Nat /\ EventTime[b] \in Nat
         /\ CheckIn(S) = EventTime[a] /\ CheckOut(S) = EventTime[b]
<1>1. EventTime[a] \in Nat /\ EventTime[b] \in Nat
  BY TimesAreNat DEF Bounded
<1>2. Times(OfType(S, CheckIns)) = {EventTime[a]} /\ Times(OfType(S, {"OUT"})) = {EventTime[b]}
  BY TypesInside DEF Times
<1>3. QED
  BY <1>1, <1>2 DEF CheckIn, CheckOut

\* The break that a BREAK_OUT begins ends: the number of events inside is even.
LEMMA BreaksEnd ==
  ASSUME NEW S, NEW a \in S, NEW b \in S, Bounded(S, a, b), Alternating(S \ {a, b}),
         NEW o \in S, EventType[o] = "BREAK_OUT"
  PROVE  \E i \in S : <<o, i>> \in Breaks(S)
<1> DEFINE I == S \ {a, b}
           after == {f \in I : EventTime[o] < EventTime[f]}
<1>1. o \in I /\ I \subseteq S /\ I \subseteq EventIds
  BY TypesInside DEF Bounded
<1>2. \A e \in I : EventTime[e] \in Nat /\ e \in Int
  BY <1>1, TimesAreNat
<1>3. \A e, f \in I : EventTime[e] = EventTime[f] => e = f
  BY DEF Bounded
<1>4. IsFiniteSet(Before(I, o)) /\ Cardinality(Before(I, o)) \in Nat
      /\ Cardinality(Before(I, o)) % 2 = 0
  <2>1. IsFiniteSet(Before(I, o))
    BY FS_Subset DEF Before, Alternating
  <2>2. Cardinality(Before(I, o)) % 2 = 0
    BY <1>1 DEF Alternating
  <2>3. QED
    BY <2>1, <2>2, FS_CardinalityType
<1> HIDE DEF I
<1>5. Cardinality(Before(I, o) \cup {o}) = Cardinality(Before(I, o)) + 1
  <2>1. o \notin Before(I, o)
    BY <1>1, <1>2 DEF Before
  <2>2. QED
    BY <1>4, <2>1, FS_AddElement
<1>6. Cardinality(Before(I, o) \cup {o}) % 2 = 1
  BY <1>4, <1>5
<1>7. after # {}
  <2>1. SUFFICES ASSUME after = {} PROVE FALSE
    OBVIOUS
  <2>2. I = Before(I, o) \cup {o}
    BY <1>1, <1>2, <1>3, <2>1 DEF Before
  <2>3. Cardinality(I) % 2 = 0
    BY DEF Alternating, I
  <2>4. QED
    BY <1>6, <2>2, <2>3
<1>8. PICK i \in after : \A f \in after : EventTime[i] <= EventTime[f]
  <2> DEFINE U == {EventTime[f] : f \in after}
  <2>1. U \in SUBSET Nat /\ U # {}
    BY <1>2, <1>7
  <2>2. PICK x \in U : \A y \in U : x <= y
    BY <2>1, Smallest
  <2>3. QED
    BY <2>2
<1>9. Before(I, i) = Before(I, o) \cup {o}
  <2>1. i \in I /\ EventTime[o] < EventTime[i]
    OBVIOUS
  <2>2. \A f \in I : EventTime[f] < EventTime[i] => ~(EventTime[o] < EventTime[f])
    BY <1>2, <1>8
  <2> HIDE DEF after
  <2>3. \A f \in I : EventTime[f] < EventTime[i] <=> EventTime[f] < EventTime[o] \/ f = o
    BY <1>1, <1>2, <1>3, <2>1, <2>2
  <2>4. QED
    BY <1>1, <2>3 DEF Before
<1>10. i \in S /\ EventType[i] = "BREAK_IN"
  <2>1. i \in I /\ Cardinality(Before(I, i)) % 2 # 0
    BY <1>6, <1>9
  <2>2. QED
    BY <1>1, <2>1 DEF Alternating, I
<1>11. \A e \in I : ~(EventTime[o] < EventTime[e] /\ EventTime[e] < EventTime[i])
  BY <1>2, <1>8
<1>12. <<o, i>> \in Breaks(S)
  <2>1. EventTime[o] < EventTime[i] /\ i \in I
    OBVIOUS
  <2> HIDE DEF after
  <2>2. Sorted(o, i)
    BY <2>1 DEF Sorted
  <2>3. ASSUME NEW e \in OfType(S, {"BREAK_OUT", "BREAK_IN"}), Sorted(o, e), Sorted(e, i)
        PROVE  FALSE
    <3>1. e \in I
      BY TypesInside DEF OfType, I
    <3>2. e # o
      BY <1>1, <2>3, NoneBeforeItself
    <3>3. e # i
      BY <1>1, <2>1, <2>3, NoneBeforeItself
    <3>4. EventTime[e] # EventTime[o] /\ EventTime[e] # EventTime[i]
      BY <1>1, <1>3, <2>1, <3>1, <3>2, <3>3
    <3>5. EventTime[o] < EventTime[e] /\ EventTime[e] < EventTime[i]
      BY <2>3, <3>4 DEF Sorted
    <3>6. QED
      BY <1>11, <3>1, <3>5
  <2>4. QED
    BY <1>10, <2>2, <2>3 DEF Breaks, OfType
<1>13. QED
  BY <1>10, <1>12

BreakSpan(p) == Span(EventTime[p[1]], EventTime[p[2]])

\* e is the last event of S up to the unit t.
LastUpTo(S, t, e) ==
  /\ e \in S /\ EventTime[e] <= t
  /\ \A f \in S : EventTime[f] <= t => EventTime[f] <= EventTime[e]

LEMMA LastExists ==
  ASSUME NEW S, S \subseteq EventIds, NEW t \in Nat, NEW a \in S, EventTime[a] <= t
  PROVE  \E e \in S : LastUpTo(S, t, e)
<1> DEFINE U == {t - EventTime[e] : e \in {f \in S : EventTime[f] <= t}}
<1>1. \A e \in S : EventTime[e] \in Nat
  BY TimesAreNat
<1>2. U \in SUBSET Nat /\ U # {}
  BY <1>1
<1>3. PICK x \in U : \A y \in U : x <= y
  BY <1>2, Smallest
<1>4. PICK e \in S : EventTime[e] <= t /\ x = t - EventTime[e]
  OBVIOUS
<1>5. \A f \in S : EventTime[f] <= t => t - EventTime[e] <= t - EventTime[f]
  BY <1>3, <1>4
<1> HIDE DEF U
<1>6. \A f \in S : EventTime[f] <= t => EventTime[f] <= EventTime[e]
  BY <1>1, <1>5
<1>7. QED
  BY <1>4, <1>6 DEF LastUpTo

LEMMA ABreakIs ==
  ASSUME NEW S, NEW a \in S, NEW b \in S, Bounded(S, a, b), Alternating(S \ {a, b}),
         NEW p \in Breaks(S)
  PROVE  /\ p[1] \in S \ {a, b} /\ p[2] \in S \ {a, b} /\ p = <<p[1], p[2]>>
         /\ EventType[p[1]] = "BREAK_OUT"
         /\ EventTime[p[1]] \in Nat /\ EventTime[p[2]] \in Nat
         /\ EventTime[p[1]] < EventTime[p[2]]
         /\ \A e \in S \ {a, b} :
              ~(EventTime[p[1]] < EventTime[e] /\ EventTime[e] < EventTime[p[2]])
<1>1. /\ p[1] \in S /\ p[2] \in S /\ p = <<p[1], p[2]>>
      /\ EventType[p[1]] = "BREAK_OUT" /\ EventType[p[2]] = "BREAK_IN"
      /\ Sorted(p[1], p[2])
      /\ \A e \in OfType(S, {"BREAK_OUT", "BREAK_IN"}) : ~(Sorted(p[1], e) /\ Sorted(e, p[2]))
  BY DEF Breaks, OfType
<1>2. p[1] \in S \ {a, b} /\ p[2] \in S \ {a, b}
  BY <1>1, TypesInside
<1>3. EventTime[p[1]] \in Nat /\ EventTime[p[2]] \in Nat
  BY <1>1, TimesAreNat DEF Bounded
<1>4. EventTime[p[1]] # EventTime[p[2]]
  BY <1>1 DEF Bounded
<1>5. EventTime[p[1]] < EventTime[p[2]]
  BY <1>1, <1>4 DEF Sorted
<1>6. \A e \in S \ {a, b} :
        ~(EventTime[p[1]] < EventTime[e] /\ EventTime[e] < EventTime[p[2]])
  <2>1. \A e \in S \ {a, b} : e \in OfType(S, {"BREAK_OUT", "BREAK_IN"})
    BY TypesInside DEF OfType
  <2>2. QED
    BY <1>1, <2>1 DEF Sorted
<1>7. QED
  BY <1>1, <1>2, <1>3, <1>5, <1>6

\* During a break the last event is the BREAK_OUT that begins it.
LEMMA LastInABreak ==
  ASSUME NEW S, NEW a \in S, NEW b \in S, Bounded(S, a, b), Alternating(S \ {a, b}),
         NEW p \in Breaks(S), NEW t \in BreakSpan(p)
  PROVE  /\ t \in Span(EventTime[a], EventTime[b])
         /\ LastUpTo(S, t, p[1])
<1>1. /\ p[1] \in S \ {a, b} /\ p[2] \in S \ {a, b}
      /\ EventTime[p[1]] \in Nat /\ EventTime[p[2]] \in Nat
      /\ \A e \in S \ {a, b} :
           ~(EventTime[p[1]] < EventTime[e] /\ EventTime[e] < EventTime[p[2]])
  BY ABreakIs
<1>2. t \in Int /\ EventTime[p[1]] <= t /\ t < EventTime[p[2]]
  BY <1>1 DEF BreakSpan, Span
<1>3. \A e \in S : EventTime[e] \in Nat
  BY TimesAreNat DEF Bounded
<1>4. /\ EventTime[a] < EventTime[p[1]] /\ EventTime[p[2]] < EventTime[b]
  BY <1>1 DEF Bounded
<1>5. t \in Span(EventTime[a], EventTime[b])
  BY <1>1, <1>2, <1>3, <1>4 DEF Span
<1>6. \A f \in S : EventTime[f] <= t => EventTime[f] <= EventTime[p[1]]
  <2>1. TAKE f \in S
  <2>2. CASE f = a
    BY <1>1, <1>3, <1>4, <2>2
  <2>3. CASE f = b
    BY <1>1, <1>2, <1>3, <1>4, <2>3
  <2>4. CASE f \in S \ {a, b}
    BY <1>1, <1>2, <1>3, <2>4
  <2>5. QED
    BY <2>2, <2>3, <2>4
<1>7. QED
  BY <1>1, <1>2, <1>5, <1>6 DEF LastUpTo

LEMMA LastIsOne ==
  ASSUME NEW S, NEW a, NEW b, Bounded(S, a, b), NEW t, NEW e, NEW f,
         LastUpTo(S, t, e), LastUpTo(S, t, f)
  PROVE  e = f
<1>1. e \in S /\ f \in S /\ EventTime[e] <= EventTime[f] /\ EventTime[f] <= EventTime[e]
  BY DEF LastUpTo
<1>2. EventTime[e] \in Nat /\ EventTime[f] \in Nat
  BY <1>1, TimesAreNat DEF Bounded
<1>3. EventTime[e] = EventTime[f]
  BY <1>1, <1>2
<1>4. QED
  BY <1>1, <1>3 DEF Bounded

LEMMA BreaksAreApart ==
  ASSUME NEW S, NEW a \in S, NEW b \in S, Bounded(S, a, b), Alternating(S \ {a, b}),
         NEW p \in Breaks(S), NEW q \in Breaks(S), NEW t, t \in BreakSpan(p), t \in BreakSpan(q)
  PROVE  p = q
<1>1. p[1] = q[1]
  BY LastInABreak, LastIsOne
<1>2. /\ p[1] \in S \ {a, b} /\ p[2] \in S \ {a, b} /\ p = <<p[1], p[2]>>
      /\ EventTime[p[1]] \in Nat /\ EventTime[p[2]] \in Nat
      /\ EventTime[p[1]] < EventTime[p[2]]
      /\ \A e \in S \ {a, b} :
           ~(EventTime[p[1]] < EventTime[e] /\ EventTime[e] < EventTime[p[2]])
  BY ABreakIs
<1>3. /\ q[1] \in S \ {a, b} /\ q[2] \in S \ {a, b} /\ q = <<q[1], q[2]>>
      /\ EventTime[q[1]] \in Nat /\ EventTime[q[2]] \in Nat
      /\ EventTime[q[1]] < EventTime[q[2]]
      /\ \A e \in S \ {a, b} :
           ~(EventTime[q[1]] < EventTime[e] /\ EventTime[e] < EventTime[q[2]])
  BY ABreakIs
<1>4. EventTime[p[2]] = EventTime[q[2]]
  BY <1>1, <1>2, <1>3
<1>5. p[2] = q[2]
  BY <1>2, <1>3, <1>4 DEF Bounded
<1>6. QED
  BY <1>1, <1>2, <1>3, <1>5

LEMMA WorkedIsOutsideBreaks ==
  ASSUME NEW S, NEW a \in S, NEW b \in S, Bounded(S, a, b), Alternating(S \ {a, b})
  PROVE  WorkedUnits(S) = Span(EventTime[a], EventTime[b])
                            \ UNION {BreakSpan(p) : p \in Breaks(S)}
<1> DEFINE from == CHOOSE t \in Times(S) : \A u \in Times(S) : t <= u
           to == CHOOSE t \in Times(S) : \A u \in Times(S) : t >= u
           rest == UNION {BreakSpan(p) : p \in Breaks(S)}
<1>1. \A e \in S : /\ EventTime[e] \in Nat
                   /\ EventTime[a] <= EventTime[e] /\ EventTime[e] <= EventTime[b]
  <2>1. \A e \in S : EventTime[e] \in Nat
    BY TimesAreNat DEF Bounded
  <2>2. QED
    BY <2>1 DEF Bounded
<1>2. from = EventTime[a] /\ to = EventTime[b]
  <2>1. \A t \in Times(S) : t \in Nat /\ EventTime[a] <= t /\ t <= EventTime[b]
    BY <1>1 DEF Times
  <2>2. EventTime[a] \in Times(S) /\ EventTime[b] \in Times(S)
    BY DEF Times
  <2>3. from \in Times(S) /\ \A u \in Times(S) : from <= u
    BY <2>1, <2>2
  <2>4. to \in Times(S) /\ \A u \in Times(S) : to >= u
    BY <2>1, <2>2
  <2> HIDE DEF from, to
  <2>5. QED
    BY <2>1, <2>2, <2>3, <2>4
<1>3. \A t \in Span(EventTime[a], EventTime[b]) :
        t \in Nat /\ EventTime[a] <= t /\ t < EventTime[b]
  BY <1>1 DEF Span
<1>4. \A t : t \in WorkedUnits(S) <=>
        /\ t \in Span(EventTime[a], EventTime[b])
        /\ \E e \in S : EventType[e] # "BREAK_OUT" /\ LastUpTo(S, t, e)
  BY <1>2 DEF WorkedUnits, LastUpTo, Span
<1>5. ASSUME NEW t \in rest
      PROVE  t \notin WorkedUnits(S)
  <2>1. PICK p \in Breaks(S) : t \in BreakSpan(p)
    OBVIOUS
  <2>2. LastUpTo(S, t, p[1]) /\ EventType[p[1]] = "BREAK_OUT"
    BY <2>1, LastInABreak, ABreakIs
  <2>3. \A e : LastUpTo(S, t, e) => e = p[1]
    BY <2>2, LastIsOne
  <2>4. QED
    BY <1>4, <2>2, <2>3
<1>6. ASSUME NEW t \in Span(EventTime[a], EventTime[b]), t \notin rest
      PROVE  t \in WorkedUnits(S)
  <2>1. PICK e \in S : LastUpTo(S, t, e)
    BY <1>3, LastExists DEF Bounded
  <2>2. EventType[e] # "BREAK_OUT"
    <3>1. SUFFICES ASSUME EventType[e] = "BREAK_OUT" PROVE FALSE
      OBVIOUS
    <3>2. PICK i \in S : <<e, i>> \in Breaks(S)
      BY <3>1, BreaksEnd
    <3>3. EventTime[e] < EventTime[i]
      BY <3>2, ABreakIs
    <3>4. EventTime[e] \in Nat /\ EventTime[i] \in Nat /\ t \in Nat
      BY <1>1, <1>3
    <3>5. EventTime[e] <= t /\ t < EventTime[i]
      BY <2>1, <3>3, <3>4 DEF LastUpTo
    <3>6. t \in BreakSpan(<<e, i>>)
      BY <3>4, <3>5 DEF BreakSpan, Span
    <3>7. QED
      BY <1>6, <3>2, <3>6
  <2>3. QED
    BY <1>4, <2>1, <2>2
<1> HIDE DEF rest
<1>7. WorkedUnits(S) \subseteq Span(EventTime[a], EventTime[b])
  BY <1>4
<1>8. WorkedUnits(S) = Span(EventTime[a], EventTime[b]) \ rest
  BY <1>5, <1>6, <1>7
<1>9. QED
  BY <1>8 DEF rest

NightUnits(T) == {t \in T : AtNight(t)}

\* The breaks of a stretch add up to the units in them, all of them and those at night.
LEMMA BreaksAdd ==
  ASSUME NEW S, NEW a \in S, NEW b \in S, Bounded(S, a, b), Alternating(S \ {a, b})
  PROVE  LET rest == UNION {BreakSpan(p) : p \in Breaks(S)}
         IN  /\ IsFiniteSet(rest)
             /\ BreakMinutes(S) = Cardinality(rest)
             /\ BreakNightMinutes(S) = Cardinality(NightUnits(rest))
<1> DEFINE rest == UNION {BreakSpan(p) : p \in Breaks(S)}
           f == [p \in Breaks(S) |-> Larger(0, EventTime[p[2]] - EventTime[p[1]])]
           g == [p \in Breaks(S) |-> NightMinutes(EventTime[p[1]], EventTime[p[2]])]
           span == [p \in Breaks(S) |-> BreakSpan(p)]
           night == [p \in Breaks(S) |-> NightUnits(BreakSpan(p))]
<1>1. IsFiniteSet(Breaks(S))
  <2>1. IsFiniteSet(S)
    BY AttendanceLedgerAssumption, FS_Subset DEF Bounded, EventIds
  <2>2. IsFiniteSet(S \X S)
    BY <2>1, FS_Product
  <2>3. Breaks(S) \in SUBSET (S \X S)
    BY DEF Breaks, OfType
  <2>4. QED
    BY <2>2, <2>3, FS_Subset
<1>2. ASSUME NEW p \in Breaks(S)
      PROVE  /\ IsFiniteSet(span[p]) /\ f[p] = Cardinality(span[p])
             /\ IsFiniteSet(night[p]) /\ g[p] = Cardinality(night[p])
  <2>1. EventTime[p[1]] \in Int /\ EventTime[p[2]] \in Int
    BY ABreakIs
  <2>2. IsFiniteSet(span[p]) /\ f[p] = Cardinality(span[p])
    <3>1. span[p] = Span(EventTime[p[1]], EventTime[p[2]])
          /\ f[p] = Larger(0, EventTime[p[2]] - EventTime[p[1]])
      BY DEF BreakSpan
    <3> HIDE DEF span, f
    <3>2. QED
      BY <2>1, <3>1, SpanSize
  <2>3. IsFiniteSet(night[p]) /\ g[p] = Cardinality(night[p])
    <3>1. night[p] = {t \in EventTime[p[1]]..(EventTime[p[2]] - 1) : AtNight(t)}
          /\ g[p] = NightMinutes(EventTime[p[1]], EventTime[p[2]])
      BY DEF BreakSpan, NightUnits, Span
    <3> HIDE DEF night, g
    <3>2. QED
      BY <2>1, <3>1, NightMinutesAreUnits
  <2>4. QED
    BY <2>2, <2>3
<1>3. ASSUME NEW p \in Breaks(S), NEW q \in Breaks(S), p # q
      PROVE  span[p] \cap span[q] = {} /\ night[p] \cap night[q] = {}
  <2>1. BreakSpan(p) \cap BreakSpan(q) = {}
    BY <1>3, BreaksAreApart
  <2>2. QED
    BY <2>1 DEF NightUnits
<1>4. DOMAIN f = Breaks(S) /\ DOMAIN g = Breaks(S)
      /\ DOMAIN span = Breaks(S) /\ DOMAIN night = Breaks(S)
  OBVIOUS
<1>5. Whole(span) = rest
  BY DEF Whole
<1>6. Whole(night) = NightUnits(rest)
  BY DEF Whole, NightUnits
<1>7. BreakMinutes(S) = Total(f) /\ BreakNightMinutes(S) = Total(g)
  BY DEF BreakMinutes, BreakNightMinutes
<1> HIDE DEF f, g, span, night, rest
<1>8. PartsOf(f, span) /\ PartsOf(g, night)
  BY <1>1, <1>2, <1>3, <1>4 DEF PartsOf
<1>9. /\ IsFiniteSet(rest) /\ Total(f) = Cardinality(rest)
      /\ Total(g) = Cardinality(NightUnits(rest))
  BY <1>5, <1>6, <1>8, TotalCounts
<1>10. QED
  BY <1>7, <1>9 DEF rest

LEMMA WithoutPart ==
  ASSUME NEW W, IsFiniteSet(W), NEW V \in SUBSET W
  PROVE  /\ Cardinality(W \ V) \in Nat
         /\ Cardinality(W \ V) = Cardinality(W) - Cardinality(V)
         /\ Cardinality(W) \in Nat /\ Cardinality(V) \in Nat
<1>1. W \cap V = V
  OBVIOUS
<1>2. IsFiniteSet(W \ V) /\ Cardinality(W \ V) = Cardinality(W) - Cardinality(V)
  BY <1>1, FS_Difference
<1>3. IsFiniteSet(V)
  BY FS_Subset
<1>4. QED
  BY <1>2, <1>3, FS_CardinalityType

\* What the ledger counts of a stretch.
LEMMA StretchIsCounted ==
  ASSUME NEW S \in Stretches
  PROVE  /\ NoTime \notin {Attended(S).checkIn, Attended(S).checkOut}
         /\ Attended(S).worked = Cardinality(WorkedUnits(S))
         /\ Cardinality(WorkedUnits(S)) \in Nat
         /\ Larger(0, NightMinutes(Attended(S).checkIn, Attended(S).checkOut)
                        - BreakNightMinutes(S))
              = Cardinality(NightUnits(WorkedUnits(S)))
<1>1. PICK a \in S, b \in S : Bounded(S, a, b) /\ Alternating(S \ {a, b})
  BY StretchesAre
<1> DEFINE whole == Span(EventTime[a], EventTime[b])
           rest == UNION {BreakSpan(p) : p \in Breaks(S)}
<1>2. /\ EventTime[a] \in Nat /\ EventTime[b] \in Nat
      /\ CheckIn(S) = EventTime[a] /\ CheckOut(S) = EventTime[b]
  BY <1>1, EndsOfAStretch
<1>3. EventTime[a] < EventTime[b]
  BY <1>1 DEF Bounded
<1>4. NoTime \notin {CheckIn(S), CheckOut(S)}
  BY <1>2 DEF NoTime
<1>5. /\ Attended(S).checkIn = CheckIn(S) /\ Attended(S).checkOut = CheckOut(S)
      /\ Attended(S).worked = Larger(0, Larger(0, CheckOut(S) - CheckIn(S)) - BreakMinutes(S))
  BY <1>4 DEF Attended
<1>6. IsFiniteSet(whole) /\ Cardinality(whole) = Larger(0, EventTime[b] - EventTime[a])
  <2>1. EventTime[a] \in Int /\ EventTime[b] \in Int
    BY <1>2
  <2>2. QED
    BY <2>1, SpanSize
<1>7. rest \in SUBSET whole
  BY <1>1, LastInABreak
<1>8. /\ BreakMinutes(S) = Cardinality(rest)
      /\ BreakNightMinutes(S) = Cardinality(NightUnits(rest))
  BY <1>1, BreaksAdd
<1>9. WorkedUnits(S) = whole \ rest
  BY <1>1, WorkedIsOutsideBreaks
<1>10. /\ IsFiniteSet(NightUnits(whole))
       /\ NightMinutes(EventTime[a], EventTime[b]) = Cardinality(NightUnits(whole))
  <2>1. NightUnits(whole) = {t \in EventTime[a]..(EventTime[b] - 1) : AtNight(t)}
    BY DEF NightUnits, Span
  <2>2. EventTime[a] \in Int /\ EventTime[b] \in Int
    BY <1>2
  <2> HIDE DEF whole
  <2>3. QED
    BY <2>1, <2>2, NightMinutesAreUnits
<1> HIDE DEF whole, rest
<1>11. NightUnits(rest) \in SUBSET NightUnits(whole)
       /\ NightUnits(whole \ rest) = NightUnits(whole) \ NightUnits(rest)
  BY <1>7 DEF NightUnits
<1>12. /\ Cardinality(whole \ rest) \in Nat
       /\ Cardinality(whole \ rest) = Cardinality(whole) - Cardinality(rest)
       /\ Cardinality(whole) \in Nat /\ Cardinality(rest) \in Nat
  BY <1>6, <1>7, WithoutPart
<1>13. Attended(S).worked = Cardinality(whole \ rest)
  <2>1. Attended(S).worked = Larger(0, Cardinality(whole) - Cardinality(rest))
    BY <1>2, <1>5, <1>6, <1>8
  <2>2. QED
    BY <1>12, <2>1 DEF Larger
<1>14. Larger(0, NightMinutes(EventTime[a], EventTime[b]) - BreakNightMinutes(S))
         = Cardinality(NightUnits(whole \ rest))
  <2>1. /\ Cardinality(NightUnits(whole) \ NightUnits(rest)) \in Nat
        /\ Cardinality(NightUnits(whole) \ NightUnits(rest))
             = Cardinality(NightUnits(whole)) - Cardinality(NightUnits(rest))
    BY <1>10, <1>11, WithoutPart
  <2>2. Larger(0, NightMinutes(EventTime[a], EventTime[b]) - BreakNightMinutes(S))
          = Larger(0, Cardinality(NightUnits(whole)) - Cardinality(NightUnits(rest)))
    BY <1>8, <1>10
  <2>3. \A n \in Nat : Larger(0, n) = n
    BY DEF Larger
  <2>4. QED
    BY <1>11, <2>1, <2>2, <2>3
<1>15. QED
  BY <1>2, <1>4, <1>5, <1>9, <1>12, <1>13, <1>14

LEMMA ShiftIs ==
  ASSUME NEW shift \in Shifts
  PROVE  /\ shift # NoPolicy
         /\ shift.start \in Int /\ shift.end \in Int
         /\ shift.break \in Int /\ shift.grace \in Int
         /\ \A S \in SUBSET EventIds : Normalize[<<S, shift>>] = NormalizeEvents(S, shift)
<1>1. shift # NoPolicy
  BY AttendanceLedgerAssumption
<1>2. shift \in ShiftFields
  BY ShiftPoliciesAssumption
<1>3. ASSUME NEW S \in SUBSET EventIds
      PROVE  Normalize[<<S, shift>>] = NormalizeEvents(S, shift)
  <2>1. <<S, shift>> \in (SUBSET EventIds) \X ShiftOrNone
    BY DEF ShiftOrNone
  <2> DEFINE j == <<S, shift>>
  <2>2. Normalize[j] = NormalizeEvents(j[1], j[2])
    BY <2>1 DEF Normalize
  <2>3. QED
    BY <2>2
<1>4. QED
  BY <1>1, <1>2, <1>3 DEF ShiftFields

LEMMA StretchesAreCounted ==
  ASSUME NEW S \in Stretches, NEW shift \in Shifts
  PROVE  <<S, shift>> \in CountedUnitByUnit
<1> DEFINE units == WorkedUnits(S)
           n == Normalize[<<S, shift>>]
<1>1. n = NormalizeEvents(S, shift)
  BY ShiftIs DEF Stretches
<1>2. ~ToReview(Attended(S), shift)
  BY StretchIsCounted, ShiftIs DEF ToReview
<1>3. /\ n.worked = Attended(S).worked
      /\ n.night = Larger(0, NightMinutes(Attended(S).checkIn, Attended(S).checkOut)
                               - BreakNightMinutes(S))
  BY <1>1, <1>2 DEF NormalizeEvents
<1>4. n.worked = Cardinality(units) /\ n.night = Cardinality({t \in units : AtNight(t)})
  BY <1>3, StretchIsCounted DEF NightUnits
<1>5. QED
  BY <1>4 DEF CountedUnitByUnit

\* Whatever the events, the first of them that checks in has a time.
LEMMA CheckInIsTimed ==
  ASSUME NEW S \in SUBSET EventIds
  PROVE  CheckIn(S) \in Int
<1> DEFINE ins == Times(OfType(S, CheckIns))
<1>1. ins \in SUBSET Nat
  BY TimesAreNat DEF Times, OfType
<1>2. CASE ins = {}
  BY <1>2 DEF CheckIn, NoTime
<1>3. CASE ins # {}
  <2>1. \E t \in ins : \A u \in ins : t <= u
    BY <1>1, <1>3, Smallest
  <2>2. CheckIn(S) = CHOOSE t \in ins : \A u \in ins : t <= u
    BY <1>3 DEF CheckIn
  <2>3. CheckIn(S) \in ins
    BY <2>1, <2>2
  <2>4. QED
    BY <1>1, <2>3
<1>4. QED
  BY <1>2, <1>3

LEMMA CopyOfADayShift ==
  ASSUME NEW shift \in Shifts, shift.end > shift.start
  PROVE  shift \in CopyAgrees
<1>1. SUFFICES ASSUME NEW S \in SUBSET EventIds
               PROVE  LET copy == DomainNormalize(S, shift)
                      IN  copy = [c \in DOMAIN copy |-> NormalizeEvents(S, shift)[c]]
  BY ShiftIs DEF CopyAgrees
<1> DEFINE att == Attended(S)
<1>2. CASE ToReview(att, shift)
  BY <1>2 DEF NormalizeEvents, DomainNormalize
<1>3. CASE ~ToReview(att, shift)
  <2>1. att.checkIn \in Int
    BY CheckInIsTimed DEF Attended
  <2>2. Scheduled(shift) = Larger(0, shift.end - shift.start - Larger(shift.break, 0))
    BY ShiftIs DEF Scheduled, Larger
  <2>3. Status(att.checkIn, att.checkOut, shift) = DomainStatus(att.checkIn, att.checkOut, shift)
    <3> DEFINE in == att.checkIn
               midnight == (in \div DayLength) * DayLength
    <3>1. midnight \in Int
      <4> HIDE DEF in
      <4>1. in \in Int
        BY <2>1 DEF in
      <4>2. in \div DayLength \in Int
        BY <4>1, NightBounds, Division
      <4>3. QED
        BY <4>2, DayEnds
    <3>2. ~(shift.end <= shift.start)
      BY ShiftIs
    <3> HIDE DEF midnight
    <3>3. midnight + shift.end + 0 = midnight + shift.end
      BY <3>1, ShiftIs
    <3>4. QED
      BY <3>2, <3>3 DEF Status, DomainStatus, midnight
  <2> HIDE DEF att
  <2>4. QED
    BY <1>3, <2>2, <2>3 DEF NormalizeEvents, DomainNormalize, att
<1>4. QED
  BY <1>2, <1>3

LEMMA CopyOfANightShift ==
  ASSUME NEW shift \in Shifts, ~(shift.end > shift.start), NEW S \in Stretches
  PROVE  DomainNormalize(S, shift).overtime = Cardinality(WorkedUnits(S))
<1>1. ~ToReview(Attended(S), shift)
  BY StretchIsCounted, ShiftIs DEF ToReview
<1>2. DomainNormalize(S, shift).overtime
        = Larger(0, Attended(S).worked
                      - Larger(0, shift.end - shift.start - Larger(shift.break, 0)))
  BY <1>1 DEF DomainNormalize
<1>3. Larger(0, shift.end - shift.start - Larger(shift.break, 0)) = 0
  BY ShiftIs DEF Larger
<1>4. QED
  BY <1>2, <1>3, StretchIsCounted DEF Larger

\* The minutes of every well-formed stretch among the events are those one counts unit by
\* unit, worked and at night, under every published policy, and the copy in
\* packages/domain agrees for a shift within one day and makes overtime of all the work
\* for one across midnight (normalizeAttendanceEvents).
THEOREM MinutesAreCountedRight == LedgerSpec => []MinutesAreCounted
<1>1. LedgerTypeOK => MinutesAreCounted
  <2>1. SUFFICES ASSUME LedgerTypeOK, NEW k \in DOMAIN policies
                 PROVE  LET shift == policies[k].shift
                        IN  /\ \A S \in Stretches : <<S, shift>> \in CountedUnitByUnit
                            /\ IF shift.end > shift.start THEN shift \in CopyAgrees
                               ELSE \A S \in Stretches :
                                      DomainNormalize(S, shift).overtime
                                        = Cardinality(WorkedUnits(S))
    BY DEF MinutesAreCounted
  <2>2. policies[k].shift \in Shifts
    BY <2>1 DEF LedgerTypeOK, PoliciesTypeOK, PolicyRows
  <2>3. QED
    BY <2>2, StretchesAreCounted, CopyOfADayShift, CopyOfANightShift
<1>2. QED
  BY <1>1, LedgerTypesHold, PTL
=============================================================================
