------------------------ MODULE AttendanceDeliveryProofs ------------------------
(***************************************************************************)
(* Theorems about AttendanceDelivery, for any files, rows, employees,      *)
(* slots, writes and faults.                                               *)
(***************************************************************************)
EXTENDS AttendanceDelivery, SequenceTheorems, FiniteSetTheorems, TLAPS

(***************************************************************************)
(* Sequences.                                                              *)
(***************************************************************************)
LEMMA EmptyHasNone == ToSet(<<>>) = {}
BY DEF ToSet

LEMMA OneHasOne ==
  ASSUME NEW x
  PROVE  ToSet(<<x>>) = {x} /\ Head(<<x>>) = x /\ Tail(<<x>>) = <<>> /\ Len(<<x>>) = 1
BY DEF ToSet

LEMMA ElementsAreTyped ==
  ASSUME NEW S, NEW s \in Seq(S)
  PROVE  ToSet(s) \subseteq S
BY DEF ToSet

LEMMA HeadAndTail ==
  ASSUME NEW S, NEW s \in Seq(S), s # <<>>
  PROVE  /\ Head(s) \in S /\ Tail(s) \in Seq(S)
         /\ ToSet(s) = {Head(s)} \cup ToSet(Tail(s))
         /\ Len(s) = 1 <=> Tail(s) = <<>>
<1>1. /\ Head(s) \in S /\ Tail(s) \in Seq(S) /\ Len(s) \in Nat \ {0}
      /\ Len(Tail(s)) = Len(s) - 1 /\ Head(s) = s[1]
      /\ \A i \in 1..(Len(s) - 1) : Tail(s)[i] = s[i + 1]
  OBVIOUS
<1>2. ToSet(s) \subseteq {Head(s)} \cup ToSet(Tail(s))
  <2> SUFFICES ASSUME NEW i \in 1..Len(s), i # 1 PROVE s[i] \in ToSet(Tail(s))
    BY <1>1 DEF ToSet
  <2>1. i - 1 \in 1..(Len(s) - 1) /\ Tail(s)[i - 1] = s[i]
    BY <1>1
  <2>2. DOMAIN Tail(s) = 1..(Len(s) - 1)
    BY <1>1
  <2>3. QED
    BY <2>1, <2>2 DEF ToSet
<1>3. ToSet(Tail(s)) \subseteq ToSet(s)
  <2> SUFFICES ASSUME NEW i \in 1..(Len(s) - 1) PROVE Tail(s)[i] \in ToSet(s)
    BY <1>1 DEF ToSet
  <2>1. i + 1 \in 1..Len(s) /\ Tail(s)[i] = s[i + 1]
    BY <1>1
  <2>2. QED
    BY <2>1 DEF ToSet
<1>4. Head(s) \in ToSet(s)
  BY <1>1 DEF ToSet
<1>5. Len(s) = 1 <=> Tail(s) = <<>>
  BY <1>1
<1>6. QED
  BY <1>1, <1>2, <1>3, <1>4, <1>5

LEMMA Appending ==
  ASSUME NEW S, NEW s \in Seq(S), NEW x \in S
  PROVE  /\ Append(s, x) \in Seq(S) /\ ToSet(Append(s, x)) = ToSet(s) \cup {x}
         /\ Len(Append(s, x)) = Len(s) + 1
         /\ \A i \in 1..Len(s) : Append(s, x)[i] = s[i]
<1>1. /\ Append(s, x) \in Seq(S) /\ Len(Append(s, x)) = Len(s) + 1 /\ Len(s) \in Nat
      /\ \A i \in 1..Len(s) : Append(s, x)[i] = s[i]
      /\ Append(s, x)[Len(s) + 1] = x
  OBVIOUS
<1>2. ToSet(Append(s, x)) = ToSet(s) \cup {x}
  <2>1. DOMAIN Append(s, x) = 1..Len(s) \cup {Len(s) + 1} /\ DOMAIN s = 1..Len(s)
    BY <1>1
  <2>2. QED
    BY <1>1, <2>1 DEF ToSet
<1>3. QED
  BY <1>1, <1>2

LEMMA FrontAndLast ==
  ASSUME NEW S, NEW s \in Seq(S), s # <<>>
  PROVE  /\ Front(s) \in Seq(S) /\ Last(s) \in S
         /\ ToSet(s) = ToSet(Front(s)) \cup {Last(s)}
<1>1. /\ Front(s) \in Seq(S) /\ Last(s) \in S /\ Len(s) \in Nat \ {0}
      /\ Len(Front(s)) = Len(s) - 1 /\ Last(s) = s[Len(s)]
      /\ \A i \in 1..(Len(s) - 1) : Front(s)[i] = s[i]
  <2>1. Len(s) \in Nat \ {0} /\ \A i \in 1..Len(s) : s[i] \in S
    OBVIOUS
  <2>2. Last(s) = s[Len(s)] /\ Last(s) \in S
    BY <2>1 DEF Last
  <2>3. Front(s) = [i \in 1..(Len(s) - 1) |-> s[i]]
    BY <2>1 DEF Front
  <2>4. \A i \in 1..(Len(s) - 1) : Front(s)[i] = s[i] /\ s[i] \in S
    BY <2>1, <2>3
  <2>5. Front(s) \in Seq(S) /\ Len(Front(s)) = Len(s) - 1
    BY <2>1, <2>3, <2>4
  <2>6. QED
    BY <2>1, <2>2, <2>4, <2>5
<1>2. DOMAIN Front(s) = 1..(Len(s) - 1) /\ DOMAIN s = 1..(Len(s) - 1) \cup {Len(s)}
  BY <1>1
<1>3. QED
  BY <1>1, <1>2 DEF ToSet

(***************************************************************************)
(* Types.                                                                  *)
(***************************************************************************)
AgentStates ==
  [pc : {"idle", "retry", "replace", "scan", "parse", "send"},
   rest : Seq(AgentRows), kept : Seq(AgentRows), file : 0..(NumFiles + 1),
   mtime : 0..MaxWrites, slot : Slots \cup {0}]

Running == {"resolve", "create", "audit"}

\* A request of the agent is for the row its loop is at.
AgentRequest(a, r) ==
  /\ r # FreeSlot /\ r.from = "agent"
  /\ a.pc \in {"retry", "send"} /\ a.rest # <<>>
  /\ r.pc \in Running => r.rows = <<Head(a.rest)>>

FileInv ==
  \A f \in FileIds : files[f].mtime = Len(files[f].rows)

TypeInv ==
  /\ DeliveryTypeOK
  /\ FileInv
  /\ agent.pc \in {"scan", "parse", "send"} => agent.file # 0
  /\ agent.pc \in {"parse", "send"} =>
       agent.file \in FileIds /\ agent.mtime <= files[agent.file].mtime
  /\ \A f \in DOMAIN processed : processed[f] <= files[f].mtime
  /\ agent.slot # 0 => AgentRequest(agent, request[agent.slot])

\* What the steps of the API leave in place.
AgentSide ==
  /\ files \in [FileIds -> [rows : Seq(AgentRows), mtime : 0..MaxWrites]]
  /\ DOMAIN processed \subseteq FileIds /\ \A f \in DOMAIN processed : processed[f] \in Nat
  /\ BufferTypeOK
  /\ agent \in AgentStates
  /\ FileInv
  /\ agent.pc \in {"scan", "parse", "send"} => agent.file # 0
  /\ agent.pc \in {"parse", "send"} =>
       agent.file \in FileIds /\ agent.mtime <= files[agent.file].mtime
  /\ \A f \in DOMAIN processed : processed[f] <= files[f].mtime

\* And what the steps of the agent do.
ApiSide ==
  /\ batch \in {"open", "sent", "accepted"}
  /\ DOMAIN identity \subseteq Users /\ \A u \in DOMAIN identity : identity[u] \in Numbers
  /\ raw \subseteq [row : Rows, employee : Numbers \cup {NoNumber}]
  /\ faults \in 0..MaxFaults

Requests ==
  /\ DOMAIN request = Slots /\ \A q \in Slots : RequestTypeOK(request[q])
  /\ agent.slot # 0 => AgentRequest(agent, request[agent.slot])

LEMMA TwoSides == TypeInv <=> AgentSide /\ ApiSide /\ Requests
BY DEF TypeInv, AgentSide, ApiSide, Requests, DeliveryTypeOK, AgentStates, AgentRequest

LEMMA TwoSidesNext == AgentSide' /\ ApiSide' /\ Requests' => TypeInv'
BY DEF TypeInv, AgentSide, ApiSide, Requests, DeliveryTypeOK, AgentStates, AgentRequest, FileInv

LEMMA NumFilesNat == NumFiles \in Nat
BY AttendanceDeliveryAssumption DEF NumFiles

LEMMA DeliveryTypesInit == DeliveryInit => TypeInv
<1> SUFFICES ASSUME DeliveryInit PROVE TypeInv
  OBVIOUS
<1>1. NumFiles \in Nat /\ MaxWrites \in Nat /\ MaxFaults \in Nat
  BY NumFilesNat, AttendanceDeliveryAssumption
<1>2. <<>> \in Seq(AgentRows) /\ Len(<<>>) = 0
  OBVIOUS
<1>3. AgentSide
  BY <1>1, <1>2 DEF DeliveryInit, AgentSide, AgentStates, FileInv, IdleAgent, AgentAt,
                     BufferTypeOK
<1>4. ApiSide
  BY <1>1 DEF DeliveryInit, ApiSide
<1>5. Requests
  BY DEF DeliveryInit, Requests, RequestTypeOK, IdleAgent, AgentAt
<1>6. QED
  BY <1>3, <1>4, <1>5, TwoSides

\* The request in a slot takes a new state.
LEMMA RequestChanges ==
  ASSUME TypeInv, NEW q \in Slots, NEW r, RequestTypeOK(r),
         request' = [request EXCEPT ![q] = r], UNCHANGED agent,
         agent.slot = q => AgentRequest(agent, r)
  PROVE  Requests'
<1>1. \A p \in Slots : RequestTypeOK(request'[p])
  BY DEF TypeInv, DeliveryTypeOK
<1>2. DOMAIN request' = Slots
  BY DEF TypeInv, DeliveryTypeOK
<1>3. agent'.slot # 0 => AgentRequest(agent', request'[agent'.slot])
  BY DEF TypeInv, DeliveryTypeOK
<1>4. QED
  BY <1>1, <1>2, <1>3 DEF Requests

LEMMA FaultCounted == ASSUME TypeInv, Fault PROVE faults' \in 0..MaxFaults
BY AttendanceDeliveryAssumption DEF Fault, TypeInv, DeliveryTypeOK

LEMMA RunningRequest ==
  ASSUME TypeInv, NEW q \in Slots, request[q].pc \in Running
  PROVE  /\ request[q] # FreeSlot
         /\ DOMAIN request[q] = {"pc", "rows", "from", "employee"}
         /\ request[q].rows \in Seq(Rows) /\ request[q].rows # <<>>
         /\ request[q].from \in {"agent", "batch"}
         /\ request[q].employee \in Numbers \cup {NoNumber}
         /\ Head(request[q].rows) \in Rows /\ Tail(request[q].rows) \in Seq(Rows)
<1>1. RequestTypeOK(request[q])
  BY DEF TypeInv, DeliveryTypeOK
<1>2. request[q] # FreeSlot
  BY DEF FreeSlot, Running
<1>3. request[q].rows \in Seq(Rows) /\ request[q].rows # <<>>
  BY <1>1, <1>2 DEF RequestTypeOK, Running
<1>4. QED
  BY <1>1, <1>2, <1>3, HeadAndTail DEF RequestTypeOK, Running

LEMMA AgentSideKept ==
  ASSUME TypeInv, UNCHANGED <<files, agentVars>>
  PROVE  AgentSide'
BY DEF agentVars, bufferVars, TypeInv, AgentSide, DeliveryTypeOK, AgentStates, FileInv,
       BufferTypeOK

LEMMA ApiSideKept ==
  ASSUME TypeInv, UNCHANGED <<batch, apiVars, faults>>
  PROVE  ApiSide'
BY DEF apiVars, TypeInv, ApiSide, DeliveryTypeOK

\* A request goes on with the rows it has and another pc.
LEMMA RequestGoesOn ==
  ASSUME TypeInv, NEW q \in Slots, request[q].pc \in Running,
         NEW pc \in Running \cup {"ok", "failed"}, NEW n \in Numbers \cup {NoNumber},
         request' = [request EXCEPT ![q] = [request[q] EXCEPT !.pc = pc, !.employee = n]],
         UNCHANGED agent
  PROVE  Requests'
<1> DEFINE r == [request[q] EXCEPT !.pc = pc, !.employee = n]
<1>1. /\ DOMAIN r = {"pc", "rows", "from", "employee"}
      /\ r.pc = pc /\ r.employee = n /\ r.rows = request[q].rows /\ r.from = request[q].from
  BY RunningRequest
<1>2. RequestTypeOK(r)
  BY <1>1, RunningRequest DEF RequestTypeOK, Running
<1>3. agent.slot = q => AgentRequest(agent, r)
  <2>1. r # FreeSlot
    BY <1>1 DEF FreeSlot
  <2>2. agent.slot = q => AgentRequest(agent, request[q])
    BY AttendanceDeliveryAssumption DEF TypeInv
  <2>3. QED
    BY <1>1, <2>1, <2>2 DEF AgentRequest
<1> HIDE DEF r
<1>4. QED
  BY <1>2, <1>3, RequestChanges DEF r

LEMMA RequestKeepsEmployee ==
  ASSUME TypeInv, NEW q \in Slots, request[q].pc \in Running, NEW pc
  PROVE  [request[q] EXCEPT !.pc = pc]
           = [request[q] EXCEPT !.pc = pc, !.employee = request[q].employee]
BY RunningRequest

LEMMA NextRowTyped ==
  ASSUME TypeInv, NEW q \in Slots, request[q].pc \in Running
  PROVE  /\ RequestTypeOK(NextRow(request[q]))
         /\ agent.slot = q => AgentRequest(agent, NextRow(request[q]))
<1> DEFINE old == request[q]
           r == NextRow(old)
<1>1. /\ DOMAIN r = {"pc", "rows", "from", "employee"}
      /\ r.rows = Tail(old.rows) /\ r.from = old.from /\ r.employee = old.employee
      /\ r.pc = IF Len(old.rows) = 1 THEN "ok" ELSE "resolve"
  BY RunningRequest DEF NextRow
<1>2. Tail(old.rows) \in Seq(Rows) /\ (Len(old.rows) = 1 <=> Tail(old.rows) = <<>>)
  BY RunningRequest, HeadAndTail
<1>3. RequestTypeOK(r)
  BY <1>1, <1>2, RunningRequest DEF RequestTypeOK
<1>4. ASSUME agent.slot = q PROVE AgentRequest(agent, r)
  <2>1. AgentRequest(agent, old)
    BY <1>4, AttendanceDeliveryAssumption DEF TypeInv
  <2>2. Len(old.rows) = 1
    BY <2>1, OneHasOne DEF AgentRequest
  <2>3. r # FreeSlot /\ r.pc = "ok"
    BY <1>1, <2>2 DEF FreeSlot
  <2>4. QED
    BY <1>1, <2>1, <2>3 DEF AgentRequest, Running
<1>5. QED
  BY <1>3, <1>4

LEMMA ServeTypes ==
  ASSUME TypeInv, NEW q \in Slots, Serve(q) \/ Abort(q)
  PROVE  TypeInv'
<1>1. request[q].pc \in Running
  BY DEF Serve, Refuse, Resolve, Create, Audit, Abort, Running
<1>2. request[q].employee \in Numbers \cup {NoNumber} /\ Head(request[q].rows) \in Rows
  BY <1>1, RunningRequest
<1>3. AgentSide'
  BY AgentSideKept DEF Serve, Refuse, Resolve, Create, Audit, Abort
<1>4. CASE Refuse(q) \/ Audit(q)
  <2>1. request' = [request EXCEPT ![q] = [request[q] EXCEPT !.pc = "failed",
                                             !.employee = request[q].employee]]
    BY <1>1, <1>4, RequestKeepsEmployee DEF Refuse, Audit
  <2>2. UNCHANGED agent /\ UNCHANGED <<batch, apiVars, faults>>
    BY <1>4 DEF Refuse, Audit, agentVars
  <2>3. QED
    BY <1>1, <1>2, <1>3, <2>1, <2>2, RequestGoesOn, ApiSideKept, TwoSidesNext
<1>5. CASE Abort(q)
  <2>1. request' = [request EXCEPT ![q] = [request[q] EXCEPT !.pc = "failed",
                                             !.employee = request[q].employee]]
    BY <1>1, <1>5, RequestKeepsEmployee DEF Abort
  <2>2. UNCHANGED agent /\ UNCHANGED <<batch, apiVars>>
    BY <1>5 DEF Abort, agentVars
  <2>3. ApiSide'
    BY <1>5, <2>2, FaultCounted DEF Abort, ApiSide, TypeInv, DeliveryTypeOK, apiVars
  <2>4. QED
    BY <1>1, <1>2, <1>3, <2>1, <2>2, <2>3, RequestGoesOn, TwoSidesNext
<1>6. CASE Resolve(q)
  <2> DEFINE number == NumberOf[Head(request[q].rows)]
             user == UserOf[Head(request[q].rows)]
  <2>1. user \in Users
    BY <1>2 DEF Users
  <2>2. PICK n : /\ request' = [request EXCEPT ![q] = [request[q] EXCEPT !.pc = "create",
                                                                      !.employee = n]]
                 /\ \/ /\ number \in Registered /\ n = number
                       /\ identity' = With(identity, user, number)
                    \/ /\ n = IF user \in DOMAIN identity THEN identity[user] ELSE NoNumber
                       /\ UNCHANGED identity
    BY <1>6 DEF Resolve
  <2>3. UNCHANGED agent /\ UNCHANGED <<batch, raw, faults>>
    BY <1>6 DEF Resolve, agentVars
  <2>4. ApiSide /\ Registered \subseteq Numbers
    BY TwoSides, AttendanceDeliveryAssumption
  <2>5. n \in Numbers \cup {NoNumber}
    BY <2>2, <2>4 DEF ApiSide
  <2>6. Requests'
    BY <1>1, <2>2, <2>3, <2>5, RequestGoesOn DEF Running
  <2>7. DOMAIN identity' \subseteq Users /\ \A u \in DOMAIN identity' : identity'[u] \in Numbers
    <3> HIDE DEF number, user
    <3>1. QED
      BY <2>1, <2>2, <2>4 DEF ApiSide, With
  <2>8. ApiSide'
    BY <2>3, <2>4, <2>7 DEF ApiSide
  <2>9. QED
    BY <1>3, <2>6, <2>8, TwoSidesNext
<1>7. CASE Create(q)
  <2> DEFINE event == [row |-> Head(request[q].rows), employee |-> request[q].employee]
  <2>1. event \in [row : Rows, employee : Numbers \cup {NoNumber}]
    BY <1>2
  <2>2. /\ raw' = raw \cup {event} /\ UNCHANGED agent
        /\ UNCHANGED <<batch, identity, faults>>
    BY <1>7 DEF Create, agentVars
  <2>3. ApiSide'
    BY <2>1, <2>2, TwoSides DEF ApiSide
  <2>4. Requests'
    <3>1. CASE event \in raw
      <4>1. request' = [request EXCEPT ![q] = NextRow(request[q])]
        BY <1>7, <3>1 DEF Create
      <4>2. QED
        BY <1>1, <2>2, <4>1, NextRowTyped, RequestChanges
    <3>2. CASE event \notin raw
      <4>1. request' = [request EXCEPT ![q] = [request[q] EXCEPT !.pc = "audit",
                                                 !.employee = request[q].employee]]
        BY <1>1, <1>7, <3>2, RequestKeepsEmployee DEF Create
      <4>2. QED
        BY <1>1, <1>2, <2>2, <4>1, RequestGoesOn DEF Running
    <3>3. QED
      BY <3>1, <3>2
  <2>5. QED
    BY <1>3, <2>3, <2>4, TwoSidesNext
<1>8. QED
  BY <1>4, <1>5, <1>6, <1>7 DEF Serve

LEMMA RowsOfBatch == BatchRows \in Seq(Rows) /\ BatchRows # <<>> /\ AgentRows \subseteq Rows
BY AttendanceDeliveryAssumption DEF Rows

LEMMA FreedSlot ==
  ASSUME TypeInv, NEW q \in Slots, request' = [request EXCEPT ![q] = FreeSlot],
         UNCHANGED agent, agent.slot # q
  PROVE  Requests'
<1>1. RequestTypeOK(FreeSlot)
  BY DEF RequestTypeOK
<1>2. QED
  BY <1>1, RequestChanges

LEMMA BatchTypes ==
  ASSUME TypeInv, NEW q \in Slots, AnswerLost(q) \/ SendBatch(q) \/ BatchAnswered(q)
  PROVE  TypeInv'
<1>1. AgentSide'
  BY AgentSideKept DEF AnswerLost, SendBatch, BatchAnswered
<1>2. UNCHANGED agent
  BY DEF AnswerLost, SendBatch, BatchAnswered, agentVars
<1>3. CASE AnswerLost(q)
  <2>1. Requests'
    BY <1>2, <1>3, FreedSlot DEF AnswerLost, Answered
  <2>2. ApiSide'
    BY <1>3, ApiSideKept DEF AnswerLost
  <2>3. QED
    BY <1>1, <2>1, <2>2, TwoSidesNext
<1>4. CASE BatchAnswered(q)
  <2>1. agent.slot # q
    BY <1>4, AttendanceDeliveryAssumption DEF BatchAnswered, TypeInv, AgentRequest
  <2>2. Requests'
    BY <1>2, <1>4, <2>1, FreedSlot DEF BatchAnswered, Answered
  <2>3. ApiSide'
    BY <1>4, TwoSides DEF BatchAnswered, ApiSide, apiVars
  <2>4. QED
    BY <1>1, <2>2, <2>3, TwoSidesNext
<1>5. CASE SendBatch(q)
  <2> DEFINE r == [pc |-> "resolve", rows |-> BatchRows, from |-> "batch",
                   employee |-> NoNumber]
  <2>1. RequestTypeOK(r)
    BY RowsOfBatch DEF RequestTypeOK
  <2>2. agent.slot # q
    BY <1>5, AttendanceDeliveryAssumption DEF SendBatch, Open, TypeInv, AgentRequest
  <2>3. request' = [request EXCEPT ![q] = r]
    BY <1>5 DEF SendBatch, Open
  <2> HIDE DEF r
  <2>4. Requests'
    BY <1>2, <2>1, <2>2, <2>3, RequestChanges
  <2>5. ApiSide'
    BY <1>5, TwoSides DEF SendBatch, ApiSide, apiVars
  <2>6. QED
    BY <1>1, <2>4, <2>5, TwoSidesNext
<1>6. QED
  BY <1>3, <1>4, <1>5

LEMMA WriteTypes ==
  ASSUME TypeInv, NEW f \in FileIds, NEW row \in FileRows[f], WriteRow(f, row)
  PROVE  TypeInv'
<1>1. row \in AgentRows
  BY DEF AgentRows
<1>2. /\ files[f] \in [rows : Seq(AgentRows), mtime : 0..MaxWrites]
      /\ files[f].mtime < MaxWrites /\ files[f].mtime = Len(files[f].rows)
  BY DEF WriteRow, TypeInv, DeliveryTypeOK, FileInv
<1> DEFINE new == [rows |-> Append(files[f].rows, row), mtime |-> files[f].mtime + 1]
<1>3. /\ new \in [rows : Seq(AgentRows), mtime : 0..MaxWrites]
      /\ new.mtime = Len(new.rows) /\ files[f].mtime <= new.mtime
  BY <1>1, <1>2, Appending, AttendanceDeliveryAssumption
<1>4. files' = [files EXCEPT ![f] = new]
  BY DEF WriteRow, TypeInv, DeliveryTypeOK
<1>5. UNCHANGED <<agentVars, request, batch, apiVars, faults>>
  BY DEF WriteRow
<1>6. files' \in [FileIds -> [rows : Seq(AgentRows), mtime : 0..MaxWrites]]
  BY <1>3, <1>4 DEF TypeInv, DeliveryTypeOK
<1>7. \A g \in FileIds : files[g].mtime <= files'[g].mtime /\ files'[g].mtime = Len(files'[g].rows)
  BY <1>3, <1>4 DEF TypeInv, DeliveryTypeOK, FileInv
<1> HIDE DEF new
<1>8. \A g \in FileIds : files[g].mtime \in Int /\ files'[g].mtime \in Int
  <2>1. MaxWrites \in Nat
    BY AttendanceDeliveryAssumption
  <2>2. files \in [FileIds -> [rows : Seq(AgentRows), mtime : 0..MaxWrites]]
    BY DEF TypeInv, DeliveryTypeOK
  <2>3. \A g \in FileIds : files[g].mtime \in 0..MaxWrites /\ files'[g].mtime \in 0..MaxWrites
    BY <1>6, <2>2
  <2>4. QED
    BY <2>1, <2>3
<1>9. AgentSide'
  <2>1. agent'.pc \in {"parse", "send"} =>
          agent'.file \in FileIds /\ agent'.mtime <= files'[agent'.file].mtime
    <3>1. agent'.pc \in {"parse", "send"} =>
            agent.file \in FileIds /\ agent.mtime <= files[agent.file].mtime
      BY <1>5 DEF agentVars, TypeInv
    <3>2. agent.mtime \in Int
      BY AttendanceDeliveryAssumption DEF TypeInv, DeliveryTypeOK
    <3>3. QED
      BY <1>5, <1>7, <1>8, <3>1, <3>2 DEF agentVars
  <2>2. \A g \in DOMAIN processed' : processed'[g] <= files'[g].mtime
    BY <1>5, <1>7, <1>8 DEF agentVars, TypeInv, DeliveryTypeOK
  <2>3. QED
    BY <1>5, <1>6, <1>7, <2>1, <2>2, TwoSides
    DEF AgentSide, FileInv, agentVars, bufferVars, BufferTypeOK
<1>10. ApiSide' /\ Requests'
  BY <1>5, TwoSides DEF ApiSide, Requests, agentVars, apiVars
<1>11. QED
  BY <1>9, <1>10, TwoSidesNext

(***************************************************************************)
(* The agent's steps.  Placed: what the agent's local state must be.       *)
(***************************************************************************)
Placed(a) ==
  /\ a \in AgentStates
  /\ a.pc \in {"scan", "parse", "send"} => a.file # 0
  /\ a.pc \in {"parse", "send"} => a.file \in FileIds /\ a.mtime <= files[a.file].mtime

LEMMA AgentMoves ==
  ASSUME TypeInv, UNCHANGED <<files, batch, apiVars>>, faults' \in 0..MaxFaults,
         Placed(agent'), BufferTypeOK',
         DOMAIN processed' \subseteq FileIds,
         \A f \in DOMAIN processed' :
           processed'[f] \in Nat /\ processed'[f] <= files[f].mtime,
         Requests'
  PROVE  TypeInv'
<1>1. AgentSide'
  BY DEF Placed, AgentSide, TypeInv, DeliveryTypeOK, AgentStates, FileInv
<1>2. ApiSide'
  BY DEF ApiSide, TypeInv, DeliveryTypeOK, apiVars
<1>3. QED
  BY <1>1, <1>2, TwoSidesNext

\* The agent waits for no request after the step.
LEMMA QuietAgent ==
  ASSUME TypeInv, UNCHANGED request, agent'.slot = 0
  PROVE  Requests'
BY DEF Requests, TypeInv, DeliveryTypeOK

LEMMA AgentIsPlaced ==
  ASSUME TypeInv
  PROVE  /\ Placed(agent) /\ Placed(IdleAgent)
         /\ BufferTypeOK /\ buffer \in Seq(AgentRows)
         /\ DOMAIN processed \subseteq FileIds /\ faults \in 0..MaxFaults
         /\ \A f \in DOMAIN processed : processed[f] \in Nat /\ processed[f] <= files[f].mtime
         /\ agent.slot # 0 => agent.pc \in {"retry", "send"} /\ agent.rest # <<>>
<1>1. <<>> \in Seq(AgentRows)
  OBVIOUS
<1>2. NumFiles \in Nat /\ MaxWrites \in Nat
  BY NumFilesNat, AttendanceDeliveryAssumption
<1>3. Placed(IdleAgent)
  BY <1>1, <1>2 DEF Placed, IdleAgent, AgentAt, AgentStates
<1>4. QED
  BY <1>3 DEF TypeInv, DeliveryTypeOK, BufferTypeOK, Placed, AgentStates, AgentRequest

LEMMA LoopStarts ==
  ASSUME TypeInv
  PROVE  /\ Placed(AgentAt("scan", <<>>, 1)) /\ AgentAt("scan", <<>>, 1).slot = 0
         /\ Placed(AgentAt("retry", buffer, 0)) /\ AgentAt("retry", buffer, 0).slot = 0
<1>1. <<>> \in Seq(AgentRows) /\ buffer \in Seq(AgentRows)
  BY AgentIsPlaced
<1>2. NumFiles \in Nat /\ MaxWrites \in Nat
  BY NumFilesNat, AttendanceDeliveryAssumption
<1>3. 1 \in 0..(NumFiles + 1) /\ 0 \in 0..(NumFiles + 1) /\ 0 \in 0..MaxWrites
  BY <1>2
<1>4. QED
  BY <1>1, <1>3 DEF Placed, AgentStates, AgentAt

\* A write to the buffer file, done or failed.
LEMMA EntryWritten ==
  ASSUME BufferTypeOK, NEW row \in AgentRows, AppendEntry(row)
  PROVE  /\ BufferTypeOK' /\ dropped \subseteq dropped' /\ swallowed \subseteq swallowed'
         /\ ToSet(buffer) \cup {row} \subseteq ToSet(buffer') \cup dropped' \cup swallowed'
         /\ ToSet(buffer') \subseteq ToSet(buffer) \cup {row}
         /\ dropped' \subseteq dropped \cup ToSet(buffer)
         /\ swallowed' \subseteq swallowed \cup {row}
<1>1. CASE tail = "ended"
  <2>1. /\ buffer' = Append(buffer, row) /\ dropped' = dropped /\ tail' = "ended"
        /\ swallowed' = swallowed
    BY <1>1 DEF AppendEntry, Joined
  <2>2. QED
    BY <2>1, Appending DEF BufferTypeOK
<1>2. CASE tail = "unended"
  <2>1. /\ buffer' = Front(buffer) /\ dropped' = dropped \cup {Last(buffer)} /\ tail' = "ended"
        /\ swallowed' = swallowed \cup {row}
    BY <1>2 DEF AppendEntry, Joined, Continued
  <2>2. QED
    BY <1>2, <2>1, FrontAndLast DEF BufferTypeOK
<1>3. CASE tail = "cut"
  BY <1>3 DEF AppendEntry, Joined, Continued, BufferTypeOK
<1>4. QED
  BY <1>1, <1>2, <1>3 DEF BufferTypeOK

LEMMA EntryNotWritten ==
  ASSUME BufferTypeOK, NEW row \in AgentRows, NEW rest \in SUBSET AgentRows,
         EntryFailed(row, rest)
  PROVE  /\ BufferTypeOK' /\ dropped \subseteq dropped' /\ UNCHANGED swallowed
         /\ ToSet(buffer) \cup {row} \cup rest \subseteq ToSet(buffer') \cup dropped'
         /\ ToSet(buffer') \subseteq ToSet(buffer) \cup {row}
         /\ dropped' \subseteq dropped \cup ToSet(buffer) \cup {row} \cup rest
<1>1. CASE dropped' = dropped \cup rest \cup {row} /\ UNCHANGED <<buffer, tail, swallowed>>
  BY <1>1 DEF BufferTypeOK
<1>2. CASE /\ buffer' = Continued /\ tail' = "cut" /\ UNCHANGED swallowed
           /\ dropped' = dropped \cup rest \cup {row} \cup Joined
  <2>1. CASE tail = "unended"
    <3>1. Continued = Front(buffer) /\ Joined = {Last(buffer)}
      BY <2>1 DEF Continued, Joined
    <3>2. QED
      BY <1>2, <2>1, <3>1, FrontAndLast DEF BufferTypeOK
  <2>2. CASE tail # "unended"
    BY <1>2, <2>2 DEF Continued, Joined, BufferTypeOK
  <2>3. QED
    BY <2>1, <2>2
<1>3. CASE /\ buffer' = Append(buffer, row) /\ tail' = "unended" /\ UNCHANGED swallowed
           /\ dropped' = dropped \cup rest
  <2>1. Append(buffer, row) # <<>>
    BY Appending DEF BufferTypeOK
  <2>2. QED
    BY <1>3, <2>1, Appending DEF BufferTypeOK
<1>4. QED
  BY <1>1, <1>2, <1>3 DEF EntryFailed

\* Steps that send nothing and hear nothing.
Alone ==
  Poll \/ Skip \/ Truncate \/ Rewrite \/ RewriteFailed \/ Scan \/ Parse \/ FileDone
    \/ PollFailed \/ FileFailed \/ Restart

LEMMA AloneIsQuiet ==
  ASSUME TypeInv, Alone
  PROVE  /\ UNCHANGED <<files, request, batch, apiVars>>
         /\ faults' \in 0..MaxFaults
         /\ agent'.slot = 0
<1>1. UNCHANGED <<files, request, batch, apiVars>>
  BY DEF Alone, Poll, Skip, Truncate, Rewrite, RewriteFailed, Scan, Parse, PollFailed,
         FileFailed, FileDone, Restart
<1>2. faults' \in 0..MaxFaults
  <2>1. CASE Fault
    BY <2>1, FaultCounted
  <2>2. CASE UNCHANGED faults
    BY <2>2, AgentIsPlaced
  <2>3. CASE Poll \/ Skip \/ Truncate \/ Rewrite \/ Scan \/ Parse \/ FileDone
    BY <2>2, <2>3 DEF Poll, Skip, Truncate, Rewrite, Scan, Parse, FileDone
  <2>4. CASE RewriteFailed \/ PollFailed \/ FileFailed \/ Restart
    BY <2>1, <2>4 DEF RewriteFailed, PollFailed, FileFailed, Restart
  <2>5. QED
    BY <2>3, <2>4 DEF Alone
<1>3. DOMAIN agent = {"pc", "rest", "kept", "file", "mtime", "slot"}
  BY AgentIsPlaced DEF Placed, AgentStates
<1>4. agent'.slot = 0
  <2>1. agent.pc \notin {"retry", "send"} \/ agent.rest = <<>> => agent.slot = 0
    BY AgentIsPlaced
  <2>2. CASE Poll
    BY <2>2, LoopStarts DEF Poll
  <2>3. CASE Skip \/ Truncate
    BY <1>3, <2>1, <2>3 DEF Skip, AtRow, Truncate
  <2>4. CASE Rewrite \/ RewriteFailed
    BY <1>3, <2>1, <2>4, LoopStarts DEF Rewrite, RewriteFailed, IdleAgent, AgentAt
  <2>5. CASE Scan
    BY <1>3, <2>1, <2>5 DEF Scan, IdleAgent, AgentAt
  <2>6. CASE Parse \/ FileFailed \/ PollFailed
    <3>1. CASE Parse \/ FileFailed
      BY <1>3, <2>1, <3>1 DEF Parse, FileFailed
    <3>2. CASE PollFailed
      BY <3>2 DEF PollFailed, IdleAgent, AgentAt
    <3>3. QED
      BY <2>6, <3>1, <3>2
  <2>7. CASE FileDone \/ Restart
    <3>1. CASE FileDone
      BY <1>3, <2>1, <3>1 DEF FileDone
    <3>2. CASE Restart
      BY <3>2 DEF Restart, IdleAgent, AgentAt
    <3>3. QED
      BY <2>7, <3>1, <3>2
  <2>8. QED
    BY <2>2, <2>3, <2>4, <2>5, <2>6, <2>7 DEF Alone
<1>5. QED
  BY <1>1, <1>2, <1>4

LEMMA AloneTypes ==
  ASSUME TypeInv, Alone
  PROVE  TypeInv'
<1>1. UNCHANGED <<files, request, batch, apiVars>> /\ faults' \in 0..MaxFaults /\ Requests'
  BY AloneIsQuiet, QuietAgent
<1>2. agent \in AgentStates /\ Placed(agent) /\ Placed(IdleAgent)
  BY AgentIsPlaced DEF Placed
<1>3. NumFiles \in Nat /\ MaxWrites \in Nat
  BY NumFilesNat, AttendanceDeliveryAssumption
<1>4. \A f \in FileIds : /\ files[f].rows \in Seq(AgentRows) /\ files[f].mtime \in 0..MaxWrites
  BY DEF TypeInv, DeliveryTypeOK
<1>5. agent.rest # <<>> => Head(agent.rest) \in AgentRows /\ Tail(agent.rest) \in Seq(AgentRows)
  BY <1>2 DEF AgentStates
<1>6. agent.kept # <<>> => Head(agent.kept) \in AgentRows /\ Tail(agent.kept) \in Seq(AgentRows)
  BY <1>2 DEF AgentStates
<1>7. Placed(agent')
  <2>1. CASE Poll \/ PollFailed \/ Restart \/ RewriteFailed
    BY <1>2, <2>1, LoopStarts DEF Poll, PollFailed, Restart, RewriteFailed
  <2>2. CASE Skip
    BY <1>2, <1>5, <2>2 DEF Skip, AtRow, Placed, AgentStates
  <2>3. CASE Truncate
    BY <1>2, <2>3 DEF Truncate, Placed, AgentStates
  <2>4. CASE Rewrite
    <3>1. CASE agent.kept = <<>>
      BY <2>4, <3>1, LoopStarts DEF Rewrite
    <3>2. CASE agent.kept # <<>>
      BY <1>2, <1>6, <2>4, <3>2 DEF Rewrite, Placed, AgentStates
    <3>3. QED
      BY <3>1, <3>2
  <2>5. CASE Scan
    <3>1. CASE agent.file > NumFiles
      BY <1>2, <2>5, <3>1 DEF Scan
    <3>2. CASE ~(agent.file > NumFiles)
      <4>1. /\ agent.file \in FileIds /\ agent.file # 0
            /\ agent.file + 1 \in 0..(NumFiles + 1) /\ agent.file + 1 # 0
        BY <1>2, <1>3, <2>5, <3>2 DEF Scan, Placed, AgentStates, FileIds
      <4>2. CASE ShouldProcess(agent.file)
        <5>1. agent' = [agent EXCEPT !.pc = "parse", !.mtime = files[agent.file].mtime]
          BY <2>5, <3>2, <4>2 DEF Scan
        <5>2. /\ agent'.file = agent.file /\ agent'.mtime = files[agent.file].mtime
              /\ agent'.mtime \in 0..MaxWrites
          BY <1>2, <1>4, <4>1, <5>1 DEF AgentStates
        <5>3. agent' \in AgentStates
          BY <1>2, <5>1, <5>2 DEF AgentStates
        <5>4. agent'.mtime <= files[agent.file].mtime
          BY <1>3, <5>2
        <5>5. QED
          BY <4>1, <5>2, <5>3, <5>4 DEF Placed
      <4>3. CASE ~ShouldProcess(agent.file)
        <5>1. agent' = [agent EXCEPT !.file = agent.file + 1] /\ agent.pc = "scan"
          BY <2>5, <3>2, <4>3 DEF Scan
        <5>2. QED
          BY <1>2, <4>1, <5>1 DEF Placed, AgentStates
      <4>4. QED
        BY <4>2, <4>3
    <3>3. QED
      BY <3>1, <3>2
  <2>6. CASE Parse
    BY <1>2, <1>4, <2>6 DEF Parse, Placed, AgentStates
  <2>7. CASE FileFailed \/ FileDone
    <3>1. agent.file \in FileIds
      BY <1>2, <2>7 DEF FileFailed, FileDone, Placed
    <3>2. agent' = [agent EXCEPT !.pc = "scan", !.file = agent.file + 1]
      BY <2>7 DEF FileFailed, FileDone
    <3>3. agent.file + 1 \in 0..(NumFiles + 1) /\ agent.file + 1 # 0
      BY <1>3, <3>1 DEF FileIds
    <3>4. QED
      BY <1>2, <3>2, <3>3 DEF Placed, AgentStates
  <2>8. QED
    BY <2>1, <2>2, <2>3, <2>4, <2>5, <2>6, <2>7 DEF Alone
<1>8. BufferTypeOK /\ ToSet(Tail(agent.kept)) \subseteq AgentRows
  <2>1. agent.kept = <<>> => Tail(agent.kept) \in Seq(AgentRows)
    OBVIOUS
  <2>2. QED
    BY <1>6, <2>1, AgentIsPlaced, ElementsAreTyped
<1>9. BufferTypeOK'
  <2>1. CASE Rewrite
    <3>1. CASE agent.kept = <<>>
      BY <1>8, <2>1, <3>1 DEF Rewrite, bufferVars, BufferTypeOK
    <3>2. CASE agent.kept # <<>>
      BY <1>6, <1>8, <2>1, <3>2, EntryWritten DEF Rewrite
    <3>3. QED
      BY <3>1, <3>2
  <2>2. CASE Truncate
    BY <1>8, <2>2 DEF Truncate, BufferTypeOK
  <2>3. CASE RewriteFailed
    BY <1>6, <1>8, <2>3, EntryNotWritten DEF RewriteFailed
  <2>4. CASE UNCHANGED bufferVars
    BY <1>8, <2>4 DEF bufferVars, BufferTypeOK
  <2>5. QED
    BY <2>1, <2>2, <2>3, <2>4
    DEF Alone, Poll, Skip, Scan, Parse, PollFailed, FileFailed, FileDone, Restart
<1>10. /\ DOMAIN processed' \subseteq FileIds
       /\ \A f \in DOMAIN processed' : processed'[f] \in Nat /\ processed'[f] <= files[f].mtime
  <2>1. CASE FileDone
    <3>1. agent.file \in FileIds /\ agent.mtime \in Nat /\ agent.mtime <= files[agent.file].mtime
      BY <1>2, <1>3, <2>1 DEF FileDone, Placed, AgentStates
    <3>2. processed' = With(processed, agent.file, agent.mtime)
      BY <2>1 DEF FileDone
    <3>3. QED
      BY <3>1, <3>2, AgentIsPlaced DEF With
  <2>2. CASE Restart
    BY <2>2 DEF Restart
  <2>3. CASE UNCHANGED processed
    BY <2>3, AgentIsPlaced
  <2>4. QED
    BY <2>1, <2>2, <2>3
    DEF Alone, Poll, Skip, Truncate, Rewrite, RewriteFailed, Scan, Parse, PollFailed,
        FileFailed
<1>11. QED
  BY <1>1, <1>7, <1>9, <1>10, AgentMoves

LEMMA SendTypes ==
  ASSUME TypeInv, NEW q \in Slots, Send(q)
  PROVE  TypeInv'
<1> DEFINE r == [pc |-> "resolve", rows |-> <<Head(agent.rest)>>, from |-> "agent",
                 employee |-> NoNumber]
<1>1. /\ agent.pc \in {"retry", "send"} /\ agent.rest # <<>>
      /\ request' = [request EXCEPT ![q] = r] /\ agent' = [agent EXCEPT !.slot = q]
      /\ UNCHANGED <<files, processed, bufferVars, batch, apiVars, faults>>
  BY DEF Send, Open, AtRow
<1>2. agent \in AgentStates /\ Placed(agent)
  BY AgentIsPlaced DEF Placed
<1>3. Head(agent.rest) \in Rows
  BY <1>1, <1>2, HeadAndTail, RowsOfBatch DEF AgentStates
<1>4. RequestTypeOK(r)
  BY <1>3 DEF RequestTypeOK
<1>5. /\ agent'.pc = agent.pc /\ agent'.rest = agent.rest /\ agent'.slot = q
      /\ agent'.file = agent.file /\ agent'.mtime = agent.mtime /\ agent' \in AgentStates
  BY <1>1, <1>2 DEF AgentStates
<1>6. Placed(agent')
  BY <1>2, <1>5 DEF Placed
<1>7. AgentRequest(agent', r)
  BY <1>1, <1>5 DEF AgentRequest, FreeSlot
<1> HIDE DEF r
<1>8. Requests'
  BY <1>1, <1>4, <1>5, <1>7 DEF Requests, TypeInv, DeliveryTypeOK
<1>9. BufferTypeOK'
  BY <1>1, AgentIsPlaced DEF BufferTypeOK, bufferVars
<1>10. QED
  BY <1>1, <1>6, <1>8, <1>9, AgentIsPlaced, AgentMoves

\* What an answer, or none, leaves of the agent: the loop goes on to the next row.
LEMMA LoopGoesOn ==
  ASSUME TypeInv, agent.slot # 0
  PROVE  /\ agent.pc \in {"retry", "send"} /\ agent.rest # <<>>
         /\ Head(agent.rest) \in AgentRows
         /\ Placed([agent EXCEPT !.rest = Tail(@), !.slot = 0])
         /\ Placed([agent EXCEPT !.rest = Tail(@), !.slot = 0,
                                 !.kept = Append(@, Head(agent.rest))])
<1>1. agent.pc \in {"retry", "send"} /\ agent.rest # <<>> /\ Placed(agent) /\ agent \in AgentStates
  BY AgentIsPlaced DEF Placed
<1>2. /\ Head(agent.rest) \in AgentRows /\ Tail(agent.rest) \in Seq(AgentRows)
      /\ Append(agent.kept, Head(agent.rest)) \in Seq(AgentRows)
  BY <1>1, HeadAndTail, Appending DEF AgentStates
<1>3. Placed([agent EXCEPT !.rest = Tail(@), !.slot = 0])
  BY <1>1, <1>2 DEF Placed, AgentStates
<1>4. Placed([agent EXCEPT !.rest = Tail(@), !.slot = 0, !.kept = Append(@, Head(agent.rest))])
  BY <1>1, <1>2 DEF Placed, AgentStates
<1>5. QED
  BY <1>1, <1>2, <1>3, <1>4

LEMMA KeepTypes ==
  ASSUME TypeInv, agent.slot # 0, Keep
  PROVE  Placed(agent') /\ agent'.slot = 0 /\ BufferTypeOK'
<1>1. agent \in AgentStates /\ BufferTypeOK
  BY AgentIsPlaced DEF Placed
<1>2. CASE agent.pc = "retry"
  <2>1. agent' = [agent EXCEPT !.rest = Tail(@), !.slot = 0,
                               !.kept = Append(@, Head(agent.rest))]
    BY <1>2 DEF Keep
  <2>2. agent'.slot = 0
    BY <1>1, <2>1 DEF AgentStates
  <2>3. BufferTypeOK'
    BY <1>1, <1>2 DEF Keep, bufferVars, BufferTypeOK
  <2>4. QED
    BY <2>1, <2>2, <2>3, LoopGoesOn
<1>3. CASE agent.pc = "send"
  <2>1. agent' = [agent EXCEPT !.rest = Tail(@), !.slot = 0]
    BY <1>1, <1>3 DEF Keep, AgentStates
  <2>2. agent'.slot = 0
    BY <1>1, <2>1 DEF AgentStates
  <2>3. BufferTypeOK'
    BY <1>1, <1>3, LoopGoesOn, EntryWritten DEF Keep
  <2>4. QED
    BY <2>1, <2>2, <2>3, LoopGoesOn
<1>4. QED
  BY <1>2, <1>3, LoopGoesOn

\* The request in the slot is done with and the agent waits for none.
LEMMA Hung ==
  ASSUME TypeInv, NEW q \in Slots, request' = [request EXCEPT ![q] = FreeSlot],
         agent'.slot = 0
  PROVE  Requests'
BY DEF Requests, RequestTypeOK, TypeInv, DeliveryTypeOK

LEMMA AnswerTypes ==
  ASSUME TypeInv, NEW q \in Slots, SendAnswered(q) \/ SendRefused(q)
  PROVE  TypeInv'
<1>1. agent.slot # 0
  BY AttendanceDeliveryAssumption DEF SendAnswered, SendRefused
<1>2. request' = [request EXCEPT ![q] = FreeSlot]
  BY DEF SendAnswered, SendRefused, Answered
<1>3. UNCHANGED <<files, processed, batch, apiVars, faults>>
  BY DEF SendAnswered, SendRefused
<1>4. agent \in AgentStates /\ BufferTypeOK
  BY AgentIsPlaced DEF Placed
<1>5. Placed(agent') /\ agent'.slot = 0 /\ BufferTypeOK'
  <2>1. CASE SendAnswered(q)
    <3>1. agent' = [agent EXCEPT !.rest = Tail(@), !.slot = 0] /\ UNCHANGED bufferVars
      BY <2>1 DEF SendAnswered
    <3>2. Placed(agent') /\ agent'.slot = 0
      BY <1>1, <1>4, <3>1, LoopGoesOn DEF AgentStates
    <3>3. QED
      BY <1>4, <3>1, <3>2 DEF bufferVars, BufferTypeOK
  <2>2. CASE SendRefused(q)
    BY <1>1, <2>2, KeepTypes DEF SendRefused
  <2>3. QED
    BY <2>1, <2>2
<1>6. Requests'
  BY <1>2, <1>5, Hung
<1>7. QED
  BY <1>3, <1>5, <1>6, AgentIsPlaced, AgentMoves

LEMMA TimeoutTypes ==
  ASSUME TypeInv, SendTimedOut
  PROVE  TypeInv'
<1>1. /\ agent.slot # 0 /\ Keep /\ Fault
      /\ UNCHANGED <<files, processed, request, batch, apiVars>>
  BY DEF SendTimedOut
<1>2. Placed(agent') /\ agent'.slot = 0 /\ BufferTypeOK'
  BY <1>1, KeepTypes
<1>3. Requests' /\ faults' \in 0..MaxFaults
  BY <1>1, <1>2, QuietAgent, FaultCounted
<1>4. QED
  BY <1>1, <1>2, <1>3, AgentIsPlaced, AgentMoves

LEMMA AppendFailedTypes ==
  ASSUME TypeInv, AppendFailed
  PROVE  TypeInv'
<1>1. /\ agent.slot # 0 /\ Fault /\ EntryFailed(Head(agent.rest), {})
      /\ agent' = [agent EXCEPT !.rest = Tail(@), !.slot = 0]
      /\ UNCHANGED <<files, processed, batch, apiVars>>
  BY DEF AppendFailed
<1>2. agent \in AgentStates /\ BufferTypeOK /\ agent.slot \in Slots
  BY <1>1, AgentIsPlaced DEF Placed, AgentStates
<1>3. Placed(agent') /\ agent'.slot = 0
  BY <1>1, <1>2, LoopGoesOn DEF AgentStates
<1>4. BufferTypeOK'
  BY <1>1, <1>2, LoopGoesOn, EntryNotWritten
<1>5. Requests'
  <2>1. CASE Answered(agent.slot, "failed")
    BY <1>2, <1>3, <2>1, Hung DEF Answered
  <2>2. CASE UNCHANGED request
    BY <1>3, <2>2, QuietAgent
  <2>3. QED
    BY <2>1, <2>2 DEF AppendFailed
<1>6. QED
  BY <1>1, <1>3, <1>4, <1>5, FaultCounted, AgentIsPlaced, AgentMoves

LEMMA DeliveryTypesNext ==
  ASSUME TypeInv, [DeliveryNext]_deliveryVars
  PROVE  TypeInv'
<1>1. CASE UNCHANGED deliveryVars
  BY <1>1 DEF deliveryVars, agentVars, bufferVars, apiVars, TypeInv, DeliveryTypeOK, BufferTypeOK,
              FileInv, AgentRequest
<1>2. CASE DeliveryNext
  BY <1>2, WriteTypes, ServeTypes, BatchTypes, AloneTypes, SendTypes, AnswerTypes, TimeoutTypes,
     AppendFailedTypes
  DEF DeliveryNext, AgentStep, Alone
<1>3. QED
  BY <1>1, <1>2

\* The types hold, whatever the files, the requests and the faults (DeliveryTypeOK).
THEOREM DeliveryTypesHold == DeliverySpec => []DeliveryTypeOK
<1>1. DeliveryInit => TypeInv
  BY DeliveryTypesInit
<1>2. TypeInv /\ [DeliveryNext]_deliveryVars => TypeInv'
  BY DeliveryTypesNext
<1>3. TypeInv => DeliveryTypeOK
  BY DEF TypeInv
<1>4. QED
  BY <1>1, <1>2, <1>3, PTL DEF DeliverySpec

(***************************************************************************)
(* What is stored.                                                         *)
(***************************************************************************)
LEMMA StoredStays ==
  ASSUME [DeliveryNext]_deliveryVars
  PROVE  raw \subseteq raw' /\ Stored \subseteq Stored'
<1>1. raw \subseteq raw'
  <2>1. ASSUME NEW q \in Slots, Serve(q) PROVE raw \subseteq raw'
    BY <2>1 DEF Serve, Refuse, Resolve, Create, Audit, apiVars
  <2>2. CASE UNCHANGED raw
    BY <2>2
  <2>3. QED
    BY <2>1, <2>2
    DEF DeliveryNext, WriteRow, Abort, AnswerLost, SendBatch, BatchAnswered, AgentStep, Poll, Skip,
        Truncate, Rewrite, Scan, Parse, FileDone, Send, SendAnswered, SendRefused, AppendFailed,
        SendTimedOut, RewriteFailed, PollFailed, FileFailed, Restart, apiVars, deliveryVars
<1>2. QED
  BY <1>1 DEF Stored

\* What Create does to a request: the row it is at is stored, and the request goes on
\* behind it only if it was before.
LEMMA Created ==
  ASSUME TypeInv, NEW q \in Slots, Create(q)
  PROVE  /\ Head(request[q].rows) \in Stored'
         /\ \/ /\ Head(request[q].rows) \in Stored
               /\ request' = [request EXCEPT ![q] = NextRow(request[q])]
            \/ request' = [request EXCEPT ![q].pc = "audit"]
<1> DEFINE event == [row |-> Head(request[q].rows), employee |-> request[q].employee]
<1>1. event \in raw' /\ event.row = Head(request[q].rows)
  BY DEF Create
<1>2. Head(request[q].rows) \in Stored'
  BY <1>1 DEF Stored
<1>3. event \in raw => Head(request[q].rows) \in Stored
  BY <1>1 DEF Stored
<1>4. QED
  BY <1>2, <1>3 DEF Create

\* How a step of the API changes the request in a slot.
LEMMA Served ==
  ASSUME TypeInv, NEW q \in Slots, Serve(q) \/ Abort(q)
  PROVE  /\ request[q].pc \in Running /\ UNCHANGED <<batch, files, agentVars>>
         /\ \A p \in Slots \ {q} : request'[p] = request[p]
         /\ request'[q] # FreeSlot /\ request'[q].from = request[q].from
         /\ \/ request'[q].pc = "failed"
            \/ /\ request'[q].pc \in Running /\ request'[q].rows = request[q].rows
            \/ /\ Head(request[q].rows) \in Stored
               /\ request'[q] = NextRow(request[q])
<1>1. request[q].pc \in Running /\ UNCHANGED <<batch, files, agentVars>>
  BY DEF Serve, Refuse, Resolve, Create, Audit, Abort, Running
<1>2. DOMAIN request[q] = {"pc", "rows", "from", "employee"}
  BY <1>1, RunningRequest
<1>3. DOMAIN request = Slots
  BY DEF TypeInv, DeliveryTypeOK
<1>4. CASE Refuse(q) \/ Audit(q) \/ Abort(q)
  <2>1. request' = [request EXCEPT ![q].pc = "failed"]
    BY <1>4 DEF Refuse, Audit, Abort
  <2>2. QED
    BY <1>1, <1>2, <1>3, <2>1 DEF FreeSlot
<1>5. CASE Resolve(q)
  <2>1. PICK n : request' = [request EXCEPT ![q].pc = "create", ![q].employee = n]
    BY <1>5 DEF Resolve
  <2>2. /\ request'[q].pc = "create" /\ request'[q].rows = request[q].rows
        /\ request'[q].from = request[q].from /\ DOMAIN request'[q] = DOMAIN request[q]
        /\ \A p \in Slots \ {q} : request'[p] = request[p]
    BY <1>2, <1>3, <2>1
  <2>3. request'[q] # FreeSlot
    BY <2>2 DEF FreeSlot
  <2>4. QED
    BY <1>1, <2>2, <2>3 DEF Running
<1>6. CASE Create(q)
  <2>1. CASE request' = [request EXCEPT ![q].pc = "audit"]
    <3>1. /\ request'[q].pc = "audit" /\ request'[q].rows = request[q].rows
          /\ request'[q].from = request[q].from
          /\ \A p \in Slots \ {q} : request'[p] = request[p]
      BY <1>2, <1>3, <2>1
    <3>2. request'[q] # FreeSlot
      BY <3>1 DEF FreeSlot
    <3>3. QED
      BY <1>1, <3>1, <3>2 DEF Running
  <2>2. CASE /\ Head(request[q].rows) \in Stored
             /\ request' = [request EXCEPT ![q] = NextRow(request[q])]
    <3>1. /\ request'[q] = NextRow(request[q])
          /\ \A p \in Slots \ {q} : request'[p] = request[p]
      BY <1>3, <2>2
    <3>2. /\ NextRow(request[q]).from = request[q].from
          /\ NextRow(request[q]).pc \in {"ok", "resolve"}
      BY <1>2 DEF NextRow
    <3>3. NextRow(request[q]) # FreeSlot
      BY <3>2 DEF FreeSlot
    <3>4. QED
      BY <1>1, <2>2, <3>1, <3>2, <3>3
  <2>3. QED
    BY <1>6, <2>1, <2>2, Created
<1>7. QED
  BY <1>4, <1>5, <1>6 DEF Serve

(***************************************************************************)
(* The batch.                                                              *)
(***************************************************************************)
BatchCovered(r, stored) ==
  r # FreeSlot /\ r.from = "batch" =>
    /\ r.pc \in Running => ToSet(BatchRows) \subseteq stored \cup ToSet(r.rows)
    /\ r.pc = "ok" => ToSet(BatchRows) \subseteq stored

BatchInv ==
  /\ \A q \in Slots : BatchCovered(request[q], Stored)
  /\ AcceptedIsStored

LEMMA NextRowCovered ==
  ASSUME TypeInv, NEW q \in Slots, request[q].pc \in Running, BatchCovered(request[q], Stored),
         Head(request[q].rows) \in Stored
  PROVE  BatchCovered(NextRow(request[q]), Stored)
<1> DEFINE old == request[q]
           r == NextRow(old)
<1>1. r.rows = Tail(old.rows) /\ r.from = old.from /\ old # FreeSlot
      /\ r.pc = IF Len(old.rows) = 1 THEN "ok" ELSE "resolve"
  BY RunningRequest DEF NextRow
<1>2. ToSet(old.rows) = {Head(old.rows)} \cup ToSet(Tail(old.rows))
      /\ (Len(old.rows) = 1 <=> Tail(old.rows) = <<>>)
  BY RunningRequest, HeadAndTail
<1>3. r.from = "batch" => ToSet(BatchRows) \subseteq Stored \cup ToSet(r.rows)
  BY <1>1, <1>2 DEF BatchCovered
<1>4. r.pc = "ok" => ToSet(r.rows) = {}
  BY <1>1, <1>2, EmptyHasNone
<1> HIDE DEF r
<1>5. QED
  BY <1>3, <1>4 DEF BatchCovered, r

LEMMA BatchStep ==
  ASSUME TypeInv, BatchInv, [DeliveryNext]_deliveryVars
  PROVE  BatchInv'
<1>1. Stored \subseteq Stored'
  BY StoredStays
<1>2. \A r : BatchCovered(r, Stored) => BatchCovered(r, Stored')
  BY <1>1 DEF BatchCovered
<1>3. DOMAIN request = Slots
  BY DEF TypeInv, DeliveryTypeOK
<1>4. ASSUME NEW q \in Slots, BatchCovered(request'[q], Stored'),
             \A p \in Slots \ {q} : request'[p] = request[p],
             batch' = "accepted" => batch = "accepted" \/ ToSet(BatchRows) \subseteq Stored
      PROVE  BatchInv'
  BY <1>1, <1>2, <1>4 DEF BatchInv, AcceptedIsStored
<1>5. ASSUME UNCHANGED <<request, batch>>
      PROVE  BatchInv'
  BY <1>1, <1>2, <1>5 DEF BatchInv, AcceptedIsStored
<1>6. ASSUME NEW q \in Slots, Serve(q) \/ Abort(q)
      PROVE  BatchInv'
  <2>1. BatchCovered(request'[q], Stored')
    <3>1. BatchCovered(request[q], Stored) /\ request[q] # FreeSlot /\ request[q].pc \in Running
      BY <1>6, Served, RunningRequest DEF BatchInv
    <3>2. CASE request'[q].pc = "failed"
      BY <3>2 DEF BatchCovered, Running
    <3>3. CASE request'[q].pc \in Running /\ request'[q].rows = request[q].rows
      <4>1. request'[q].from = request[q].from
        BY <1>6, Served
      <4>2. QED
        BY <1>1, <3>1, <3>3, <4>1 DEF BatchCovered, Running
    <3>4. CASE Head(request[q].rows) \in Stored /\ request'[q] = NextRow(request[q])
      BY <1>2, <3>1, <3>4, NextRowCovered
    <3>5. QED
      BY <1>6, <3>2, <3>3, <3>4, Served
  <2>2. QED
    BY <1>4, <1>6, <2>1, Served
<1>7. ASSUME NEW q \in Slots, NEW rows, NEW from \in {"agent", "batch"}, Open(q, rows, from),
             from = "batch" => rows = BatchRows,
             batch' = "accepted" => batch = "accepted"
      PROVE  BatchInv'
  <2>1. request' = [request EXCEPT ![q] =
          [pc |-> "resolve", rows |-> rows, from |-> from, employee |-> NoNumber]]
    BY <1>7 DEF Open
  <2>2. BatchCovered(request'[q], Stored')
    BY <1>3, <1>7, <2>1 DEF BatchCovered
  <2>3. QED
    BY <1>3, <1>4, <1>7, <2>1, <2>2
<1>8. ASSUME NEW q \in Slots, request' = [request EXCEPT ![q] = FreeSlot],
             batch' = "accepted" => batch = "accepted" \/ ToSet(BatchRows) \subseteq Stored
      PROVE  BatchInv'
  <2>1. BatchCovered(request'[q], Stored')
    BY <1>3, <1>8 DEF BatchCovered
  <2>2. QED
    BY <1>3, <1>4, <1>8, <2>1
<1>9. ASSUME NEW q \in Slots, BatchAnswered(q)
      PROVE  BatchInv'
  <2>1. batch' = "accepted" => ToSet(BatchRows) \subseteq Stored
    BY <1>9 DEF BatchAnswered, BatchInv, BatchCovered, FreeSlot
  <2>2. QED
    BY <1>8, <1>9, <2>1 DEF BatchAnswered, Answered
<1>10. ASSUME NEW q \in Slots, SendBatch(q) \/ Send(q)
       PROVE  BatchInv'
  BY <1>7, <1>10 DEF SendBatch, Send
<1>11. ASSUME NEW q \in Slots,
              AnswerLost(q) \/ SendAnswered(q) \/ SendRefused(q)
       PROVE  BatchInv'
  BY <1>8, <1>11 DEF AnswerLost, SendAnswered, SendRefused, Answered
<1>12. CASE Alone \/ SendTimedOut \/ \E f \in FileIds : \E row \in FileRows[f] : WriteRow(f, row)
  BY <1>5, <1>12, AloneIsQuiet DEF SendTimedOut, WriteRow
<1>13. CASE UNCHANGED deliveryVars
  BY <1>5, <1>13 DEF deliveryVars
<1>14. CASE AppendFailed
  <2>1. agent.slot \in Slots /\ UNCHANGED batch
    BY <1>14, AgentIsPlaced DEF AppendFailed, Placed, AgentStates
  <2>2. QED
    BY <1>5, <1>8, <1>14, <2>1 DEF AppendFailed, Answered
<1>15. QED
  BY <1>6, <1>9, <1>10, <1>11, <1>12, <1>13, <1>14 DEF DeliveryNext, AgentStep, Alone

\* A batch that is accepted is stored as a whole, though every attempt ends at the first
\* row it adds, and however many requests handle it (ingestBatch, AcceptedIsStored).
THEOREM AcceptedBatchesAreStored == DeliverySpec => []AcceptedIsStored
<1>1. DeliveryInit => TypeInv /\ BatchInv
  BY DeliveryTypesInit DEF DeliveryInit, BatchInv, BatchCovered, AcceptedIsStored
<1>2. TypeInv /\ BatchInv /\ [DeliveryNext]_deliveryVars => TypeInv' /\ BatchInv'
  BY DeliveryTypesNext, BatchStep
<1>3. BatchInv => AcceptedIsStored
  BY DEF BatchInv
<1>4. QED
  BY <1>1, <1>2, <1>3, PTL DEF DeliverySpec

(***************************************************************************)
(* The agent's rows.  On: the row the agent waits with is stored when the  *)
(* answer is good; what retryBuffered takes from the buffer, and what the  *)
(* loop takes from a file, is somewhere at each row.                       *)
(***************************************************************************)
AnswerInv == agent.slot # 0 /\ request[agent.slot].pc = "ok" => Head(agent.rest) \in Stored

RetryInv ==
  agent.pc = "retry" =>
    ToSet(buffer) \subseteq Stored \cup Unmapped \cup ToSet(agent.rest) \cup ToSet(agent.kept)

\* What is in the buffer file, or was in it and is lost.
Held == ToSet(buffer) \cup dropped \cup swallowed

SendSafe == Stored \cup Held \cup Unmapped \cup ToSet(agent.rest)

SendInv ==
  agent.pc = "send" => \A i \in 1..agent.mtime : files[agent.file].rows[i] \in SendSafe

\* The two halves of NothingForgotten.  A line left unended is yet to swallow an entry.
Safe == Stored \cup InBuffer \cup dropped \cup swallowed \cup Unmapped
RowsSafe == \A f \in DOMAIN processed : \A i \in 1..processed[f] : files[f].rows[i] \in Safe

SwallowInv ==
  /\ IsFiniteSet(swallowed)
  /\ Cardinality(swallowed) <= faults
  /\ tail # "ended" => Cardinality(swallowed) + 1 <= faults

ForgetInv == AnswerInv /\ RetryInv /\ SendInv /\ RowsSafe /\ SwallowInv

LEMMA StillSafe ==
  ASSUME RowsSafe, UNCHANGED <<files, processed>>, Safe \subseteq Safe'
  PROVE  RowsSafe'
BY DEF RowsSafe

LEMMA AnswerStep ==
  ASSUME TypeInv, AnswerInv, [DeliveryNext]_deliveryVars
  PROVE  AnswerInv'
<1>1. Stored \subseteq Stored'
  BY StoredStays
<1>2. DOMAIN request = Slots /\ agent \in AgentStates
  BY AgentIsPlaced DEF TypeInv, DeliveryTypeOK, Placed
<1>3. CASE agent'.slot = 0
  BY <1>3 DEF AnswerInv
<1>4. CASE UNCHANGED <<agent, request>>
  BY <1>1, <1>4 DEF AnswerInv
<1>5. ASSUME NEW q \in Slots, UNCHANGED agent, agent.slot # q,
             \A p \in Slots \ {q} : request'[p] = request[p]
      PROVE  AnswerInv'
  <2>1. agent.slot # 0 => agent.slot \in Slots \ {q}
    BY <1>2, <1>5 DEF AgentStates
  <2>2. QED
    BY <1>1, <1>5, <2>1 DEF AnswerInv
<1>6. ASSUME NEW q \in Slots, Serve(q) \/ Abort(q)
      PROVE  AnswerInv'
  <2>1. UNCHANGED agent
    BY <1>6, Served DEF agentVars
  <2>2. CASE agent.slot # q
    BY <1>5, <1>6, <2>1, <2>2, Served
  <2>3. CASE agent.slot = q
    <3>1. AgentRequest(agent, request[q]) /\ request[q].pc \in Running
      BY <1>6, <2>3, Served, AttendanceDeliveryAssumption DEF TypeInv
    <3>2. Head(request[q].rows) = Head(agent.rest)
      BY <3>1, OneHasOne DEF AgentRequest
    <3>3. request'[q].pc = "ok" => Head(request[q].rows) \in Stored
      BY <1>6, Served DEF Running
    <3>4. QED
      BY <1>1, <2>1, <2>3, <3>2, <3>3 DEF AnswerInv
  <2>4. QED
    BY <2>2, <2>3
<1>7. ASSUME NEW q \in Slots, AnswerLost(q) \/ SendBatch(q) \/ BatchAnswered(q)
      PROVE  AnswerInv'
  <2>1. UNCHANGED agent /\ \A p \in Slots \ {q} : request'[p] = request[p]
    BY <1>2, <1>7 DEF AnswerLost, SendBatch, BatchAnswered, Answered, Open, agentVars
  <2>2. agent.slot # q
    BY <1>7, AttendanceDeliveryAssumption
    DEF AnswerLost, SendBatch, BatchAnswered, Open, TypeInv, AgentRequest
  <2>3. QED
    BY <1>5, <2>1, <2>2
<1>8. ASSUME NEW q \in Slots, Send(q)
      PROVE  AnswerInv'
  <2>1. agent'.slot = q /\ request'[q].pc = "resolve"
    BY <1>2, <1>8 DEF Send, Open, AgentStates
  <2>2. QED
    BY <2>1 DEF AnswerInv
<1>9. ASSUME NEW q \in Slots, SendAnswered(q) \/ SendRefused(q)
      PROVE  agent'.slot = 0
  <2>1. CASE SendAnswered(q)
    BY <1>2, <2>1 DEF SendAnswered, AgentStates
  <2>2. CASE SendRefused(q)
    BY <2>2, KeepTypes, AttendanceDeliveryAssumption DEF SendRefused
  <2>3. QED
    BY <1>9, <2>1, <2>2
<1>10. CASE SendTimedOut \/ AppendFailed
  BY <1>2, <1>3, <1>10, KeepTypes DEF SendTimedOut, AppendFailed, AgentStates
<1>11. CASE Alone
  BY <1>3, <1>11, AloneIsQuiet
<1>12. CASE UNCHANGED deliveryVars \/ \E f \in FileIds : \E row \in FileRows[f] : WriteRow(f, row)
  BY <1>4, <1>12 DEF deliveryVars, agentVars, WriteRow
<1>13. QED
  BY <1>3, <1>6, <1>7, <1>8, <1>9, <1>10, <1>11, <1>12 DEF DeliveryNext, AgentStep, Alone

\* Steps beside the agent's own only add to what is stored, and rows to the files' ends.
Beside ==
  \/ UNCHANGED deliveryVars
  \/ \E f \in FileIds : \E row \in FileRows[f] : WriteRow(f, row)
  \/ \E q \in Slots : Serve(q) \/ Abort(q) \/ AnswerLost(q) \/ SendBatch(q) \/ BatchAnswered(q)

LEMMA BesideStep ==
  ASSUME TypeInv, RetryInv, SendInv, RowsSafe, [DeliveryNext]_deliveryVars, Beside
  PROVE  RetryInv' /\ SendInv' /\ RowsSafe'
<1>1. Stored \subseteq Stored'
  BY StoredStays
<1>2. UNCHANGED agentVars
  BY DEF Beside, WriteRow, Serve, Refuse, Resolve, Create, Audit, Abort, AnswerLost, SendBatch,
         BatchAnswered, deliveryVars
<1>3. \A f \in FileIds : \A i \in 1..files[f].mtime : files'[f].rows[i] = files[f].rows[i]
  <2>1. CASE UNCHANGED files
    BY <2>1
  <2>2. ASSUME NEW g \in FileIds, NEW row \in FileRows[g], WriteRow(g, row)
        PROVE  \A f \in FileIds : \A i \in 1..files[f].mtime : files'[f].rows[i] = files[f].rows[i]
    <3>1. /\ files[g].rows \in Seq(AgentRows) /\ files[g].mtime = Len(files[g].rows)
          /\ row \in AgentRows
      BY DEF TypeInv, DeliveryTypeOK, FileInv, AgentRows
    <3>2. \A i \in 1..files[g].mtime : Append(files[g].rows, row)[i] = files[g].rows[i]
      BY <3>1, Appending
    <3>3. /\ files'[g].rows = Append(files[g].rows, row)
          /\ \A f \in FileIds \ {g} : files'[f] = files[f]
      BY <2>2 DEF WriteRow, TypeInv, DeliveryTypeOK
    <3>4. QED
      BY <3>2, <3>3
  <2>3. QED
    BY <2>1, <2>2 DEF Beside, Serve, Refuse, Resolve, Create, Audit, Abort, AnswerLost,
                      SendBatch, BatchAnswered, deliveryVars
<1>4. RetryInv'
  BY <1>1, <1>2 DEF RetryInv, agentVars, bufferVars
<1>5. SendInv'
  <2> SUFFICES ASSUME agent'.pc = "send", NEW i \in 1..agent'.mtime
               PROVE  files'[agent'.file].rows[i] \in SendSafe'
    BY DEF SendInv
  <2>1. agent.file \in FileIds /\ i \in 1..files[agent.file].mtime /\ i \in 1..agent.mtime
    BY <1>2, AgentIsPlaced DEF agentVars, Placed, AgentStates, TypeInv, DeliveryTypeOK
  <2>2. files[agent.file].rows[i] \in SendSafe
    BY <1>2, <2>1 DEF SendInv, agentVars
  <2>3. QED
    BY <1>1, <1>2, <1>3, <2>1, <2>2 DEF SendSafe, Held, agentVars, bufferVars
<1>6. RowsSafe'
  <2> SUFFICES ASSUME NEW f \in DOMAIN processed, NEW i \in 1..processed[f]
               PROVE  files'[f].rows[i] \in Safe'
    BY <1>2 DEF RowsSafe, agentVars
  <2>1. f \in FileIds /\ i \in 1..files[f].mtime
    BY AgentIsPlaced DEF TypeInv, DeliveryTypeOK
  <2>2. files[f].rows[i] \in Safe
    BY DEF RowsSafe
  <2>3. QED
    BY <1>1, <1>2, <1>3, <2>1, <2>2 DEF Safe, InBuffer, agentVars, bufferVars
<1>7. QED
  BY <1>4, <1>5, <1>6

\* The loop is done with a row: it is stored, kept, buffered, lost or skipped.
LEMMA RowPassed ==
  ASSUME TypeInv, RetryInv, SendInv, RowsSafe,
         agent.pc \in {"retry", "send"}, agent.rest # <<>>,
         UNCHANGED <<files, processed, raw>>,
         agent'.pc = agent.pc, agent'.rest = Tail(agent.rest),
         agent'.file = agent.file, agent'.mtime = agent.mtime,
         ToSet(agent.kept) \subseteq ToSet(agent'.kept),
         Held \subseteq Held',
         agent.pc = "retry" =>
           /\ UNCHANGED bufferVars
           /\ Head(agent.rest) \in Stored \cup Unmapped \cup ToSet(agent'.kept),
         agent.pc = "send" =>
           Head(agent.rest) \in Stored \cup Held' \cup Unmapped
  PROVE  RetryInv' /\ SendInv' /\ RowsSafe'
<1>1. ToSet(agent.rest) = {Head(agent.rest)} \cup ToSet(agent'.rest)
  BY AgentIsPlaced, HeadAndTail DEF Placed, AgentStates
<1>2. Stored' = Stored
  BY DEF Stored
<1>3. RetryInv'
  BY <1>1, <1>2 DEF RetryInv, bufferVars
<1>4. SendInv'
  <2>1. SendSafe \subseteq SendSafe' \/ agent.pc # "send"
    BY <1>1, <1>2 DEF SendSafe
  <2>2. QED
    BY <2>1 DEF SendInv
<1>5. RowsSafe'
  <2>1. Safe \subseteq Safe'
    BY <1>2 DEF Safe, InBuffer, Held
  <2>2. QED
    BY <2>1, StillSafe
<1>6. QED
  BY <1>3, <1>4, <1>5

LEMMA AnswersForgetNothing ==
  ASSUME TypeInv, ForgetInv, NEW q,
         \/ q \in Slots /\ (SendAnswered(q) \/ SendRefused(q))
         \/ SendTimedOut \/ AppendFailed \/ Skip
  PROVE  RetryInv' /\ SendInv' /\ RowsSafe'
<1>1. RetryInv /\ SendInv /\ RowsSafe /\ AnswerInv
  BY DEF ForgetInv
<1>2. agent \in AgentStates
  BY AgentIsPlaced DEF Placed
<1>3. agent.pc \in {"retry", "send"} /\ agent.rest # <<>> /\ Head(agent.rest) \in AgentRows
  <2>1. CASE Skip
    BY <1>2, <2>1, HeadAndTail DEF Skip, AtRow, AgentStates
  <2>2. CASE agent.slot # 0
    BY <2>2, LoopGoesOn
  <2>3. QED
    BY <2>1, <2>2, AttendanceDeliveryAssumption
    DEF SendAnswered, SendRefused, AppendFailed, SendTimedOut
<1>4. UNCHANGED <<files, processed, raw>>
  BY DEF SendAnswered, SendRefused, AppendFailed, SendTimedOut, Skip, apiVars
<1>5. CASE q \in Slots /\ SendAnswered(q)
  <2>1. Head(agent.rest) \in Stored
    BY <1>1, <1>5, AttendanceDeliveryAssumption DEF SendAnswered, Answered, AnswerInv
  <2>2. /\ agent'.pc = agent.pc /\ agent'.rest = Tail(agent.rest) /\ agent'.kept = agent.kept
        /\ agent'.file = agent.file /\ agent'.mtime = agent.mtime /\ UNCHANGED bufferVars
    BY <1>2, <1>5 DEF SendAnswered, AgentStates
  <2>3. QED
    BY <1>1, <1>3, <1>4, <2>1, <2>2, RowPassed DEF Held, bufferVars
<1>6. CASE Skip
  <2>1. Head(agent.rest) \in Unmapped
    BY <1>6 DEF Skip
  <2>2. /\ agent'.pc = agent.pc /\ agent'.rest = Tail(agent.rest) /\ agent'.kept = agent.kept
        /\ agent'.file = agent.file /\ agent'.mtime = agent.mtime /\ UNCHANGED bufferVars
    BY <1>2, <1>6 DEF Skip, AgentStates
  <2>3. QED
    BY <1>1, <1>3, <1>4, <2>1, <2>2, RowPassed DEF Held, bufferVars
<1>7. CASE AppendFailed
  <2>1. /\ agent'.pc = agent.pc /\ agent'.rest = Tail(agent.rest) /\ agent'.kept = agent.kept
        /\ agent'.file = agent.file /\ agent'.mtime = agent.mtime /\ agent.pc = "send"
    BY <1>2, <1>7 DEF AppendFailed, AgentStates
  <2>2. Held \cup {Head(agent.rest)} \subseteq Held'
    BY <1>3, <1>7, AgentIsPlaced, EntryNotWritten DEF AppendFailed, Held
  <2>3. QED
    BY <1>1, <1>3, <1>4, <2>1, <2>2, RowPassed
<1>8. CASE SendRefused(q) \/ SendTimedOut
  <2>1. Keep
    BY <1>8 DEF SendRefused, SendTimedOut
  <2>2. /\ agent'.pc = agent.pc /\ agent'.rest = Tail(agent.rest)
        /\ agent'.file = agent.file /\ agent'.mtime = agent.mtime
    BY <1>2, <2>1 DEF Keep, AgentStates
  <2>3. CASE agent.pc = "retry"
    <3>1. agent'.kept = Append(agent.kept, Head(agent.rest)) /\ UNCHANGED bufferVars
      BY <1>2, <2>1, <2>3 DEF Keep, AgentStates
    <3>2. ToSet(agent'.kept) = ToSet(agent.kept) \cup {Head(agent.rest)}
      BY <1>2, <1>3, <3>1, Appending DEF AgentStates
    <3>3. Held' = Held
      BY <3>1 DEF Held, bufferVars
    <3>4. QED
      BY <1>1, <1>3, <1>4, <2>2, <2>3, <3>1, <3>2, <3>3, RowPassed
  <2>4. CASE agent.pc = "send"
    <3>1. agent'.kept = agent.kept /\ AppendEntry(Head(agent.rest))
      BY <1>2, <2>1, <2>4 DEF Keep, AgentStates
    <3>2. Held \cup {Head(agent.rest)} \subseteq Held'
      BY <1>3, <3>1, AgentIsPlaced, EntryWritten DEF Held
    <3>3. QED
      BY <1>1, <1>3, <1>4, <2>2, <2>4, <3>1, <3>2, RowPassed
  <2>5. QED
    BY <1>3, <2>3, <2>4
<1>9. QED
  BY <1>5, <1>6, <1>7, <1>8

LEMMA SendForgetsNothing ==
  ASSUME TypeInv, RetryInv, SendInv, RowsSafe, NEW q \in Slots, Send(q)
  PROVE  RetryInv' /\ SendInv' /\ RowsSafe'
<1>1. /\ agent'.pc = agent.pc /\ agent'.rest = agent.rest /\ agent'.kept = agent.kept
      /\ agent'.file = agent.file /\ agent'.mtime = agent.mtime
  BY AgentIsPlaced DEF Send, Placed, AgentStates
<1>2. UNCHANGED <<files, processed, bufferVars, raw>>
  BY DEF Send, apiVars
<1>3. Stored' = Stored /\ Safe' = Safe /\ SendSafe' = SendSafe
  BY <1>1, <1>2 DEF Stored, Safe, SendSafe, Held, InBuffer, bufferVars
<1>4. QED
  BY <1>1, <1>2, <1>3, StillSafe DEF RetryInv, SendInv, bufferVars

\* The steps from loop to loop.
LEMMA AloneForgetsNothing ==
  ASSUME TypeInv, RetryInv, SendInv, RowsSafe, Alone, ~Skip
  PROVE  RetryInv' /\ SendInv' /\ RowsSafe'
<1>1. agent \in AgentStates
  BY AgentIsPlaced DEF Placed
<1>2. UNCHANGED <<files, raw>> /\ Stored' = Stored
  BY AloneIsQuiet DEF apiVars, Stored
<1>3. CASE Poll
  <2>1. UNCHANGED <<processed, bufferVars>> /\ agent.pc = "idle"
        /\ agent' \in {AgentAt("scan", <<>>, 1), AgentAt("retry", buffer, 0)}
    BY <1>3 DEF Poll
  <2>2. /\ agent'.pc \in {"scan", "retry"}
        /\ agent'.pc = "retry" => agent'.rest = buffer
    BY <2>1 DEF AgentAt
  <2>3. RetryInv' /\ SendInv'
    BY <2>1, <2>2 DEF RetryInv, SendInv, bufferVars
  <2>4. Safe' = Safe
    BY <1>2, <2>1, <2>2 DEF Safe, InBuffer, bufferVars
  <2>5. QED
    BY <1>2, <2>1, <2>3, <2>4, StillSafe
<1>4. CASE Truncate
  <2>1. /\ agent.pc = "retry" /\ agent.rest = <<>> /\ buffer' = <<>>
        /\ agent'.pc = "replace" /\ agent'.kept = agent.kept
        /\ UNCHANGED <<processed, dropped, swallowed>>
    BY <1>1, <1>4 DEF Truncate, AgentStates
  <2>2. ToSet(buffer) \subseteq Stored \cup Unmapped \cup ToSet(agent.kept)
    BY <2>1, EmptyHasNone DEF RetryInv
  <2>3. Safe \subseteq Safe'
    BY <1>2, <2>1, <2>2 DEF Safe, InBuffer
  <2>4. QED
    BY <1>2, <2>1, <2>3, StillSafe DEF RetryInv, SendInv
<1>5. CASE Rewrite
  <2>1. agent.pc = "replace" /\ UNCHANGED processed
    BY <1>5 DEF Rewrite
  <2>2. CASE agent.kept = <<>>
    <3>1. agent'.pc = "scan" /\ UNCHANGED bufferVars
      BY <1>5, <2>2 DEF Rewrite, AgentAt
    <3>2. Safe \subseteq Safe'
      BY <1>2, <2>1, <2>2, <3>1, EmptyHasNone DEF Safe, InBuffer, bufferVars
    <3>3. QED
      BY <1>2, <2>1, <3>1, <3>2, StillSafe DEF RetryInv, SendInv
  <2>3. CASE agent.kept # <<>>
    <3>1. /\ agent'.pc = "replace" /\ agent'.kept = Tail(agent.kept)
          /\ AppendEntry(Head(agent.kept))
      BY <1>1, <1>5, <2>3 DEF Rewrite, AgentStates
    <3>2. /\ ToSet(agent.kept) = {Head(agent.kept)} \cup ToSet(agent'.kept)
          /\ Held \cup {Head(agent.kept)} \subseteq Held'
      BY <1>1, <2>3, <3>1, AgentIsPlaced, HeadAndTail, EntryWritten DEF AgentStates, Held
    <3>3. Safe \subseteq Safe'
      BY <1>2, <2>1, <3>1, <3>2 DEF Safe, InBuffer, Held
    <3>4. QED
      BY <1>2, <2>1, <3>1, <3>3, StillSafe DEF RetryInv, SendInv
  <2>4. QED
    BY <2>2, <2>3
<1>6. CASE RewriteFailed
  <2>1. /\ agent'.pc = "idle" /\ agent.kept # <<>> /\ UNCHANGED processed
        /\ EntryFailed(Head(agent.kept), ToSet(Tail(agent.kept)))
    BY <1>6 DEF RewriteFailed, IdleAgent, AgentAt
  <2>2. /\ Head(agent.kept) \in AgentRows /\ ToSet(Tail(agent.kept)) \subseteq AgentRows
        /\ ToSet(agent.kept) = {Head(agent.kept)} \cup ToSet(Tail(agent.kept))
    BY <1>1, <2>1, HeadAndTail, ElementsAreTyped DEF AgentStates
  <2>3. Held \cup ToSet(agent.kept) \subseteq Held'
    BY <2>1, <2>2, AgentIsPlaced, EntryNotWritten DEF Held
  <2>4. Safe \subseteq Safe'
    BY <1>2, <2>1, <2>3 DEF Safe, InBuffer, Held
  <2>5. QED
    BY <1>2, <2>1, <2>4, StillSafe DEF RetryInv, SendInv
<1>7. CASE Scan \/ FileFailed \/ PollFailed
  <2>1. /\ agent'.pc \in {"idle", "scan", "parse"}
        /\ agent.pc \in {"idle", "retry", "scan", "parse"}
        /\ UNCHANGED <<processed, bufferVars>>
    <3>1. CASE Scan
      BY <1>1, <3>1 DEF Scan, IdleAgent, AgentAt, AgentStates
    <3>2. CASE FileFailed
      BY <1>1, <3>2 DEF FileFailed, AgentStates
    <3>3. CASE PollFailed
      BY <3>3 DEF PollFailed, IdleAgent, AgentAt
    <3>4. QED
      BY <1>7, <3>1, <3>2, <3>3
  <2>2. Safe' = Safe
    BY <1>2, <2>1 DEF Safe, InBuffer, bufferVars
  <2>3. QED
    BY <1>2, <2>1, <2>2, StillSafe DEF RetryInv, SendInv
<1>8. CASE Parse
  <2>1. /\ agent.pc = "parse" /\ agent'.pc = "send" /\ agent'.rest = files[agent.file].rows
        /\ agent'.file = agent.file /\ agent'.mtime = agent.mtime
        /\ UNCHANGED <<processed, bufferVars>>
    BY <1>1, <1>8 DEF Parse, AgentStates
  <2>2. Safe' = Safe
    BY <1>2, <2>1 DEF Safe, InBuffer, bufferVars
  <2>3. /\ agent.file \in FileIds /\ agent.mtime \in Nat
        /\ agent.mtime <= Len(files[agent.file].rows)
        /\ files[agent.file].rows \in Seq(AgentRows)
    BY <2>1, AgentIsPlaced, AttendanceDeliveryAssumption
    DEF Placed, AgentStates, TypeInv, DeliveryTypeOK, FileInv
  <2>4. \A i \in 1..agent.mtime : files[agent.file].rows[i] \in ToSet(agent'.rest)
    BY <2>1, <2>3 DEF ToSet
  <2>5. SendInv'
    BY <1>2, <2>1, <2>4 DEF SendInv, SendSafe
  <2>6. QED
    BY <1>2, <2>1, <2>2, <2>5, StillSafe DEF RetryInv
<1>9. CASE FileDone
  <2>1. /\ agent.pc = "send" /\ agent.rest = <<>> /\ agent'.pc = "scan"
        /\ processed' = With(processed, agent.file, agent.mtime) /\ UNCHANGED bufferVars
    BY <1>1, <1>9 DEF FileDone, AgentStates
  <2>2. Safe' = Safe /\ SendSafe \subseteq Safe
    BY <1>2, <2>1, EmptyHasNone DEF Safe, InBuffer, SendSafe, Held, bufferVars
  <2>3. \A i \in 1..agent.mtime : files[agent.file].rows[i] \in Safe
    BY <2>1, <2>2 DEF SendInv
  <2>4. RowsSafe'
    BY <1>2, <2>1, <2>2, <2>3 DEF RowsSafe, With
  <2>5. QED
    BY <2>1, <2>4 DEF RetryInv, SendInv
<1>10. CASE Restart
  BY <1>10 DEF Restart, IdleAgent, AgentAt, RetryInv, SendInv, RowsSafe
<1>11. QED
  BY <1>3, <1>4, <1>5, <1>6, <1>7, <1>8, <1>9, <1>10 DEF Alone

\* What a step writes to the buffer file: the entry of a row the agent handles, or a part
\* of it.
Handled == (IF agent.slot # 0 THEN {Head(agent.rest)} ELSE {}) \cup ToSet(agent.kept)

LEMMA HandledRows ==
  ASSUME TypeInv
  PROVE  /\ Handled \subseteq AgentRows
         /\ agent.slot # 0 => Head(agent.rest) \in Handled
         /\ agent.kept # <<>> =>
              Head(agent.kept) \in Handled /\ ToSet(Tail(agent.kept)) \subseteq Handled
<1>1. agent.kept \in Seq(AgentRows)
  BY AgentIsPlaced DEF Placed, AgentStates
<1>2. QED
  BY <1>1, LoopGoesOn, HeadAndTail, ElementsAreTyped DEF Handled

LEMMA BufferMoves ==
  ASSUME TypeInv, [DeliveryNext]_deliveryVars
  PROVE  \/ UNCHANGED bufferVars
         \/ buffer' = <<>> /\ tail' = "ended" /\ UNCHANGED <<dropped, swallowed>>
         \/ \E row \in Handled : AppendEntry(row)
         \/ Fault /\ \E row \in Handled : \E rest \in SUBSET Handled : EntryFailed(row, rest)
<1>1. CASE Beside
  BY <1>1 DEF Beside, WriteRow, Serve, Refuse, Resolve, Create, Audit, Abort, AnswerLost,
              SendBatch, BatchAnswered, deliveryVars, agentVars
<1>2. CASE Poll \/ Skip \/ Scan \/ Parse \/ FileDone \/ PollFailed \/ FileFailed \/ Restart
  BY <1>2 DEF Poll, Skip, Scan, Parse, FileDone, PollFailed, FileFailed, Restart
<1>3. CASE Truncate
  BY <1>3 DEF Truncate
<1>4. CASE Rewrite
  BY <1>4, HandledRows DEF Rewrite
<1>5. CASE RewriteFailed
  BY <1>5, HandledRows DEF RewriteFailed
<1>6. CASE AppendFailed
  BY <1>6, HandledRows DEF AppendFailed
<1>7. CASE SendTimedOut
  BY <1>7, HandledRows DEF SendTimedOut, Keep
<1>8. ASSUME NEW q \in Slots, Send(q) \/ SendAnswered(q)
      PROVE  UNCHANGED bufferVars
  BY <1>8 DEF Send, SendAnswered
<1>9. ASSUME NEW q \in Slots, SendRefused(q)
      PROVE  UNCHANGED bufferVars \/ \E row \in Handled : AppendEntry(row)
  BY <1>9, HandledRows, AttendanceDeliveryAssumption DEF SendRefused, Keep
<1>10. QED
  BY <1>1, <1>2, <1>3, <1>4, <1>5, <1>6, <1>7, <1>8, <1>9 DEF DeliveryNext, AgentStep, Beside

LEMMA FaultsGrow ==
  ASSUME TypeInv, [DeliveryNext]_deliveryVars
  PROVE  faults' \in {faults, faults + 1} /\ faults \in Nat
<1>1. faults \in Nat
  BY AgentIsPlaced, AttendanceDeliveryAssumption
<1>2. UNCHANGED faults \/ Fault
  <2>1. CASE \E f \in FileIds : \E row \in FileRows[f] : WriteRow(f, row)
    BY <2>1 DEF WriteRow
  <2>2. CASE \E q \in Slots : Serve(q) \/ Abort(q) \/ AnswerLost(q)
    BY <2>2 DEF Serve, Refuse, Resolve, Create, Audit, Abort, AnswerLost
  <2>3. CASE \E q \in Slots : SendBatch(q) \/ BatchAnswered(q)
    BY <2>3 DEF SendBatch, BatchAnswered
  <2>4. CASE Poll \/ Skip \/ Truncate \/ Rewrite \/ Scan \/ Parse \/ FileDone
    BY <2>4 DEF Poll, Skip, Truncate, Rewrite, Scan, Parse, FileDone
  <2>5. CASE \E q \in Slots : Send(q) \/ SendAnswered(q) \/ SendRefused(q)
    BY <2>5 DEF Send, SendAnswered, SendRefused
  <2>6. CASE \/ SendTimedOut \/ AppendFailed \/ RewriteFailed
             \/ PollFailed \/ FileFailed \/ Restart
    BY <2>6 DEF SendTimedOut, AppendFailed, RewriteFailed, PollFailed, FileFailed, Restart
  <2>7. CASE UNCHANGED deliveryVars
    BY <2>7 DEF deliveryVars
  <2>8. QED
    BY <2>1, <2>2, <2>3, <2>4, <2>5, <2>6, <2>7 DEF DeliveryNext, AgentStep
<1>3. QED
  BY <1>1, <1>2 DEF Fault

\* Each line left unended swallows one entry at most.
LEMMA SwallowStep ==
  ASSUME TypeInv, SwallowInv, [DeliveryNext]_deliveryVars
  PROVE  SwallowInv'
<1>1. faults \in Nat /\ faults' \in {faults, faults + 1} /\ IsFiniteSet(swallowed)
      /\ Cardinality(swallowed) \in Nat
  BY FaultsGrow, FS_CardinalityType DEF SwallowInv
<1>2. CASE UNCHANGED <<tail, swallowed>>
  BY <1>1, <1>2 DEF SwallowInv
<1>3. CASE tail' = "ended" /\ UNCHANGED swallowed
  BY <1>1, <1>3 DEF SwallowInv
<1>4. ASSUME NEW row, AppendEntry(row) PROVE SwallowInv'
  <2>1. CASE tail = "ended"
    BY <1>3, <1>4, <2>1 DEF AppendEntry
  <2>2. CASE tail # "ended"
    <3>1. tail' = "ended" /\ swallowed' = swallowed \cup {row}
      BY <1>4, <2>2 DEF AppendEntry
    <3>2. /\ IsFiniteSet(swallowed') /\ Cardinality(swallowed') \in Nat
          /\ Cardinality(swallowed') <= Cardinality(swallowed) + 1
      BY <1>1, <3>1, FS_AddElement, FS_CardinalityType
    <3>3. QED
      BY <1>1, <2>2, <3>1, <3>2 DEF SwallowInv
  <2>3. QED
    BY <2>1, <2>2
<1>5. CASE Fault /\ UNCHANGED swallowed
  BY <1>1, <1>5 DEF SwallowInv, Fault
<1>6. QED
  BY <1>2, <1>3, <1>4, <1>5, BufferMoves DEF bufferVars, EntryFailed

LEMMA ForgetStep ==
  ASSUME TypeInv, ForgetInv, [DeliveryNext]_deliveryVars
  PROVE  ForgetInv'
<1>1. RetryInv /\ SendInv /\ RowsSafe /\ AnswerInv
  BY DEF ForgetInv
<1>2. AnswerInv' /\ SwallowInv'
  BY <1>1, AnswerStep, SwallowStep DEF ForgetInv
<1>3. CASE Beside
  BY <1>1, <1>2, <1>3, BesideStep DEF ForgetInv
<1>4. CASE Alone /\ ~Skip
  BY <1>1, <1>2, <1>4, AloneForgetsNothing DEF ForgetInv
<1>5. ASSUME NEW q \in Slots, Send(q) PROVE ForgetInv'
  BY <1>1, <1>2, <1>5, SendForgetsNothing DEF ForgetInv
<1>6. ASSUME NEW q \in Slots, SendAnswered(q) \/ SendRefused(q)
      PROVE  ForgetInv'
  BY <1>2, <1>6, AnswersForgetNothing DEF ForgetInv
<1>7. CASE SendTimedOut \/ AppendFailed \/ Skip
  BY <1>2, <1>7, AnswersForgetNothing DEF ForgetInv
<1>8. QED
  BY <1>3, <1>4, <1>5, <1>6, <1>7 DEF DeliveryNext, AgentStep, Alone, Beside

\* No time-out, late answer, half rewritten buffer, row written during the poll or restart
\* of the agent lets a row fall between the file and the store: only a failed write of the
\* buffer loses its entries, and with them at most one behind the line it left unended
\* (RunOnce, retryBuffered, Append, Load, Replace, NothingForgotten).
THEOREM NoRowIsForgotten == DeliverySpec => []NothingForgotten
<1>1. DeliveryInit => TypeInv /\ ForgetInv
  <2> SUFFICES ASSUME DeliveryInit PROVE TypeInv /\ ForgetInv
    OBVIOUS
  <2>1. SwallowInv
    BY FS_EmptySet DEF DeliveryInit, SwallowInv
  <2>2. QED
    BY <2>1, DeliveryTypesInit
    DEF DeliveryInit, ForgetInv, AnswerInv, RetryInv, SendInv, RowsSafe, IdleAgent, AgentAt
<1>2. TypeInv /\ ForgetInv /\ [DeliveryNext]_deliveryVars => TypeInv' /\ ForgetInv'
  BY DeliveryTypesNext, ForgetStep
<1>3. ForgetInv => NothingForgotten
  BY DEF ForgetInv, RowsSafe, Safe, SwallowInv, NothingForgotten
<1>4. QED
  BY <1>1, <1>2, <1>3, PTL DEF DeliverySpec

(***************************************************************************)
(* AttendanceDelivery implements DeliveryPromise, as far as safety goes:   *)
(* initial states map to initial states, every step to a step or a         *)
(* stutter.  That what is handed over is delivered sooner or later is      *)
(* left to TLC.                                                            *)
(***************************************************************************)
Written == UNION {ToSet(files[f].rows) : f \in FileIds}
Mapped == Written \ Unmapped

\* The rows a request may carry come from a file, by way of the agent, or from the batch.
Carries(r, mapped) ==
  r # FreeSlot =>
    /\ r.from = "agent" => ToSet(r.rows) \subseteq mapped
    /\ r.from = "batch" => ToSet(r.rows) \subseteq ToSet(BatchRows)
    /\ r.pc = "create" => Head(r.rows) \notin Refused

\* Whatever the agent or a request holds was handed over.
OriginInv ==
  /\ ToSet(buffer) \subseteq Mapped /\ dropped \subseteq Mapped /\ swallowed \subseteq Mapped
  /\ ToSet(agent.rest) \subseteq Written /\ ToSet(agent.kept) \subseteq Mapped
  /\ agent.slot # 0 => Head(agent.rest) \notin Unmapped
  /\ \A q \in Slots : Carries(request[q], Mapped)

\* Only the device changes what is written, and it only adds to it.
LEMMA WrittenGrows ==
  ASSUME TypeInv, [DeliveryNext]_deliveryVars
  PROVE  Written \subseteq Written' /\ Mapped \subseteq Mapped'
<1>1. CASE UNCHANGED files
  BY <1>1 DEF Written, Mapped
<1>2. ASSUME NEW f \in FileIds, NEW row \in FileRows[f], WriteRow(f, row)
      PROVE  Written \subseteq Written'
  <2>1. files[f].rows \in Seq(AgentRows) /\ row \in AgentRows
    BY DEF TypeInv, DeliveryTypeOK, AgentRows
  <2>2. ToSet(Append(files[f].rows, row)) = ToSet(files[f].rows) \cup {row}
    BY <2>1, Appending
  <2>3. /\ files'[f].rows = Append(files[f].rows, row)
        /\ \A g \in FileIds \ {f} : files'[g] = files[g]
    BY <1>2 DEF WriteRow, TypeInv, DeliveryTypeOK
  <2>4. \A g \in FileIds : ToSet(files[g].rows) \subseteq ToSet(files'[g].rows)
    BY <2>2, <2>3
  <2>5. QED
    BY <2>4 DEF Written
<1>3. ASSUME NEW f \in FileIds, NEW row \in FileRows[f], WriteRow(f, row)
      PROVE  Mapped \subseteq Mapped'
  BY <1>2, <1>3 DEF Mapped
<1>4. CASE \E f \in FileIds : \E row \in FileRows[f] : WriteRow(f, row)
  BY <1>2, <1>3, <1>4
<1>5. QED
  BY <1>1, <1>4, AloneIsQuiet, Served
  DEF DeliveryNext, AgentStep, Alone, AnswerLost, SendBatch, BatchAnswered, Send, SendAnswered,
      SendRefused, AppendFailed, SendTimedOut, deliveryVars

LEMMA CarriesOn ==
  ASSUME NEW r, NEW S, NEW T, S \subseteq T, Carries(r, S)
  PROVE  Carries(r, T)
BY DEF Carries

\* Nothing of the agent changes.
LEMMA AgentRests ==
  ASSUME OriginInv, UNCHANGED agentVars, Written \subseteq Written', Mapped \subseteq Mapped',
         \A q \in Slots : Carries(request'[q], Mapped')
  PROVE  OriginInv'
BY DEF OriginInv, agentVars, bufferVars

LEMMA ServeOrigin ==
  ASSUME TypeInv, OriginInv, Written \subseteq Written', Mapped \subseteq Mapped',
         NEW q \in Slots, Serve(q) \/ Abort(q)
  PROVE  OriginInv'
<1>1. UNCHANGED agentVars /\ \A p \in Slots \ {q} : request'[p] = request[p]
  BY Served
<1>2. /\ Carries(request[q], Mapped) /\ request[q] # FreeSlot /\ request[q].pc \in Running
      /\ request'[q].from = request[q].from
      /\ DOMAIN request[q] = {"pc", "rows", "from", "employee"} /\ DOMAIN request = Slots
  BY Served, RunningRequest DEF OriginInv, TypeInv, DeliveryTypeOK
<1>3. /\ ToSet(request'[q].rows) \subseteq ToSet(request[q].rows)
      /\ request'[q].pc = "create" => Head(request'[q].rows) \notin Refused
  <2>1. CASE Refuse(q) \/ Audit(q) \/ Abort(q)
    <3>1. request' = [request EXCEPT ![q].pc = "failed"]
      BY <2>1 DEF Refuse, Audit, Abort
    <3>2. QED
      BY <1>2, <3>1
  <2>2. CASE Resolve(q)
    <3>1. PICK n : request' = [request EXCEPT ![q].pc = "create", ![q].employee = n]
      BY <2>2 DEF Resolve
    <3>2. request'[q].rows = request[q].rows /\ Head(request[q].rows) \notin Refused
      BY <1>2, <2>2, <3>1 DEF Resolve
    <3>3. QED
      BY <3>2
  <2>3. CASE Create(q)
    <3>1. CASE request' = [request EXCEPT ![q].pc = "audit"]
      BY <1>2, <3>1
    <3>2. CASE request' = [request EXCEPT ![q] = NextRow(request[q])]
      <4>1. /\ request'[q].rows = Tail(request[q].rows)
            /\ request'[q].pc \in {"ok", "resolve"}
        BY <1>2, <3>2 DEF NextRow
      <4>2. ToSet(Tail(request[q].rows)) \subseteq ToSet(request[q].rows)
        BY <1>2, RunningRequest, HeadAndTail
      <4>3. QED
        BY <4>1, <4>2
    <3>3. QED
      BY <2>3, <3>1, <3>2, Created
  <2>4. QED
    BY <2>1, <2>2, <2>3 DEF Serve
<1>4. Carries(request'[q], Mapped')
  BY <1>2, <1>3 DEF Carries
<1>5. \A p \in Slots \ {q} : Carries(request'[p], Mapped')
  BY <1>1, CarriesOn DEF OriginInv
<1>6. QED
  BY <1>1, <1>4, <1>5, AgentRests

LEMMA BatchOrigin ==
  ASSUME TypeInv, OriginInv, Written \subseteq Written', Mapped \subseteq Mapped',
         NEW q \in Slots, AnswerLost(q) \/ SendBatch(q) \/ BatchAnswered(q)
  PROVE  OriginInv'
<1>1. UNCHANGED agentVars
  BY DEF AnswerLost, SendBatch, BatchAnswered
<1>2. DOMAIN request = Slots
  BY DEF TypeInv, DeliveryTypeOK
<1>3. Carries(request'[q], Mapped') /\ \A p \in Slots \ {q} : request'[p] = request[p]
  <2>1. CASE AnswerLost(q) \/ BatchAnswered(q)
    BY <1>2, <2>1 DEF AnswerLost, BatchAnswered, Answered, Carries
  <2>2. CASE SendBatch(q)
    BY <1>2, <2>2 DEF SendBatch, Open, Carries
  <2>3. QED
    BY <2>1, <2>2
<1>4. \A p \in Slots \ {q} : Carries(request'[p], Mapped')
  BY <1>3, CarriesOn DEF OriginInv
<1>5. QED
  BY <1>1, <1>3, <1>4, AgentRests

LEMMA BufferOrigin ==
  ASSUME TypeInv, OriginInv, [DeliveryNext]_deliveryVars
  PROVE  Held' \subseteq Mapped /\ dropped \subseteq dropped' /\ swallowed \subseteq swallowed'
<1>1. Handled \subseteq Mapped /\ Handled \subseteq AgentRows /\ BufferTypeOK
  <2>1. agent.slot # 0 => Head(agent.rest) \in Mapped
    <3>1. agent.slot # 0 => agent.rest # <<>> /\ agent.rest \in Seq(AgentRows)
      BY AgentIsPlaced DEF Placed, AgentStates
    <3>2. agent.slot # 0 => Head(agent.rest) \in ToSet(agent.rest)
      BY <3>1, HeadAndTail
    <3>3. QED
      BY <3>2 DEF OriginInv, Mapped
  <2>2. QED
    BY <2>1, HandledRows, AgentIsPlaced DEF Handled, OriginInv
<1>2. CASE UNCHANGED bufferVars
  <2>1. UNCHANGED <<Held, dropped, swallowed>>
    BY <1>2 DEF bufferVars, Held
  <2>2. QED
    BY <2>1 DEF Held, OriginInv
<1>3. CASE buffer' = <<>> /\ UNCHANGED <<dropped, swallowed>>
  BY <1>3, EmptyHasNone DEF Held, OriginInv
<1>4. ASSUME NEW row \in Handled, AppendEntry(row)
      PROVE  /\ Held' \subseteq Mapped /\ dropped \subseteq dropped'
             /\ swallowed \subseteq swallowed'
  BY <1>1, <1>4, EntryWritten DEF Held, OriginInv
<1>5. ASSUME NEW row \in Handled, NEW rest \in SUBSET Handled, EntryFailed(row, rest)
      PROVE  /\ Held' \subseteq Mapped /\ dropped \subseteq dropped'
             /\ swallowed \subseteq swallowed'
  BY <1>1, <1>5, EntryNotWritten DEF Held, OriginInv
<1>6. QED
  BY <1>2, <1>3, <1>4, <1>5, BufferMoves

\* A step of the agent leaves the files alone.
LEMMA AgentOrigin ==
  ASSUME TypeInv, OriginInv, [DeliveryNext]_deliveryVars, UNCHANGED files,
         \A q \in Slots : Carries(request'[q], Mapped),
         ToSet(agent'.rest) \subseteq Written, ToSet(agent'.kept) \subseteq Mapped,
         agent'.slot # 0 => Head(agent'.rest) \notin Unmapped
  PROVE  OriginInv'
<1>1. Written' = Written /\ Mapped' = Mapped
  BY DEF Written, Mapped
<1>2. Held' \subseteq Mapped
  BY BufferOrigin
<1>3. QED
  BY <1>1, <1>2 DEF OriginInv, Held

LEMMA AgentHas ==
  ASSUME TypeInv, OriginInv
  PROVE  /\ agent \in AgentStates /\ Mapped \subseteq Written
         /\ agent.rest # <<>> =>
              Head(agent.rest) \in Written /\ ToSet(Tail(agent.rest)) \subseteq Written
         /\ agent.kept # <<>> =>
              Head(agent.kept) \in Mapped /\ ToSet(Tail(agent.kept)) \subseteq Mapped
         /\ agent.slot # 0 =>
              /\ agent.rest # <<>> /\ Head(agent.rest) \in Mapped
              /\ ToSet(Append(agent.kept, Head(agent.rest))) \subseteq Mapped
<1>1. /\ agent \in AgentStates /\ Mapped \subseteq Written
      /\ agent.slot # 0 => agent.rest # <<>>
  BY AgentIsPlaced DEF Placed, Mapped
<1>2. agent.rest \in Seq(AgentRows) /\ agent.kept \in Seq(AgentRows)
  BY <1>1 DEF AgentStates
<1>3. agent.rest # <<>> =>
        /\ Head(agent.rest) \in AgentRows
        /\ ToSet(agent.rest) = {Head(agent.rest)} \cup ToSet(Tail(agent.rest))
  BY <1>2, HeadAndTail
<1>4. agent.kept # <<>> => ToSet(agent.kept) = {Head(agent.kept)} \cup ToSet(Tail(agent.kept))
  BY <1>2, HeadAndTail
<1>5. agent.slot # 0 => Head(agent.rest) \in Mapped
  BY <1>1, <1>3 DEF OriginInv, Mapped
<1>6. agent.slot # 0 =>
        ToSet(Append(agent.kept, Head(agent.rest))) = ToSet(agent.kept) \cup {Head(agent.rest)}
  BY <1>1, <1>2, <1>3, Appending
<1>7. QED
  BY <1>1, <1>3, <1>4, <1>5, <1>6 DEF OriginInv

LEMMA AloneOrigin ==
  ASSUME TypeInv, OriginInv, Alone
  PROVE  OriginInv'
<1>1. UNCHANGED <<files, request>> /\ agent'.slot = 0
  BY AloneIsQuiet
<1>2. \A q \in Slots : Carries(request'[q], Mapped)
  BY <1>1 DEF OriginInv
<1>3. ToSet(<<>>) = {}
  BY EmptyHasNone
<1>4. agent \in AgentStates /\ Mapped \subseteq Written
  BY AgentHas
<1>5. DeliveryNext
  BY DEF Alone, DeliveryNext, AgentStep
<1>6. ToSet(agent'.rest) \subseteq Written /\ ToSet(agent'.kept) \subseteq Mapped
  <2>1. ASSUME NEW pc, NEW rest, NEW file, agent' = AgentAt(pc, rest, file),
               ToSet(rest) \subseteq Written
        PROVE  ToSet(agent'.rest) \subseteq Written /\ ToSet(agent'.kept) \subseteq Mapped
    BY <1>3, <2>1 DEF AgentAt
  <2>2. CASE agent'.rest = agent.rest /\ agent'.kept = agent.kept
    BY <2>2 DEF OriginInv
  <2>3. CASE agent' = IdleAgent
    BY <1>3, <2>1, <2>3 DEF IdleAgent
  <2>4. CASE Poll
    BY <1>3, <1>4, <2>1, <2>4 DEF Poll, OriginInv
  <2>5. CASE Skip
    <3>1. agent'.rest = Tail(agent.rest) /\ agent'.kept = agent.kept /\ agent.rest # <<>>
      BY <1>4, <2>5 DEF Skip, AtRow, AgentStates
    <3>2. QED
      BY <3>1, AgentHas DEF OriginInv
  <2>6. CASE Rewrite
    <3>1. CASE agent.kept = <<>>
      BY <1>3, <2>1, <2>6, <3>1 DEF Rewrite
    <3>2. CASE agent.kept # <<>>
      <4>1. agent'.rest = agent.rest /\ agent'.kept = Tail(agent.kept)
        BY <1>4, <2>6, <3>2 DEF Rewrite, AgentStates
      <4>2. QED
        BY <3>2, <4>1, AgentHas DEF OriginInv
    <3>3. QED
      BY <3>1, <3>2
  <2>7. CASE Parse
    <3>1. agent'.rest = files[agent.file].rows /\ agent'.kept = agent.kept
      BY <1>4, <2>7 DEF Parse, AgentStates
    <3>2. agent.file \in FileIds
      BY <2>7 DEF Parse, TypeInv
    <3>3. QED
      BY <3>1, <3>2 DEF OriginInv, Written
  <2>8. CASE Truncate \/ Scan \/ FileFailed \/ FileDone
    <3>1. (agent'.rest = agent.rest /\ agent'.kept = agent.kept) \/ agent' = IdleAgent
      BY <1>4, <2>8 DEF Truncate, Scan, FileFailed, FileDone, AgentStates
    <3>2. QED
      BY <2>2, <2>3, <3>1
  <2>9. CASE RewriteFailed \/ PollFailed \/ Restart
    BY <2>3, <2>9 DEF RewriteFailed, PollFailed, Restart
  <2>10. QED
    BY <2>4, <2>5, <2>6, <2>7, <2>8, <2>9 DEF Alone
<1>7. QED
  BY <1>1, <1>2, <1>5, <1>6, AgentOrigin

LEMMA SendOrigin ==
  ASSUME TypeInv, OriginInv, NEW q \in Slots, Send(q)
  PROVE  OriginInv'
<1> DEFINE r == [pc |-> "resolve", rows |-> <<Head(agent.rest)>>, from |-> "agent",
                 employee |-> NoNumber]
<1>1. /\ agent.rest # <<>> /\ Head(agent.rest) \notin Unmapped
      /\ request' = [request EXCEPT ![q] = r] /\ agent' = [agent EXCEPT !.slot = q]
      /\ UNCHANGED files
  BY DEF Send, Open, AtRow
<1>2. Head(agent.rest) \in Mapped /\ agent \in AgentStates
  BY <1>1, AgentHas DEF Mapped
<1>3. agent'.rest = agent.rest /\ agent'.kept = agent.kept
  BY <1>1, <1>2 DEF AgentStates
<1>4. Carries(r, Mapped)
  BY <1>2, OneHasOne DEF Carries
<1>5. \A p \in Slots : Carries(request'[p], Mapped)
  BY <1>1, <1>4 DEF OriginInv, TypeInv, DeliveryTypeOK
<1>6. DeliveryNext
  BY DEF DeliveryNext, AgentStep
<1>7. QED
  BY <1>1, <1>3, <1>5, <1>6, AgentOrigin DEF OriginInv

\* The agent goes on to the next row, answer or none.
LEMMA AnswerOrigin ==
  ASSUME TypeInv, OriginInv,
         \/ \E q \in Slots : SendAnswered(q) \/ SendRefused(q)
         \/ SendTimedOut \/ AppendFailed
  PROVE  OriginInv'
<1>1. agent.slot # 0 /\ UNCHANGED files /\ DeliveryNext
  BY AttendanceDeliveryAssumption
  DEF SendAnswered, SendRefused, AppendFailed, SendTimedOut, DeliveryNext, AgentStep
<1>2. agent \in AgentStates /\ DOMAIN request = Slots
  BY AgentHas DEF TypeInv, DeliveryTypeOK
<1>3. \A p \in Slots : request'[p] \in {request[p], FreeSlot}
  BY <1>2 DEF SendAnswered, SendRefused, AppendFailed, SendTimedOut, Answered
<1>4. /\ agent'.slot = 0 /\ agent'.rest = Tail(agent.rest)
      /\ agent'.kept \in {agent.kept, Append(agent.kept, Head(agent.rest))}
  BY <1>2 DEF SendAnswered, SendRefused, AppendFailed, SendTimedOut, Keep, AgentStates
<1>5. \A p \in Slots : Carries(request'[p], Mapped)
  BY <1>3 DEF OriginInv, Carries
<1>6. ToSet(agent'.rest) \subseteq Written /\ ToSet(agent'.kept) \subseteq Mapped
  BY <1>1, <1>4, AgentHas DEF OriginInv
<1>7. QED
  BY <1>1, <1>4, <1>5, <1>6, AgentOrigin

LEMMA OriginInit == DeliveryInit => OriginInv
BY EmptyHasNone DEF DeliveryInit, OriginInv, Carries, IdleAgent, AgentAt

LEMMA WriteOrigin ==
  ASSUME TypeInv, OriginInv, [DeliveryNext]_deliveryVars, UNCHANGED <<agentVars, request>>
  PROVE  OriginInv'
<1>1. Written \subseteq Written' /\ Mapped \subseteq Mapped'
  BY WrittenGrows
<1>2. \A q \in Slots : Carries(request'[q], Mapped')
  BY <1>1, CarriesOn DEF OriginInv
<1>3. QED
  BY <1>1, <1>2, AgentRests

LEMMA OriginStep ==
  ASSUME TypeInv, OriginInv, [DeliveryNext]_deliveryVars
  PROVE  OriginInv'
<1>1. Written \subseteq Written' /\ Mapped \subseteq Mapped'
  BY WrittenGrows
<1>2. CASE UNCHANGED deliveryVars
  BY <1>2, WriteOrigin DEF deliveryVars
<1>3. CASE \E f \in FileIds : \E row \in FileRows[f] : WriteRow(f, row)
  BY <1>3, WriteOrigin DEF WriteRow
<1>4. CASE \E q \in Slots : Serve(q) \/ Abort(q)
  BY <1>1, <1>4, ServeOrigin
<1>5. CASE \E q \in Slots : AnswerLost(q) \/ SendBatch(q) \/ BatchAnswered(q)
  BY <1>1, <1>5, BatchOrigin
<1>6. CASE Alone
  BY <1>6, AloneOrigin
<1>7. CASE \E q \in Slots : Send(q)
  BY <1>7, SendOrigin
<1>8. CASE (\E q \in Slots : SendAnswered(q) \/ SendRefused(q)) \/ SendTimedOut \/ AppendFailed
  BY <1>8, AnswerOrigin
<1>9. QED
  BY <1>2, <1>3, <1>4, <1>5, <1>6, <1>7, <1>8 DEF DeliveryNext, AgentStep, Alone

(***************************************************************************)
(* The steps of the promise.                                               *)
(***************************************************************************)
LEMMA ExportedIs == Exported = (Mapped \ Refused) \cup (ToSet(BatchRows) \ Refused)
<1>1. Exported = (Written \ (Unmapped \cup Refused)) \cup (ToSet(BatchRows) \ Refused)
  BY DEF Exported, Written
<1>2. Written \ (Unmapped \cup Refused) = Mapped \ Refused
  BY DEF Mapped
<1>3. QED
  BY <1>1, <1>2

LEMMA ExportedNextIs == Exported' = (Mapped' \ Refused) \cup (ToSet(BatchRows) \ Refused)
<1>1. Exported' = (Written' \ (Unmapped \cup Refused)) \cup (ToSet(BatchRows) \ Refused)
  BY DEF Exported, Written
<1>2. Written' \ (Unmapped \cup Refused) = Mapped' \ Refused
  BY DEF Mapped
<1>3. QED
  BY <1>1, <1>2

LEMMA ExportedAreRows ==
  ASSUME TypeInv
  PROVE  Written \subseteq AgentRows /\ Exported \subseteq Rows
<1>1. \A f \in FileIds : ToSet(files[f].rows) \subseteq AgentRows
  BY ElementsAreTyped DEF TypeInv, DeliveryTypeOK
<1>2. ToSet(BatchRows) \subseteq Rows
  BY RowsOfBatch, ElementsAreTyped
<1>3. QED
  BY <1>1, <1>2, RowsOfBatch, ExportedIs DEF Written, Mapped

\* A step that changes none of the three.
LEMMA PromiseRests ==
  ASSUME UNCHANGED <<files, raw, dropped, swallowed>>
  PROVE  UNCHANGED Promise!promiseVars
BY DEF Promise!promiseVars, Exported, Stored

LEMMA WriteIsHandOver ==
  ASSUME TypeInv, NEW f \in FileIds, NEW row \in FileRows[f], WriteRow(f, row)
  PROVE  Promise!PromiseNext
<1>1. UNCHANGED <<raw, dropped, swallowed>>
  BY DEF WriteRow, apiVars, agentVars, bufferVars
<1>2. TypeInv'
  BY WriteTypes
<1>3. Exported' \subseteq Rows
  <2>1. \A g \in FileIds : ToSet(files'[g].rows) \subseteq AgentRows
    BY <1>2, ElementsAreTyped DEF TypeInv, DeliveryTypeOK
  <2>2. ToSet(BatchRows) \subseteq Rows
    BY RowsOfBatch, ElementsAreTyped
  <2>3. QED
    BY <2>1, <2>2, RowsOfBatch DEF Exported
<1>4. Exported \subseteq Exported'
  <2>1. DeliveryNext
    BY DEF DeliveryNext
  <2>2. QED
    BY <2>1, WrittenGrows, ExportedIs, ExportedNextIs
<1>5. /\ Exported' = Exported \cup Exported'
      /\ UNCHANGED <<Stored, (dropped \cup swallowed) \ Refused>>
  BY <1>1, <1>4 DEF Stored
<1>6. QED
  BY <1>3, <1>5 DEF Promise!PromiseNext, Promise!HandOver

LEMMA CreateIsDelivery ==
  ASSUME TypeInv, OriginInv, NEW q \in Slots, Create(q)
  PROVE  Promise!PromiseNext \/ UNCHANGED Promise!promiseVars
<1> DEFINE row == Head(request[q].rows)
<1>1. /\ request[q].pc = "create" /\ UNCHANGED <<files, dropped, swallowed>>
      /\ raw' = raw \cup {[row |-> row, employee |-> request[q].employee]}
  BY DEF Create, agentVars, bufferVars
<1>2. /\ request[q] # FreeSlot /\ row \in Rows /\ row \in ToSet(request[q].rows)
      /\ request[q].from \in {"agent", "batch"}
  BY <1>1, RunningRequest, HeadAndTail DEF Running
<1>3. row \in Exported
  BY <1>1, <1>2, ExportedIs DEF OriginInv, Carries
<1>4. Stored' = Stored \cup {row}
  <2> DEFINE event == [row |-> row, employee |-> request[q].employee]
  <2>1. event.row = row /\ raw' = raw \cup {event}
    BY <1>1
  <2> HIDE DEF event, row
  <2>2. QED
    BY <2>1 DEF Stored
<1>5. Exported' = Exported /\ UNCHANGED ((dropped \cup swallowed) \ Refused)
  BY <1>1 DEF Exported
<1>6. CASE row \in Stored
  <2>1. Stored' = Stored
    BY <1>4, <1>6
  <2>2. QED
    BY <1>5, <2>1 DEF Promise!promiseVars
<1>7. CASE row \notin Stored
  <2>1. Promise!Deliver(row)
    BY <1>3, <1>4, <1>5, <1>7 DEF Promise!Deliver
  <2>2. QED
    BY <1>2, <2>1 DEF Promise!PromiseNext
<1>8. QED
  BY <1>6, <1>7

\* What the buffer loses was handed over.
LEMMA AgentStepIsLoss ==
  ASSUME TypeInv, OriginInv, [DeliveryNext]_deliveryVars, UNCHANGED <<files, raw>>
  PROVE  Promise!PromiseNext
<1> DEFINE lost == (dropped \cup swallowed) \ Refused
<1>1. lost' \subseteq Exported /\ lost' \subseteq Rows
  BY BufferOrigin, ExportedIs, ExportedAreRows DEF Held
<1>2. lost' = lost \cup lost'
  BY BufferOrigin
<1>3. Exported' = Exported /\ Stored' = Stored
  BY DEF Exported, Stored
<1>4. Promise!Lose(lost')
  BY <1>1, <1>2, <1>3 DEF Promise!Lose
<1>5. QED
  BY <1>1, <1>4 DEF Promise!PromiseNext

LEMMA PromiseStep ==
  ASSUME TypeInv, OriginInv, [DeliveryNext]_deliveryVars
  PROVE  [Promise!PromiseNext]_(Promise!promiseVars)
<1>1. CASE UNCHANGED deliveryVars
  BY <1>1, PromiseRests DEF deliveryVars, apiVars, agentVars, bufferVars
<1>2. CASE \E f \in FileIds : \E row \in FileRows[f] : WriteRow(f, row)
  BY <1>2, WriteIsHandOver
<1>3. ASSUME NEW q \in Slots, Serve(q) \/ Abort(q)
      PROVE  [Promise!PromiseNext]_(Promise!promiseVars)
  BY <1>3, CreateIsDelivery, PromiseRests
  DEF Serve, Refuse, Resolve, Audit, Abort, apiVars, agentVars, bufferVars
<1>4. ASSUME NEW q \in Slots, AnswerLost(q) \/ SendBatch(q) \/ BatchAnswered(q)
      PROVE  [Promise!PromiseNext]_(Promise!promiseVars)
  BY <1>4, PromiseRests DEF AnswerLost, SendBatch, BatchAnswered, apiVars, agentVars, bufferVars
<1>5. CASE Alone
  BY <1>5, AloneIsQuiet, AgentStepIsLoss DEF apiVars
<1>6. ASSUME NEW q \in Slots, Send(q) \/ SendAnswered(q) \/ SendRefused(q)
      PROVE  Promise!PromiseNext
  BY <1>6, AgentStepIsLoss DEF Send, SendAnswered, SendRefused, apiVars
<1>7. CASE SendTimedOut \/ AppendFailed
  BY <1>7, AgentStepIsLoss DEF SendTimedOut, AppendFailed, apiVars
<1>8. QED
  BY <1>1, <1>2, <1>3, <1>4, <1>5, <1>6, <1>7 DEF DeliveryNext, AgentStep, Alone

LEMMA PromiseStarts == DeliveryInit => Promise!PromiseInit
<1> SUFFICES ASSUME DeliveryInit PROVE Promise!PromiseInit
  OBVIOUS
<1>1. Exported \subseteq Rows
  BY DeliveryTypesInit, ExportedAreRows
<1>2. Stored = {} /\ (dropped \cup swallowed) \ Refused = {}
  BY DEF DeliveryInit, Stored
<1>3. QED
  BY <1>1, <1>2 DEF Promise!PromiseInit

\* The agent, the gateway and the API together do only what the promise allows: only what
\* was handed over is stored, what is stored stays, and only what was handed over is
\* lost (RunOnce, retryBuffered, ingestRawEvent).
THEOREM DeliveryIsSafe ==
  DeliverySpec => Promise!PromiseInit /\ [][Promise!PromiseNext]_(Promise!promiseVars)
<1>1. DeliveryInit => TypeInv /\ OriginInv /\ Promise!PromiseInit
  BY DeliveryTypesInit, OriginInit, PromiseStarts
<1>2. TypeInv /\ OriginInv /\ [DeliveryNext]_deliveryVars => TypeInv' /\ OriginInv'
  BY DeliveryTypesNext, OriginStep
<1>3. TypeInv /\ OriginInv /\ [DeliveryNext]_deliveryVars
        => [Promise!PromiseNext]_(Promise!promiseVars)
  BY PromiseStep
<1>4. QED
  BY <1>1, <1>2, <1>3, PTL DEF DeliverySpec
=============================================================================
