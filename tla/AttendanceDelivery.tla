--------------------------- MODULE AttendanceDelivery ---------------------------
(***************************************************************************)
(* How attendance events reach the raw store: the edge agent polls CSV     *)
(* files a device appends to, sends row after row to the connector         *)
(* gateway, which hands each to the API, and keeps what failed in a buffer *)
(* file; another client sends its rows to the API as one batch, or as a    *)
(* CSV upload, until the batch is accepted.                                *)
(*                                                                         *)
(* A row is what its dedupe hash tells apart.  The gateway adds no state:  *)
(* a request of the agent stands for the pair of requests.  A modification *)
(* time grows with every write to its file, and files are only appended    *)
(* to.  Left out: keys, parsing and trimming, sites, retry counts, the     *)
(* companies (there is one) and rows that lack a field, which are skipped. *)
(***************************************************************************)
EXTENDS Integers, Sequences, SequencesExt, FiniteSets, TLC

CONSTANTS
  FileRows,     \* file -> the rows the device may write to it, by number of the file
  BatchRows,    \* the rows of the other client's batch
  UserOf,       \* row -> externalUserId
  NumberOf,     \* row -> employeeNumber, or NoNumber
  NoNumber,
  Unmapped,     \* rows for which the agent finds no employee number
  Refused,      \* rows the adapter refuses, e.g. for their time stamp
  Registered,   \* the numbers of employees
  Slots,        \* slots for the requests under way in the API
  MaxWrites,    \* how often the device writes to a file
  MaxFaults     \* crashes, time-outs and failures, all together

NumFiles == Len(FileRows)
FileIds == 1..NumFiles
AgentRows == UNION {FileRows[f] : f \in FileIds}
Rows == AgentRows \cup Range(BatchRows)
Numbers == {NumberOf[r] : r \in Rows} \ {NoNumber}
Users == {UserOf[r] : r \in Rows}

ASSUME AttendanceDeliveryAssumption ==
  /\ FileRows \in Seq(SUBSET AgentRows)
  /\ BatchRows \in Seq(Rows) /\ BatchRows # <<>>
  /\ Rows \subseteq DOMAIN UserOf /\ Rows \subseteq DOMAIN NumberOf
  /\ Unmapped \subseteq AgentRows /\ Refused \subseteq Rows
  /\ Registered \subseteq Numbers
  /\ Slots \subseteq Nat \ {0}
  /\ MaxWrites \in Nat /\ MaxFaults \in Nat

VARIABLES
  files,       \* file -> its rows and its modification time
  processed,   \* Watcher.processed: file -> the time of the version last read
  buffer,      \* the rows of the buffer file's entries, as Load reads them
  tail,        \* how that file ends: "ended", "unended" in an entry without its newline,
               \* or "cut" in a line of which only a part is there
  agent,       \* the agent's local state
  request,     \* slot -> a request under way in the API
  batch,       \* the state of the batch: "open", "sent", "accepted"
  identity,    \* EmployeeExternalIdentity: user -> employee number
  raw,         \* AttendanceRawEvent: row and employee
  dropped,     \* the rows whose entries a failed write to the buffer has lost
  swallowed,   \* the rows whose entries were written behind a line left unended
  faults

\* f with y for x.
With(f, x, y) == [z \in DOMAIN f \cup {x} |-> IF z = x THEN y ELSE f[z]]

bufferVars == <<buffer, tail, dropped, swallowed>>
agentVars == <<processed, agent, bufferVars>>
apiVars == <<identity, raw>>
deliveryVars == <<files, agentVars, request, batch, apiVars, faults>>

\* rest: the rows the loop has still to send, the one in flight first.  kept: remaining of
\* retryBuffered.  slot: the request it waits for, or 0.
AgentAt(pc, rest, file) ==
  [pc |-> pc, rest |-> rest, kept |-> <<>>, file |-> file, mtime |-> 0, slot |-> 0]
IdleAgent == AgentAt("idle", <<>>, 0)
FreeSlot == [pc |-> "free"]

DeliveryInit ==
  /\ files = [f \in FileIds |-> [rows |-> <<>>, mtime |-> 0]]
  /\ processed = [f \in {} |-> 0]
  /\ buffer = <<>> /\ tail = "ended"
  /\ agent = IdleAgent
  /\ request = [q \in Slots |-> FreeSlot]
  /\ batch = "open"
  /\ identity = [u \in {} |-> NoNumber]
  /\ raw = {}
  /\ dropped = {} /\ swallowed = {}
  /\ faults = 0

Fault == faults < MaxFaults /\ faults' = faults + 1

\* The device appends a row, which may be one it has written before.
WriteRow(f, row) ==
  /\ files[f].mtime < MaxWrites
  /\ files' = [files EXCEPT ![f] = [rows |-> Append(@.rows, row), mtime |-> @.mtime + 1]]
  /\ UNCHANGED <<agentVars, request, batch, apiVars, faults>>

(***************************************************************************)
(* Requests in the API: what is left of a request's rows is handled one by *)
(* one, and the first that fails ends it.  The first free slot is taken.   *)
(***************************************************************************)
Open(q, rows, from) ==
  /\ request[q] = FreeSlot
  /\ \A p \in Slots : p < q => request[p] # FreeSlot
  /\ request' = [request EXCEPT ![q] =
       [pc |-> "resolve", rows |-> rows, from |-> from, employee |-> NoNumber]]

\* The adapter's normalize refuses the row.
Refuse(q) ==
  /\ request[q].pc = "resolve"
  /\ Head(request[q].rows) \in Refused
  /\ request' = [request EXCEPT ![q].pc = "failed"]
  /\ UNCHANGED <<files, agentVars, batch, apiVars, faults>>

\* resolveEmployeeForExternalIdentity: an employee found by number becomes the user's
\* identity; without one the identity says who it is.
Resolve(q) ==
  /\ request[q].pc = "resolve"
  /\ Head(request[q].rows) \notin Refused
  /\ LET number == NumberOf[Head(request[q].rows)]
         user == UserOf[Head(request[q].rows)]
         found(n) == request' = [request EXCEPT ![q].pc = "create", ![q].employee = n]
     IN  \/ /\ number \in Registered
            /\ identity' = With(identity, user, number)
            /\ found(number)
         \/ /\ number \notin Registered
            /\ found(IF user \in DOMAIN identity THEN identity[user] ELSE NoNumber)
            /\ UNCHANGED identity
  /\ UNCHANGED <<files, agentVars, batch, raw, faults>>

\* Mutant: the loop over the rows goes one too far (DeliveryTypeOK).
NextRowLate(r) == [r EXCEPT !.rows = Tail(@), !.pc = IF r.rows = <<>> THEN "ok" ELSE "resolve"]

NextRow(r) == [r EXCEPT !.rows = Tail(@), !.pc = IF Len(r.rows) = 1 THEN "ok" ELSE "resolve"]

\* Mutant: what is new ends the request well, as if its audit entry succeeded and the
\* rows behind it needed no handling (AcceptedIsStored).
CreateAnswering(q) ==
  /\ request[q].pc = "create"
  /\ LET event == [row |-> Head(request[q].rows), employee |-> request[q].employee]
     IN  /\ raw' = raw \cup {event}
         /\ request' = [request EXCEPT ![q] =
              IF event \in raw THEN NextRow(@) ELSE [@ EXCEPT !.pc = "ok"]]
  /\ UNCHANGED <<files, agentVars, batch, identity, faults>>

\* ingestRawEvent up to the row: one that is there already, @@unique([companyId,
\* dedupeHash]), is as good as done.
Create(q) ==
  /\ request[q].pc = "create"
  /\ LET event == [row |-> Head(request[q].rows), employee |-> request[q].employee]
     IN  /\ raw' = raw \cup {event}
         /\ request' = [request EXCEPT ![q] =
              IF event \in raw THEN NextRow(@) ELSE [@ EXCEPT !.pc = "audit"]]
  /\ UNCHANGED <<files, agentVars, batch, identity, faults>>

\* The audit entry names the actor integration:<provider>, which is no user: it fails,
\* with the row in the store.
Audit(q) ==
  /\ request[q].pc = "audit"
  /\ request' = [request EXCEPT ![q].pc = "failed"]
  /\ UNCHANGED <<files, agentVars, batch, apiVars, faults>>

\* The API stops in the middle of a request, or a statement of it fails.
Abort(q) ==
  /\ Fault
  /\ request[q].pc \in {"resolve", "create", "audit"}
  /\ request' = [request EXCEPT ![q].pc = "failed"]
  /\ UNCHANGED <<files, agentVars, batch, apiVars>>

Answered(q, pc) == request[q].pc = pc /\ request' = [request EXCEPT ![q] = FreeSlot]

(***************************************************************************)
(* The other client: it sends its batch until it is accepted.              *)
(***************************************************************************)
SendBatch(q) ==
  /\ batch = "open"
  /\ Open(q, BatchRows, "batch")
  /\ batch' = "sent"
  /\ UNCHANGED <<files, agentVars, apiVars, faults>>

BatchAnswered(q) ==
  /\ request[q].pc \in {"ok", "failed"} /\ request[q].from = "batch"
  /\ batch' = IF request[q].pc = "ok" THEN "accepted" ELSE "open"
  /\ Answered(q, request[q].pc)
  /\ UNCHANGED <<files, agentVars, apiVars, faults>>

(***************************************************************************)
(* The buffer file: a line for each entry.  A write that fails may leave a *)
(* part of its line; the next entry is then written behind that, and Load  *)
(* skips the line they make.                                               *)
(***************************************************************************)
\* What Load finds when the last line is written on.
Continued == IF tail = "unended" THEN Front(buffer) ELSE buffer
Joined == IF tail = "unended" THEN {Last(buffer)} ELSE {}

\* The whole entry of the row, with its newline.
AppendEntry(row) ==
  /\ buffer' = IF tail = "ended" THEN Append(buffer, row) ELSE Continued
  /\ swallowed' = IF tail = "ended" THEN swallowed ELSE swallowed \cup {row}
  /\ dropped' = dropped \cup Joined
  /\ tail' = "ended"

\* The write of the row's entry fails, and with it those of the rows in rest: nothing of
\* the line is there, or a part, or all of it but the newline, which Load can read.
EntryFailed(row, rest) ==
  /\ UNCHANGED swallowed
  /\ \/ /\ dropped' = dropped \cup rest \cup {row}
        /\ UNCHANGED <<buffer, tail>>
     \/ /\ buffer' = Continued /\ tail' = "cut"
        /\ dropped' = dropped \cup rest \cup {row} \cup Joined
     \/ /\ tail = "ended"
        /\ buffer' = Append(buffer, row) /\ tail' = "unended"
        /\ dropped' = dropped \cup rest

(***************************************************************************)
(* The agent: RunOnce retries what is buffered, then reads file after file.*)
(***************************************************************************)
\* retryBuffered's Load: the lines that are no entry are skipped, and stay where no entry
\* is left to write anew.
Poll ==
  /\ agent.pc = "idle"
  /\ agent' = IF buffer = <<>> THEN AgentAt("scan", <<>>, 1) ELSE AgentAt("retry", buffer, 0)
  /\ UNCHANGED <<files, processed, bufferVars, request, batch, apiVars, faults>>

\* The poll ends at an error of Load, of Replace's open, before it empties the file, or
\* of collectCSVFiles.
PollFailed ==
  /\ Fault
  /\ \/ agent.pc = "idle"
     \/ agent.pc = "retry" /\ agent.rest = <<>>
     \/ agent.pc = "scan" /\ agent.file = 1
  /\ agent' = IdleAgent
  /\ UNCHANGED <<files, processed, bufferVars, request, batch, apiVars>>

\* The loop over buffered entries or over a file's rows is at one and waits for none.
AtRow == agent.pc \in {"retry", "send"} /\ agent.rest # <<>> /\ agent.slot = 0

\* MapRecord finds no employee number: the row is skipped.
Skip ==
  /\ AtRow /\ Head(agent.rest) \in Unmapped
  /\ agent' = [agent EXCEPT !.rest = Tail(@)]
  /\ UNCHANGED <<files, processed, bufferVars, request, batch, apiVars, faults>>

Send(q) ==
  /\ AtRow /\ Head(agent.rest) \notin Unmapped
  /\ Open(q, <<Head(agent.rest)>>, "agent")
  /\ agent' = [agent EXCEPT !.slot = q]
  /\ UNCHANGED <<files, processed, bufferVars, batch, apiVars, faults>>

SendAnswered(q) ==
  /\ agent.slot = q
  /\ Answered(q, "ok")
  /\ agent' = [agent EXCEPT !.rest = Tail(@), !.slot = 0]
  /\ UNCHANGED <<files, processed, bufferVars, batch, apiVars, faults>>

\* An error answer: retryBuffered keeps the entry, the loop over a file appends it.
Keep ==
  /\ agent' = [agent EXCEPT !.rest = Tail(@), !.slot = 0, !.kept =
       IF agent.pc = "retry" THEN Append(@, Head(agent.rest)) ELSE @]
  /\ IF agent.pc = "send" THEN AppendEntry(Head(agent.rest)) ELSE UNCHANGED bufferVars

SendRefused(q) ==
  /\ agent.slot = q
  /\ Answered(q, "failed")
  /\ Keep
  /\ UNCHANGED <<files, processed, batch, apiVars, faults>>

\* No answer within ten seconds, or none at all: the request may go on.
SendTimedOut ==
  /\ Fault
  /\ agent.slot # 0
  /\ Keep
  /\ UNCHANGED <<files, processed, request, batch, apiVars>>

\* An error answer or none, and the entry cannot be written; the error is only logged.
AppendFailed ==
  /\ Fault
  /\ agent.slot # 0 /\ agent.pc = "send"
  /\ Answered(agent.slot, "failed") \/ UNCHANGED request
  /\ agent' = [agent EXCEPT !.rest = Tail(@), !.slot = 0]
  /\ EntryFailed(Head(agent.rest), {})
  /\ UNCHANGED <<files, processed, batch, apiVars>>

\* An answer nobody waits for.
AnswerLost(q) ==
  /\ request[q].pc \in {"ok", "failed"} /\ request[q].from = "agent" /\ agent.slot # q
  /\ Answered(q, request[q].pc)
  /\ UNCHANGED <<files, agentVars, batch, apiVars, faults>>

\* Replace empties the buffer file, then writes entry after entry.
Truncate ==
  /\ agent.pc = "retry" /\ agent.rest = <<>>
  /\ buffer' = <<>> /\ tail' = "ended"
  /\ agent' = [agent EXCEPT !.pc = "replace"]
  /\ UNCHANGED <<files, processed, dropped, swallowed, request, batch, apiVars, faults>>

Rewrite ==
  /\ agent.pc = "replace"
  /\ IF agent.kept = <<>>
     THEN /\ agent' = AgentAt("scan", <<>>, 1)
          /\ UNCHANGED bufferVars
     ELSE /\ AppendEntry(Head(agent.kept))
          /\ agent' = [agent EXCEPT !.kept = Tail(@)]
  /\ UNCHANGED <<files, processed, request, batch, apiVars, faults>>

\* A write fails: the poll ends, and the entries not yet written are gone.
RewriteFailed ==
  /\ Fault
  /\ agent.pc = "replace" /\ agent.kept # <<>>
  /\ EntryFailed(Head(agent.kept), ToSet(Tail(agent.kept)))
  /\ agent' = IdleAgent
  /\ UNCHANGED <<files, processed, request, batch, apiVars>>

ShouldProcess(f) == f \notin DOMAIN processed \/ files[f].mtime > processed[f]

\* RunOnce stats the next file, or the poll is over.
Scan ==
  /\ agent.pc = "scan"
  /\ agent' = IF agent.file > NumFiles THEN IdleAgent
              ELSE IF ShouldProcess(agent.file)
              THEN [agent EXCEPT !.pc = "parse", !.mtime = files[agent.file].mtime]
              ELSE [agent EXCEPT !.file = @ + 1]
  /\ UNCHANGED <<files, processed, bufferVars, request, batch, apiVars, faults>>

\* Rows written since the stat are read too.
Parse ==
  /\ agent.pc = "parse"
  /\ agent' = [agent EXCEPT !.pc = "send", !.rest = files[agent.file].rows]
  /\ UNCHANGED <<files, processed, bufferVars, request, batch, apiVars, faults>>

\* The file cannot be read, or not even its time: the next one is tried.
FileFailed ==
  /\ Fault
  /\ agent.pc \in {"scan", "parse"} /\ agent.file \in FileIds
  /\ agent' = [agent EXCEPT !.pc = "scan", !.file = @ + 1]
  /\ UNCHANGED <<files, processed, bufferVars, request, batch, apiVars>>

\* Mutant: the file is taken to be processed as it is now (DeliversUnlessLost).
FileDoneLate ==
  /\ agent.pc = "send" /\ agent.rest = <<>>
  /\ processed' = With(processed, agent.file, files[agent.file].mtime)
  /\ agent' = [agent EXCEPT !.pc = "scan", !.file = @ + 1]
  /\ UNCHANGED <<files, bufferVars, request, batch, apiVars, faults>>

FileDone ==
  /\ agent.pc = "send" /\ agent.rest = <<>>
  /\ processed' = With(processed, agent.file, agent.mtime)
  /\ agent' = [agent EXCEPT !.pc = "scan", !.file = @ + 1]
  /\ UNCHANGED <<files, bufferVars, request, batch, apiVars, faults>>

\* Mutant: the agent remembers across a restart what it processed (NothingForgotten).
RestartRemembering ==
  /\ Fault
  /\ agent' = IdleAgent
  /\ UNCHANGED <<files, processed, bufferVars, request, batch, apiVars>>

\* The agent stops anywhere and starts again: the files are processed anew.
Restart ==
  /\ Fault
  /\ agent' = IdleAgent
  /\ processed' = [f \in {} |-> 0]
  /\ UNCHANGED <<files, bufferVars, request, batch, apiVars>>

Serve(q) == Refuse(q) \/ Resolve(q) \/ Create(q) \/ Audit(q)
AgentStep ==
  \/ Poll \/ Skip \/ Truncate \/ Rewrite \/ Scan \/ Parse \/ FileDone
  \/ \E q \in Slots : Send(q) \/ SendAnswered(q) \/ SendRefused(q)

DeliveryNext ==
  \/ \E f \in FileIds : \E row \in FileRows[f] : WriteRow(f, row)
  \/ \E q \in Slots : Serve(q) \/ Abort(q) \/ AnswerLost(q)
  \/ \E q \in Slots : SendBatch(q) \/ BatchAnswered(q)
  \/ AgentStep
  \/ SendTimedOut \/ AppendFailed \/ RewriteFailed
  \/ PollFailed \/ FileFailed \/ Restart

\* The agent polls on, the API handles what it has begun, and the other client repeats
\* its batch, also where the agent competes for a slot.
DeliveryFairness ==
  /\ WF_deliveryVars(AgentStep)
  /\ SF_deliveryVars(\E q \in Slots : Send(q))
  /\ \A q \in Slots : WF_deliveryVars(Serve(q) \/ AnswerLost(q) \/ BatchAnswered(q))
  /\ SF_deliveryVars(\E q \in Slots : SendBatch(q))

DeliverySpec == DeliveryInit /\ [][DeliveryNext]_deliveryVars /\ DeliveryFairness

(***************************************************************************)
(* Properties.                                                             *)
(***************************************************************************)
Stored == {e.row : e \in raw}

RequestTypeOK(r) ==
  \/ r = FreeSlot
  \/ /\ DOMAIN r = {"pc", "rows", "from", "employee"}
     /\ r.pc \in {"resolve", "create", "audit", "ok", "failed"}
     /\ r.rows \in Seq(Rows) /\ r.from \in {"agent", "batch"}
     /\ r.employee \in Numbers \cup {NoNumber}
     /\ r.pc \in {"resolve", "create", "audit"} => r.rows # <<>>

BufferTypeOK ==
  /\ buffer \in Seq(AgentRows)
  /\ tail \in {"ended", "unended", "cut"} /\ (tail = "unended" => buffer # <<>>)
  /\ dropped \subseteq AgentRows /\ swallowed \subseteq AgentRows

\* The types; the agent's slot holds a request of its own.
DeliveryTypeOK ==
  /\ files \in [FileIds -> [rows : Seq(AgentRows), mtime : 0..MaxWrites]]
  /\ DOMAIN processed \subseteq FileIds /\ \A f \in DOMAIN processed : processed[f] \in Nat
  /\ BufferTypeOK
  /\ agent \in [pc : {"idle", "retry", "replace", "scan", "parse", "send"},
                rest : Seq(AgentRows), kept : Seq(AgentRows), file : 0..(NumFiles + 1),
                mtime : 0..MaxWrites, slot : Slots \cup {0}]
  /\ DOMAIN request = Slots /\ \A q \in Slots : RequestTypeOK(request[q])
  /\ agent.slot # 0 => request[agent.slot] # FreeSlot /\ request[agent.slot].from = "agent"
  /\ batch \in {"open", "sent", "accepted"}
  /\ DOMAIN identity \subseteq Users /\ \A u \in DOMAIN identity : identity[u] \in Numbers
  /\ raw \subseteq [row : Rows, employee : Numbers \cup {NoNumber}]
  /\ faults \in 0..MaxFaults

\* Where a row of a file can be besides the store: in an entry of the buffer file or,
\* while that is written anew, in what is still to be written to it.
InBuffer == ToSet(buffer) \cup (IF agent.pc = "replace" THEN ToSet(agent.kept) ELSE {})

\* A row that was in a file when its processed version was written is in the store, or
\* Load finds it in the buffer, or a failed write of the buffer has lost its entry, or
\* that of one entry behind the line it left unended: no time-out, late answer, half
\* rewritten buffer, row written during the poll or restart of the agent lets one fall
\* between the file and the store (RunOnce, retryBuffered, Append, Load, Replace).
NothingForgotten ==
  /\ \A f \in DOMAIN processed : \A i \in 1..processed[f] :
       files[f].rows[i] \in Stored \cup InBuffer \cup dropped \cup swallowed \cup Unmapped
  /\ Cardinality(swallowed) <= faults

\* A batch that is accepted is stored as a whole, though every attempt ends at the
\* first row it adds (ingestBatch).
AcceptedIsStored == batch = "accepted" => ToSet(BatchRows) \subseteq Stored

Exported ==
  ((UNION {ToSet(files[f].rows) : f \in FileIds}) \ (Unmapped \cup Refused))
    \cup (ToSet(BatchRows) \ Refused)

\* The agent, the gateway and the API together keep the promise, whatever fails
\* finitely often: every row the agent can map and the API accepts is delivered, unless
\* a failed write of the buffer loses its entry or leaves the line that swallows it.
Promise == INSTANCE DeliveryPromise WITH
  handedOver <- Exported, delivered <- Stored, lost <- (dropped \cup swallowed) \ Refused
DeliversUnlessLost == Promise!PromiseSpec
=============================================================================
