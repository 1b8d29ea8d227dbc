---------------------------- MODULE BackOfficeProofs ----------------------------
(***************************************************************************)
(* Proofs about BackOffice, for any catalogue of forms, any companies, any *)
(* number of requests and of failures: requests and pages keep to their    *)
(* handlers (Life), rows keep their types and their references (RowsOK),   *)
(* a request creates each of its rows once (Fresh), and what a checked     *)
(* reference leads to is of the company of its row (CompaniesOK).          *)
(***************************************************************************)
EXTENDS BackOffice, FiniteSetTheorems, TLAPS

(***************************************************************************)
(* The handlers.                                                           *)
(***************************************************************************)
Ops == DOMAIN Handlers
Does(op) == Handlers[op].does

Unchecked == {"login", "logout", "upload"}
Changing == {"updateCompany", "updateDepartment", "updateEmployee"}
Removing == {"deleteDepartment", "deleteEmployee"}
Drafting == {"createDocument", "createLeaveRequest", "createAttendanceCorrection"}

Filing == {"upload", "renderPdf"}

FilePlace(op) == IF op = "upload" THEN 3 ELSE 5
InsertPlace(op) == IF op = "login" THEN 2
                   ELSE IF op \in {"createSignature", "createJournalEntry"} THEN 4
                   ELSE IF op \in Drafting THEN 5 ELSE 3

\* Which handler has which statement, and where.
StatementAt(op, k) ==
  LET s == Does(op)[k]
  IN  \/ s = "authenticate" /\ k = 1 /\ op = "login"
      \/ s = "guard" /\ k = 1 /\ op # "login"
      \/ s = "check" /\ k = 2 /\ op \notin Unchecked
      \/ s = "number" /\ k = 3 /\ op = "createJournalEntry"
      \/ /\ s = "insert" /\ k = InsertPlace(op)
         /\ op \notin Changing \cup Removing \cup {"createDocument", "addVersion", "renderPdf"}
         /\ Handlers[op].kind \notin {"Document", "DocumentVersion", "FileObject",
                                      "CompanyMembership"}
      \/ s = "join" /\ k = 4 /\ op = "createCompany"
      \/ s = "update" /\ k = 3 /\ op \in Changing
      \/ s = "delete" /\ k = 3 /\ op \in Removing
      \/ s = "endSession" /\ k = 2 /\ op = "logout"
      \/ s = "clear" /\ k = 3 /\ op = "createSignature"
      \/ s = "draft" /\ k = 3 /\ op \in Drafting
      \/ s = "version" /\ k = 3 /\ op = "addVersion"
      \/ s = "render" /\ k = 3 /\ op = "renderPdf"
      \/ s = "put" /\ k = FilePlace(op) - 1 /\ op \in Filing
      \/ s = "file" /\ k = FilePlace(op) /\ op \in Filing
      \/ s = "link" /\ k = 7 /\ op = "renderPdf"
      \/ s \in {"audit", "auditFile", "auditDraft", "answer"} /\ k >= 3

\* What follows a statement that creates a row.
Reporting == {"audit", "auditFile", "auditDraft", "join"}

\* The k-th statement of the handler writes a row of this kind.
Creates(op, k, kind) ==
  \/ Does(op)[k] = "insert" /\ kind = Handlers[op].kind
  \/ Does(op)[k] = "join" /\ kind = "CompanyMembership"
  \/ Does(op)[k] = "draft" /\ kind \in {"Document", "DocumentVersion"}
  \/ Does(op)[k] = "version" /\ kind = "DocumentVersion"
  \/ Does(op)[k] = "file" /\ kind = "FileObject"

\* The columns of a new row that lead to rows of its company: the checked references ...
Loose(op) == {"template"} \cup (IF op = "createClaim" THEN {"legalEntity"} ELSE {})

\* ... and those the handler fills in itself.
Own(op) == IF op \in Drafting THEN {"employee", "document"}
           ELSE IF op = "createClaim" THEN {"employee"}
           ELSE IF op = "updateShiftPolicy" THEN {"businessSite"} ELSE {}

ScopedKinds == {"Vendor", "CostCenter", "Project", "LeaveRequest", "AttendanceCorrection",
                "ExpenseClaim", "JournalEntry", "SignatureAsset", "ImportJob", "ShiftPolicy",
                "Document", "DocumentVersion"}

\* The table of the handlers, and what the proofs need to know of each entry.
LEMMA HandlersByName ==
  ASSUME NEW op \in Ops
  PROVE  \/ op = "login" /\ Handlers[op] = Login
         \/ op = "logout" /\ Handlers[op] = Logout
         \/ op = "createCompany" /\ Handlers[op] = CreateCompany
         \/ op = "updateCompany" /\ Handlers[op] = UpdateCompany
         \/ op = "createLegalEntity" /\ Handlers[op] = CreateLegalEntity
         \/ op = "createBusinessSite" /\ Handlers[op] = CreateBusinessSite
         \/ op = "createDepartment" /\ Handlers[op] = CreateDepartment
         \/ op = "updateDepartment" /\ Handlers[op] = UpdateDepartment
         \/ op = "deleteDepartment" /\ Handlers[op] = DeleteDepartment
         \/ op = "createEmployee" /\ Handlers[op] = CreateEmployee
         \/ op = "updateEmployee" /\ Handlers[op] = UpdateEmployee
         \/ op = "deleteEmployee" /\ Handlers[op] = DeleteEmployee
         \/ op = "createPosition" /\ Handlers[op] = CreatePosition
         \/ op = "createJobTitle" /\ Handlers[op] = CreateJobTitle
         \/ op = "createVendor" /\ Handlers[op] = CreateVendor
         \/ op = "createCostCenter" /\ Handlers[op] = CreateCostCenter
         \/ op = "createProject" /\ Handlers[op] = CreateProject
         \/ op = "createJournalEntry" /\ Handlers[op] = CreateJournalEntry
         \/ op = "createClaim" /\ Handlers[op] = CreateClaim
         \/ op = "upload" /\ Handlers[op] = Upload
         \/ op = "createSignature" /\ Handlers[op] = CreateSignature
         \/ op = "createDocument" /\ Handlers[op] = CreateDocument
         \/ op = "addVersion" /\ Handlers[op] = AddVersion
         \/ op = "renderPdf" /\ Handlers[op] = RenderPdf
         \/ op = "createShiftPolicy" /\ Handlers[op] = CreateShiftPolicy
         \/ op = "updateShiftPolicy" /\ Handlers[op] = UpdateShiftPolicy
         \/ op = "createLeaveRequest" /\ Handlers[op] = CreateLeaveRequest
         \/ op = "createAttendanceCorrection" /\ Handlers[op] = CreateAttendanceCorrection
         \/ op = "createVendorImportJob" /\ Handlers[op] = CreateVendorImportJob
         \/ op = "createExportJob" /\ Handlers[op] = CreateExportJob
  BY DEF Ops, Handlers

TableEntry(op) ==
  /\ Len(Does(op)) \in 2..8
  /\ Does(op)[Len(Does(op))] \in {"audit", "answer"}
  /\ Handlers[op].scope = "own" <=> op \in {"addVersion", "renderPdf"}
  /\ op = "login" => Handlers[op].kind = "UserSession"
  /\ op \in Changing \cup Removing \cup {"updateShiftPolicy"} => Handlers[op].scope = "row"
  /\ op \in Changing => Handlers[op].kind \in {"Company", "Department", "Employee"}
  /\ op \in Removing => Handlers[op].kind \in {"Department", "Employee"}
  /\ op \in Drafting \cup {"addVersion"} => "attachments" \in Handlers[op].checks
  /\ op \in Filing => Does(op)[FilePlace(op)] = "file"
                      /\ Does(op)[FilePlace(op) - 1] = "put"
  /\ op = "renderPdf" => Does(op)[3] = "render" /\ Does(op)[6] = "auditFile"
                         /\ Does(op)[7] = "link" /\ Len(Does(op)) = 8
  /\ op \in Drafting => Does(op)[3] = "draft"
  /\ op = "addVersion" => Does(op)[3] = "version"
  /\ op = "createSignature" => Does(op)[3] = "clear"
  /\ op \notin Changing \cup Removing
               \cup {"logout", "upload", "createDocument", "addVersion", "renderPdf"} =>
       Does(op)[InsertPlace(op)] = "insert" /\ InsertPlace(op) < Len(Does(op))
  /\ op \in Drafting \cup {"createClaim"} => Handlers[op].scope = "header"
  /\ "code" \notin Handlers[op].checks
  /\ op = "updateShiftPolicy" => Handlers[op].checks = {} /\ Handlers[op].kind = "ShiftPolicy"
  /\ op \notin {"createDocument", "addVersion", "renderPdf"}
       /\ Handlers[op].kind \in ScopedKinds =>
         /\ op \notin Unchecked
         /\ ScopedColumns[Handlers[op].kind]
                  \subseteq (Handlers[op].checks \ Loose(op)) \cup Own(op)
  /\ Handlers[op].kind \in {"Document", "DocumentVersion"} =>
         op \in {"createDocument", "addVersion", "renderPdf"}
  /\ Handlers[op].kind = "ExpenseClaim" => op = "createClaim"
  /\ op = "createClaim" => Handlers[op].kind = "ExpenseClaim"
  /\ Handlers[op].kind \in {"LeaveRequest", "AttendanceCorrection"} => op \in Drafting
  /\ op \in Drafting => Handlers[op].kind \in {"Document", "LeaveRequest", "AttendanceCorrection"}
  /\ \A k \in 1..Len(Does(op)) : StatementAt(op, k)
  /\ \A k, l \in 1..Len(Does(op)) : \A kind :
       Creates(op, k, kind) /\ Creates(op, l, kind) => k = l
  /\ Does(op)[Len(Does(op))] = "audit" \/ Does(op)[Len(Does(op)) - 1] = "audit"
  /\ \A k \in 1..Len(Does(op)) : \A kind :
       Creates(op, k, kind) => k < Len(Does(op)) /\ Does(op)[k + 1] \in Reporting
  /\ op = "createCompany" => Handlers[op].kind = "Company" /\ Does(op)[3] = "insert"
  /\ Handlers[op].kind = "SignatureAsset" <=> op = "createSignature"
  /\ op = "createSignature" => Does(op)[4] = "insert" /\ Handlers[op].scope = "header"

LEMMA HandlerTable ==
  ASSUME NEW op \in Ops
  PROVE  TableEntry(op)
  <1> USE DEF Does, StatementAt, Creates, Reporting, Unchecked, Changing, Removing, Drafting,
             Filing, FilePlace, InsertPlace, Handler,
             Creation, Change, Removal, ScopedKinds, ScopedColumns, Loose, Own,
             LineDimensions, OptionalReferences, ItemReferences
  <1>1. CASE op = "login" /\ Handlers[op] = Login
    BY <1>1 DEF TableEntry, Login
  <1>2. CASE op = "logout" /\ Handlers[op] = Logout
    BY <1>2 DEF TableEntry, Logout
  <1>3. CASE op = "createCompany" /\ Handlers[op] = CreateCompany
    BY <1>3 DEF TableEntry, CreateCompany
  <1>4. CASE op = "updateCompany" /\ Handlers[op] = UpdateCompany
    BY <1>4 DEF TableEntry, UpdateCompany
  <1>5. CASE op = "createLegalEntity" /\ Handlers[op] = CreateLegalEntity
    BY <1>5 DEF TableEntry, CreateLegalEntity
  <1>6. CASE op = "createBusinessSite" /\ Handlers[op] = CreateBusinessSite
    BY <1>6 DEF TableEntry, CreateBusinessSite
  <1>7. CASE op = "createDepartment" /\ Handlers[op] = CreateDepartment
    BY <1>7 DEF TableEntry, CreateDepartment
  <1>8. CASE op = "updateDepartment" /\ Handlers[op] = UpdateDepartment
    BY <1>8 DEF TableEntry, UpdateDepartment
  <1>9. CASE op = "deleteDepartment" /\ Handlers[op] = DeleteDepartment
    BY <1>9 DEF TableEntry, DeleteDepartment
  <1>10. CASE op = "createEmployee" /\ Handlers[op] = CreateEmployee
    BY <1>10 DEF TableEntry, CreateEmployee
  <1>11. CASE op = "updateEmployee" /\ Handlers[op] = UpdateEmployee
    BY <1>11 DEF TableEntry, UpdateEmployee
  <1>12. CASE op = "deleteEmployee" /\ Handlers[op] = DeleteEmployee
    BY <1>12 DEF TableEntry, DeleteEmployee
  <1>13. CASE op = "createPosition" /\ Handlers[op] = CreatePosition
    BY <1>13 DEF TableEntry, CreatePosition
  <1>14. CASE op = "createJobTitle" /\ Handlers[op] = CreateJobTitle
    BY <1>14 DEF TableEntry, CreateJobTitle
  <1>15. CASE op = "createVendor" /\ Handlers[op] = CreateVendor
    BY <1>15 DEF TableEntry, CreateVendor
  <1>16. CASE op = "createCostCenter" /\ Handlers[op] = CreateCostCenter
    BY <1>16 DEF TableEntry, CreateCostCenter
  <1>17. CASE op = "createProject" /\ Handlers[op] = CreateProject
    BY <1>17 DEF TableEntry, CreateProject
  <1>18. CASE op = "createJournalEntry" /\ Handlers[op] = CreateJournalEntry
    BY <1>18 DEF TableEntry, CreateJournalEntry
  <1>19. CASE op = "createClaim" /\ Handlers[op] = CreateClaim
    BY <1>19 DEF TableEntry, CreateClaim
  <1>20. CASE op = "upload" /\ Handlers[op] = Upload
    BY <1>20 DEF TableEntry, Upload
  <1>21. CASE op = "createSignature" /\ Handlers[op] = CreateSignature
    BY <1>21 DEF TableEntry, CreateSignature
  <1>22. CASE op = "createDocument" /\ Handlers[op] = CreateDocument
    BY <1>22 DEF TableEntry, CreateDocument
  <1>23. CASE op = "addVersion" /\ Handlers[op] = AddVersion
    BY <1>23 DEF TableEntry, AddVersion
  <1>24. CASE op = "renderPdf" /\ Handlers[op] = RenderPdf
    BY <1>24 DEF TableEntry, RenderPdf
  <1>25. CASE op = "createShiftPolicy" /\ Handlers[op] = CreateShiftPolicy
    BY <1>25 DEF TableEntry, CreateShiftPolicy
  <1>26. CASE op = "updateShiftPolicy" /\ Handlers[op] = UpdateShiftPolicy
    BY <1>26 DEF TableEntry, UpdateShiftPolicy
  <1>27. CASE op = "createLeaveRequest" /\ Handlers[op] = CreateLeaveRequest
    BY <1>27 DEF TableEntry, CreateLeaveRequest
  <1>28. CASE op = "createAttendanceCorrection" /\ Handlers[op] = CreateAttendanceCorrection
    BY <1>28 DEF TableEntry, CreateAttendanceCorrection
  <1>29. CASE op = "createVendorImportJob" /\ Handlers[op] = CreateVendorImportJob
    BY <1>29 DEF TableEntry, CreateVendorImportJob
  <1>30. CASE op = "createExportJob" /\ Handlers[op] = CreateExportJob
    BY <1>30 DEF TableEntry, CreateExportJob
  <1> QED
    BY HandlersByName, <1>1, <1>2, <1>3, <1>4, <1>5, <1>6, <1>7, <1>8, <1>9, <1>10, <1>11, <1>12,
       <1>13, <1>14, <1>15, <1>16, <1>17, <1>18, <1>19, <1>20, <1>21, <1>22, <1>23, <1>24, <1>25,
       <1>26, <1>27, <1>28, <1>29, <1>30

LEMMA StatementsOfTable ==
  ASSUME NEW op \in Ops, NEW k \in 1..Len(Does(op))
  PROVE  TableEntry(op) /\ StatementAt(op, k)
  <1>1. TableEntry(op)
    BY HandlerTable
  <1>2. \A l \in 1..Len(Does(op)) : StatementAt(op, l)
    BY <1>1 DEF TableEntry
  <1> QED
    BY <1>1, <1>2

(***************************************************************************)
(* The life of a request.                                                  *)
(***************************************************************************)
\* A request has the fields of Idle, and runs a statement its handler has.
RequestOK(q) ==
  /\ DOMAIN request[q] = DOMAIN Idle
  /\ request[q].phase \in {"none", "running", "ok", "error"}
  /\ request[q].phase # "none" => request[q].op \in Ops
  /\ request[q].phase = "running" => request[q].at \in 1..Len(Does(request[q].op))
  /\ {"kind", "company"} \cap DOMAIN request[q].columns = {}
  /\ request[q].session = NoSession \/ request[q].session[3] = "UserSession"
  /\ request[q].op = "login" /\ request[q].phase \in {"running", "ok"} =>
       \/ request[q].phase = "running" /\ request[q].at <= 2
       \/ request[q].row[3] = "UserSession"

\* A page waits only for requests it has sent, and has sent them in their order.
PageOK(f) ==
  /\ page[f] \in [filled : BOOLEAN, sent : Nat, step : Nat, awaits : SUBSET Nat, errors : Nat]
  /\ page[f].awaits \subseteq 1..page[f].sent
  /\ page[f].sent <= FormOf[f].requests
  /\ page[f].step \in 1..Len(Sends(f))
  /\ Len(Sends(f)) > 1 => page[f].awaits \subseteq {page[f].sent}
  /\ \A n \in 1..FormOf[f].requests : n > page[f].sent <=> request[<<f, n>>].phase = "none"

\* The inductive invariant of requests and pages.
Life ==
  /\ Forms \subseteq DOMAIN FormOf
  /\ \A q : q \in RequestIds <=>
       \E f \in Forms : \E n \in 1..FormOf[f].requests : q = <<f, n>>
  /\ \A q \in RequestIds : RequestOK(q)
  /\ \A f \in Forms : PageOK(f) /\ FormOf[f].user \in DOMAIN token
  /\ \A u \in DOMAIN token : token[u] = NoSession \/ token[u][3] = "UserSession"
  /\ faults \in Nat

\* What a statement may have the handler know.
Learns(q, r) ==
  LET s == Does(request[q].op)[request[q].at]
  IN  /\ DOMAIN r = DOMAIN Idle
      /\ r.phase = request[q].phase /\ r.op = request[q].op /\ r.at = request[q].at
      /\ r.session = request[q].session /\ r.cut = request[q].cut
      /\ s # "check" => r.columns = request[q].columns /\ r.employee = request[q].employee
      /\ s \notin {"check", "guard"} => r.company = request[q].company
      /\ s # "guard" => r.role = request[q].role /\ r.companies = request[q].companies
      /\ s \notin {"authenticate", "guard"} => r.user = request[q].user
      /\ s \notin {"check", "number"} => r.no = request[q].no
      /\ s # "render" => r.content = request[q].content
      /\ s \notin {"insert", "update", "delete", "endSession", "draft", "version", "file"}
           => r.row = request[q].row
      /\ {"kind", "company"} \cap DOMAIN r.columns = {}
      /\ s = "insert" /\ r.op = "login" => r.row[3] = "UserSession"

LEMMA IdleFields ==
  /\ Idle.phase = "none" /\ Idle.op = "" /\ Idle.at = 1 /\ Idle.session = NoSession
  /\ DOMAIN Idle.columns = {} /\ Idle.row = <<>> /\ ~Idle.cut
  BY DEF Idle

LEMMA EndedFields ==
  ASSUME NEW r, NEW phase
  PROVE  /\ Ended(r, phase).phase = phase /\ Ended(r, phase).op = r.op
         /\ Ended(r, phase).row = r.row /\ Ended(r, phase).cut = r.cut
         /\ DOMAIN Ended(r, phase) = DOMAIN Idle /\ DOMAIN Ended(r, phase).columns = {}
         /\ Ended(r, phase).session = NoSession
  BY DEF Ended, Idle

LEMMA CompletedColumns ==
  ASSUME NEW q \in RequestIds, {"kind", "company"} \cap DOMAIN request[q].columns = {}
  PROVE  {"kind", "company"} \cap DOMAIN Completed(q) = {}
  BY DEF Completed, Over

LEMMA Learning ==
  ASSUME NEW q \in Running, RequestOK(q), Statement(q)
  PROVE  Refuse(q) \/ \E r : Proceed(q, r) /\ Learns(q, r)
  <1>0. q \in RequestIds /\ request[q].op \in Ops
    BY DEF Running, RequestOK
  <1>1. CASE Authenticate(q)
    BY <1>0, <1>1 DEF Authenticate, At, HandlerOf, Does, RequestOK, Learns, Idle
  <1>2. CASE Admit(q)
    BY <1>0, <1>2 DEF Admit, At, HandlerOf, Does, RequestOK, Learns, Idle
  <1>3. CASE TurnAway(q)
    BY <1>3 DEF TurnAway
  <1>4. CASE Check(q)
    BY <1>0, <1>4, CompletedColumns DEF Check, At, HandlerOf, Does, RequestOK, Learns, Idle
  <1>5. CASE Number(q)
    BY <1>0, <1>5 DEF Number, At, HandlerOf, Does, RequestOK, Learns, Idle
  <1>6. CASE Insert(q)
    <2>1. request[q].op = "login" => HandlerOf(q).kind = "UserSession"
      BY <1>0, HandlerTable DEF TableEntry, HandlerOf
    <2>2. NewId(q, HandlerOf(q).kind)[3] = HandlerOf(q).kind
      BY DEF NewId
    <2> DEFINE new == [request[q] EXCEPT !.row = NewId(q, HandlerOf(q).kind)]
    <2>3. Refuse(q) \/ Proceed(q, new)
      BY <1>6 DEF Insert, Write
    <2>4. At(q, "insert")
      BY <1>6 DEF Insert
    <2>5. Learns(q, new)
      BY <1>0, <2>1, <2>2, <2>4 DEF At, HandlerOf, Does, RequestOK, Learns, Idle
    <2> HIDE DEF new
    <2> QED
      BY <2>3, <2>5
  <1>7. CASE Join(q)
    BY <1>0, <1>7 DEF Join, Write, At, HandlerOf, Does, RequestOK, Learns, Idle
  <1>8. CASE Update(q)
    BY <1>0, <1>8 DEF Update, Write, At, HandlerOf, Does, RequestOK, Learns, Idle
  <1>9. CASE Delete(q)
    BY <1>0, <1>9 DEF Delete, At, HandlerOf, Does, RequestOK, Learns, Idle
  <1>10. CASE EndSession(q)
    BY <1>0, <1>10 DEF EndSession, At, HandlerOf, Does, RequestOK, Learns, Idle
  <1>11. CASE Clear(q)
    BY <1>0, <1>11 DEF Clear, At, HandlerOf, Does, RequestOK, Learns, Idle
  <1>12. CASE Draft(q)
    BY <1>0, <1>12 DEF Draft, At, HandlerOf, Does, RequestOK, Learns, Idle
  <1>13. CASE Version(q)
    BY <1>0, <1>13 DEF Version, At, HandlerOf, Does, RequestOK, Learns, Idle
  <1>14. CASE Render(q)
    BY <1>0, <1>14 DEF Render, At, HandlerOf, Does, RequestOK, Learns, Idle
  <1>15. CASE Put(q)
    BY <1>0, <1>15 DEF Put, At, HandlerOf, Does, RequestOK, Learns, Idle
  <1>16. CASE File(q)
    BY <1>0, <1>16 DEF File, Write, At, HandlerOf, Does, RequestOK, Learns, Idle
  <1>17. CASE Link(q)
    BY <1>0, <1>17 DEF Link, LinkTo, At, HandlerOf, Does, RequestOK, Learns, Idle
  <1>18. CASE Audit(q)
    BY <1>0, <1>18 DEF Audit, Running, HandlerOf, Does, RequestOK, Learns, Idle
  <1>19. CASE Answer(q)
    BY <1>0, <1>19 DEF Answer, At, HandlerOf, Does, RequestOK, Learns, Idle
  <1> QED
    BY <1>1, <1>2, <1>3, <1>4, <1>5, <1>6, <1>7, <1>8, <1>9, <1>10, <1>11, <1>12, <1>13,
       <1>14, <1>15, <1>16, <1>17, <1>18, <1>19 DEF Statement

\* What a step may do to a request: nothing, send it, have it go on, end it.
Stays(q) == request'[q] = request[q]

Starts(q) ==
  /\ request[q].phase = "none" /\ request'[q].phase = "running"
  /\ request'[q].op \in Ops /\ request'[q].at = 1
  /\ request'[q].row = <<>> /\ ~request'[q].cut /\ RequestOK(q)'

Goes(q) ==
  LET op == request[q].op
  IN  /\ request[q].phase = "running" /\ request'[q].phase = "running"
      /\ request[q].at < Len(Does(op)) /\ request'[q].at = request[q].at + 1
      /\ Statement(q)
      /\ \E r : Learns(q, r) /\ request'[q] = [r EXCEPT !.at = @ + 1]

Ends(q) ==
  /\ request[q].phase = "running" /\ request'[q].phase \in {"ok", "error"}
  /\ request'[q].op = request[q].op /\ request'[q].row = request[q].row
  /\ DOMAIN request'[q] = DOMAIN Idle /\ DOMAIN request'[q].columns = {}
  /\ request'[q].session = NoSession
  /\ \/ Statement(q) /\ request'[q].cut = request[q].cut
     \/ request'[q].cut /\ request'[q].phase = "error"
  /\ request'[q].phase = "ok" => request[q].at = Len(Does(request[q].op))

LEMMA LifeInit == Init => Life
  <1> SUFFICES ASSUME Init PROVE Life
    OBVIOUS
  <1>1. PICK desk \in Desks :
          /\ page = [f \in desk.forms |-> [filled |-> TRUE, sent |-> 0, step |-> 1,
                                          awaits |-> {}, errors |-> 0]]
          /\ token = [u \in {FormOf[f].user : f \in desk.forms} |-> Signed[u]]
          /\ request = [q \in UNION {{f} \X (1..FormOf[f].requests) : f \in desk.forms}
                           |-> Idle]
          /\ faults = desk.faults
    BY DEF Init
  <1>2. Forms = desk.forms /\ Forms \subseteq DOMAIN FormOf /\ faults \in Nat
    BY <1>1, DesksAssumption DEF Forms
  <1>3. ASSUME NEW q
        PROVE  q \in RequestIds <=>
                 \E f \in Forms : \E n \in 1..FormOf[f].requests : q = <<f, n>>
    BY <1>1, <1>2 DEF RequestIds
  <1>4. ASSUME NEW q \in RequestIds
        PROVE  RequestOK(q)
    <2>1. request[q] = Idle
      BY <1>1 DEF RequestIds
    <2> QED
      BY <2>1, IdleFields DEF RequestOK
  <1>5. ASSUME NEW f \in Forms
        PROVE  PageOK(f) /\ FormOf[f].user \in DOMAIN token
    <2>1. page[f] = [filled |-> TRUE, sent |-> 0, step |-> 1, awaits |-> {}, errors |-> 0]
      BY <1>1, <1>2
    <2>2. FormOf[f].requests \in Nat /\ FormOf[f].page.sends \in Seq(DOMAIN Handlers) \ {<<>>}
      BY <1>2, CatalogueAssumption
    <2>3. Len(Sends(f)) \in Nat \ {0}
      BY <2>2 DEF Sends
    <2>4. ASSUME NEW n \in 1..FormOf[f].requests
          PROVE  n > page[f].sent /\ request[<<f, n>>].phase = "none"
      <3>1. <<f, n>> \in RequestIds
        BY <1>3
      <3>2. request[<<f, n>>] = Idle
        BY <3>1, <1>1 DEF RequestIds
      <3>3. page[f].sent = 0
        BY <2>1
      <3>4. n > 0
        BY <2>2
      <3> QED
        BY <3>2, <3>3, <3>4, IdleFields
    <2>5. FormOf[f].user \in DOMAIN token
      BY <1>1, <1>2
    <2>6. \A n \in 1..FormOf[f].requests : n > page[f].sent <=> request[<<f, n>>].phase = "none"
      BY <2>4
    <2>7. page[f] \in [filled : BOOLEAN, sent : Nat, step : Nat, awaits : SUBSET Nat,
                      errors : Nat]
      BY <2>1
    <2> QED
      BY <2>1, <2>2, <2>3, <2>5, <2>6, <2>7 DEF PageOK
  <1>6. \A u \in DOMAIN token : token[u] = NoSession \/ token[u][3] = "UserSession"
    BY <1>1, <1>2, CatalogueAssumption
  <1> QED
    BY <1>2, <1>3, <1>4, <1>5, <1>6 DEF Life

LEMMA Proceeding ==
  ASSUME NEW q \in Running, Life, Statement(q), NEW r, Proceed(q, r), Learns(q, r)
  PROVE  /\ Goes(q) \/ Ends(q)
         /\ \A p \in RequestIds \ {q} : Stays(p)
         /\ DOMAIN request' = DOMAIN request
  <1>1. q \in RequestIds /\ RequestOK(q) /\ request[q].phase = "running"
    BY DEF Running, Life
  <1>2. request[q].at \in 1..Len(Does(request[q].op)) /\ request[q].op \in Ops
    BY <1>1 DEF RequestOK
  <1>3. TableEntry(request[q].op) /\ Len(Does(request[q].op)) \in Nat
    BY <1>2, HandlerTable DEF TableEntry
  <1>4. DOMAIN request' = DOMAIN request /\ \A p \in RequestIds \ {q} : Stays(p)
    BY DEF Proceed, Stays, RequestIds
  <1>5. DOMAIN r = DOMAIN Idle /\ r.phase = "running" /\ r.op = request[q].op
        /\ r.at = request[q].at /\ r.cut = request[q].cut
    BY <1>1 DEF Learns
  <1>6. CASE r.at # Len(HandlerOf(q).does)
    <2>1. request'[q] = [r EXCEPT !.at = @ + 1]
      BY <1>1, <1>6 DEF Proceed, RequestIds
    <2>2. request'[q].phase = "running" /\ request'[q].at = request[q].at + 1
      BY <2>1, <1>5 DEF Idle
    <2>3. request[q].at < Len(Does(request[q].op))
      BY <1>2, <1>3, <1>5, <1>6 DEF HandlerOf, Does
    <2> QED
      BY <1>1, <1>4, <2>1, <2>2, <2>3 DEF Goes
  <1>7. CASE r.at = Len(HandlerOf(q).does)
    <2>1. request'[q] = Ended(r, "ok")
      BY <1>1, <1>7 DEF Proceed, RequestIds
    <2>2. Does(request[q].op)[request[q].at] \in {"audit", "answer"}
      BY <1>3, <1>5, <1>7 DEF TableEntry, HandlerOf, Does
    <2>3. r.row = request[q].row
      BY <2>2 DEF Learns
    <2>4. request[q].at = Len(Does(request[q].op))
      BY <1>5, <1>7 DEF HandlerOf, Does
    <2>5. /\ request'[q].phase = "ok" /\ request'[q].op = request[q].op
          /\ request'[q].row = request[q].row /\ request'[q].cut = request[q].cut
          /\ DOMAIN request'[q] = DOMAIN Idle /\ DOMAIN request'[q].columns = {}
          /\ request'[q].session = NoSession
      BY <1>5, <2>1, <2>3, EndedFields
    <2> QED
      BY <1>1, <1>4, <2>4, <2>5 DEF Ends
  <1> QED
    BY <1>4, <1>6, <1>7

LEMMA Refusing ==
  ASSUME NEW q \in Running, Life, Statement(q), Refuse(q)
  PROVE  /\ Ends(q) /\ request'[q].phase = "error" /\ request'[q] = Ended(request[q], "error")
         /\ \A p \in RequestIds \ {q} : Stays(p)
         /\ DOMAIN request' = DOMAIN request
  <1>1. q \in RequestIds /\ request[q].phase = "running"
    BY DEF Running
  <1>2. DOMAIN request' = DOMAIN request /\ \A p \in RequestIds \ {q} : Stays(p)
    BY DEF Refuse, Stays, RequestIds
  <1>3. request'[q] = Ended(request[q], "error")
    BY <1>1 DEF Refuse, RequestIds
  <1>4. /\ request'[q].phase = "error" /\ request'[q].op = request[q].op
        /\ request'[q].row = request[q].row /\ request'[q].cut = request[q].cut
        /\ DOMAIN request'[q] = DOMAIN Idle /\ DOMAIN request'[q].columns = {}
        /\ request'[q].session = NoSession
    BY <1>3, EndedFields
  <1> QED
    BY <1>1, <1>2, <1>3, <1>4 DEF Ends

LEMMA StatementMoves ==
  ASSUME NEW q \in Running, Life, Statement(q)
  PROVE  /\ Goes(q) \/ Ends(q)
         /\ \A p \in RequestIds \ {q} : Stays(p)
         /\ DOMAIN request' = DOMAIN request
  <1>1. RequestOK(q)
    BY DEF Running, Life
  <1> QED
    BY <1>1, Learning, Proceeding, Refusing

LEMMA Sending ==
  ASSUME Life, NEW f \in Forms, NEW n \in 1..FormOf[f].requests, NEW step, NEW columns,
         request[<<f, n>>].phase = "none", Sends(f)[step] \in Ops, Sent(f, n, step, columns),
         {"kind", "company"} \cap DOMAIN columns = {}
  PROVE  /\ <<f, n>> \in RequestIds /\ Starts(<<f, n>>)
         /\ \A q \in RequestIds \ {<<f, n>>} : Stays(q)
         /\ DOMAIN request' = DOMAIN request
  <1>0. PICK session \in SessionsAt(f) :
          request' = [request EXCEPT ![<<f, n>>] =
            [Idle EXCEPT !.phase = "running", !.op = Sends(f)[step], !.columns = columns,
                         !.session = session]]
    BY DEF Sent
  <1>1. <<f, n>> \in RequestIds /\ FormOf[f].user \in DOMAIN token /\ f \in DOMAIN FormOf
    BY DEF Life
  <1>2. /\ DOMAIN request' = DOMAIN request
        /\ \A q \in RequestIds \ {<<f, n>>} : Stays(q)
        /\ request'[<<f, n>>] = [Idle EXCEPT !.phase = "running", !.op = Sends(f)[step],
                                    !.columns = columns, !.session = session]
    BY <1>1, <1>0 DEF RequestIds, Stays
  <1>3. /\ DOMAIN request'[<<f, n>>] = DOMAIN Idle
        /\ request'[<<f, n>>].phase = "running" /\ request'[<<f, n>>].op = Sends(f)[step]
        /\ request'[<<f, n>>].columns = columns /\ request'[<<f, n>>].at = 1
        /\ request'[<<f, n>>].session = session
        /\ request'[<<f, n>>].row = <<>> /\ ~request'[<<f, n>>].cut
    BY <1>2 DEF Idle
  <1>4. 1 \in 1..Len(Does(Sends(f)[step]))
    <2>1. Len(Does(Sends(f)[step])) \in 2..8
      BY HandlerTable DEF TableEntry
    <2>2. \A m \in 2..8 : 1 \in 1..m
      OBVIOUS
    <2> QED
      BY <2>1, <2>2
  <1>5. session = NoSession \/ session[3] = "UserSession"
    <2>1. session = Signed[FormOf[f].user] \/ session = token[FormOf[f].user]
      BY DEF SessionsAt
    <2> QED
      BY <1>1, <2>1, CatalogueAssumption DEF Life
  <1>6. RequestOK(<<f, n>>)' /\ request'[<<f, n>>].op \in Ops
    <2>1. {"kind", "company"} \cap DOMAIN request'[<<f, n>>].columns = {}
      BY <1>3
    <2>2. request'[<<f, n>>].at \in 1..Len(Does(request'[<<f, n>>].op))
      BY <1>3, <1>4
    <2>3. \/ request'[<<f, n>>].session = NoSession
          \/ request'[<<f, n>>].session[3] = "UserSession"
      BY <1>3, <1>5
    <2>4. request'[<<f, n>>].phase = "running" /\ request'[<<f, n>>].at <= 2
      BY <1>3
    <2> QED
      BY <1>3, <2>1, <2>2, <2>3, <2>4 DEF RequestOK
  <1> QED
    BY <1>1, <1>2, <1>3, <1>6 DEF Starts

LEMMA OpsOfPages ==
  ASSUME NEW f \in DOMAIN FormOf
  PROVE  /\ Len(Sends(f)) \in Nat \ {0} /\ \A s \in 1..Len(Sends(f)) : Sends(f)[s] \in Ops
         /\ {"kind", "company"} \cap DOMAIN FormOf[f].columns = {}
         /\ FormOf[f].requests \in Nat \ {0}
         /\ Len(Sends(f)) > 1 => FormOf[f].page.locks
         /\ FormOf[f].page.locks \in BOOLEAN /\ FormOf[f].page.empties \in BOOLEAN
  BY CatalogueAssumption DEF Sends, Ops

LEMMA Pressing ==
  ASSUME Life, NEW f \in Forms, Press(f)
  PROVE  LET n == page[f].sent + 1
         IN  /\ n \in 1..FormOf[f].requests /\ request[<<f, n>>].phase = "none"
             /\ Sent(f, n, 1, FormOf[f].columns) /\ 1 \in 1..Len(Sends(f))
  <1>1. f \in DOMAIN FormOf /\ PageOK(f)
    BY DEF Life
  <1>2. page[f].sent \in Nat /\ FormOf[f].requests \in Nat /\ page[f].sent < FormOf[f].requests
    BY <1>1, OpsOfPages DEF PageOK, Press
  <1>3. page[f].sent + 1 \in 1..FormOf[f].requests /\ page[f].sent + 1 > page[f].sent
    BY <1>2
  <1>4. request[<<f, page[f].sent + 1>>].phase = "none"
    BY <1>1, <1>3 DEF PageOK
  <1> QED
    BY <1>1, <1>3, <1>4, OpsOfPages DEF Press

LEMMA SendingNext ==
  ASSUME Life, NEW f \in Forms, NEW n \in page[f].awaits, SendNext(f, n)
  PROVE  /\ n + 1 \in 1..FormOf[f].requests /\ request[<<f, n + 1>>].phase = "none"
         /\ Sent(f, n + 1, page[f].step + 1,
                 Over([sourceFile |-> {request[<<f, n>>].row}], FormOf[f].columns))
         /\ page[f].step + 1 \in 1..Len(Sends(f)) /\ n = page[f].sent
  <1>1. f \in DOMAIN FormOf /\ PageOK(f)
    BY DEF Life
  <1>2. /\ page[f].sent \in Nat /\ FormOf[f].requests \in Nat
        /\ page[f].sent < FormOf[f].requests
        /\ page[f].step < Len(Sends(f)) /\ page[f].step \in Nat \ {0} /\ Len(Sends(f)) \in Nat
    BY <1>1, OpsOfPages DEF PageOK, SendNext
  <1>3. Len(Sends(f)) > 1
    BY <1>2
  <1>4. n = page[f].sent
    BY <1>1, <1>3 DEF PageOK
  <1>5. n + 1 \in 1..FormOf[f].requests /\ n + 1 > page[f].sent
    BY <1>2, <1>4
  <1>6. request[<<f, n + 1>>].phase = "none"
    BY <1>1, <1>5 DEF PageOK
  <1> QED
    BY <1>2, <1>4, <1>5, <1>6 DEF SendNext

LEMMA NextColumns ==
  ASSUME NEW f \in DOMAIN FormOf, NEW file
  PROVE  {"kind", "company"} \cap DOMAIN Over([sourceFile |-> file], FormOf[f].columns) = {}
  BY OpsOfPages DEF Over

LEMMA PhasesKept ==
  ASSUME NEW q, Stays(q) \/ Goes(q) \/ Ends(q)
  PROVE  request'[q].phase = "none" <=> request[q].phase = "none"
  BY DEF Stays, Goes, Ends

\* A page whose own state does not change, beside requests that do not start.
LEMMA PageKept ==
  ASSUME Life, NEW f \in Forms, page'[f] = page[f],
         \A n \in 1..FormOf[f].requests :
           request'[<<f, n>>].phase = "none" <=> request[<<f, n>>].phase = "none"
  PROVE  PageOK(f)'
  BY DEF Life, PageOK

\* An answer that is taken from those the page waits for.
PageRecord == [filled : BOOLEAN, sent : Nat, step : Nat, awaits : SUBSET Nat, errors : Nat]

LEMMA PageAnswered ==
  ASSUME Life, NEW f \in Forms, NEW n, page'[f] \in PageRecord,
         page'[f].awaits = page[f].awaits \ {n}, page'[f].sent = page[f].sent,
         page'[f].step = page[f].step,
         \A m \in 1..FormOf[f].requests :
           request'[<<f, m>>].phase = "none" <=> request[<<f, m>>].phase = "none"
  PROVE  PageOK(f)'
  <1>1. PageOK(f)
    BY DEF Life
  <1> QED
    BY <1>1 DEF PageOK, PageRecord

\* A page that has sent its next request.
LEMMA PageSent ==
  ASSUME Life, NEW f \in Forms, NEW step \in 1..Len(Sends(f)), NEW awaits,
         LET n == page[f].sent + 1
         IN  /\ n \in 1..FormOf[f].requests
             /\ page'[f] = [page[f] EXCEPT !.sent = n, !.step = step, !.awaits = awaits]
             /\ awaits \subseteq page[f].awaits \cup {n}
             /\ Len(Sends(f)) > 1 => awaits = {n}
             /\ request'[<<f, n>>].phase # "none"
             /\ \A m \in 1..FormOf[f].requests \ {n} :
                  request'[<<f, m>>].phase = "none" <=> request[<<f, m>>].phase = "none"
  PROVE  PageOK(f)'
  <1> DEFINE n == page[f].sent + 1
  <1>1. PageOK(f) /\ f \in DOMAIN FormOf
    BY DEF Life
  <1>2. page[f].sent \in Nat /\ FormOf[f].requests \in Nat /\ Len(Sends(f)) \in Nat
    BY <1>1, OpsOfPages DEF PageOK
  <1>3. awaits \subseteq 1..n
    BY <1>1, <1>2 DEF PageOK
  <1>4. /\ page'[f].awaits = awaits /\ page'[f].sent = n /\ page'[f].step = step
        /\ page'[f] \in [filled : BOOLEAN, sent : Nat, step : Nat, awaits : SUBSET Nat,
                         errors : Nat]
    <2>1. awaits \in SUBSET Nat /\ n \in Nat /\ step \in Nat
      BY <1>2, <1>3
    <2>2. page[f] \in [filled : BOOLEAN, sent : Nat, step : Nat, awaits : SUBSET Nat,
                      errors : Nat]
      BY <1>1 DEF PageOK
    <2>3. page'[f] = [page[f] EXCEPT !.sent = n, !.step = step, !.awaits = awaits]
      OBVIOUS
    <2> HIDE DEF n
    <2> QED
      BY <2>1, <2>2, <2>3
  <1>5. \A m \in 1..FormOf[f].requests : m > n <=> request'[<<f, m>>].phase = "none"
    <2> TAKE m \in 1..FormOf[f].requests
    <2>1. m \in Nat /\ (m > page[f].sent <=> request[<<f, m>>].phase = "none")
      BY <1>1, <1>2 DEF PageOK
    <2>2. CASE m = n
      BY <2>2, <1>2
    <2>3. CASE m # n
      <3>1. request'[<<f, m>>].phase = "none" <=> m > page[f].sent
        BY <2>1, <2>3
      <3>2. m > n <=> m > page[f].sent
        BY <1>2, <2>1, <2>3
      <3> QED
        BY <3>1, <3>2
    <2> QED
      BY <2>2, <2>3
  <1> HIDE DEF n
  <1> QED
    BY <1>1, <1>2, <1>3, <1>4, <1>5 DEF PageOK

\* The steps of a page that waits for an answer: nothing happens to the requests.
LEMMA AnswerTaken ==
  ASSUME Life, NEW f \in Forms, NEW n \in page[f].awaits,
         Succeed(f, n) \/ ShowError(f, n) \/ TimeOut(f, n)
  PROVE  /\ DOMAIN page' = DOMAIN page /\ \A g \in Forms : PageOK(g)'
         /\ DOMAIN token' = DOMAIN token
         /\ \A u \in DOMAIN token : token'[u] = NoSession \/ token'[u][3] = "UserSession"
  <1>1. f \in DOMAIN FormOf /\ PageOK(f) /\ n \in 1..FormOf[f].requests
    <2>1. f \in DOMAIN FormOf /\ PageOK(f)
      BY DEF Life
    <2>2. FormOf[f].requests \in Nat /\ page[f].sent \in Nat
      BY <2>1, OpsOfPages DEF PageOK
    <2> QED
      BY <2>1, <2>2 DEF PageOK
  <1>2. <<f, n>> \in RequestIds
    BY <1>1 DEF Life
  <1>3. UNCHANGED request
    BY DEF Succeed, ShowError, TimeOut
  <1>4. f \in DOMAIN page /\ page[f] \in PageRecord
    BY <1>1 DEF Forms, PageOK, PageRecord
  <1>5. /\ DOMAIN page' = DOMAIN page /\ \A g \in DOMAIN page \ {f} : page'[g] = page[g]
        /\ page'[f].awaits = page[f].awaits \ {n} /\ page'[f].sent = page[f].sent
        /\ page'[f].step = page[f].step /\ page'[f] \in PageRecord
    <2>1. CASE Succeed(f, n)
      BY <1>4, <2>1 DEF Succeed, PageRecord
    <2>2. CASE ShowError(f, n) \/ TimeOut(f, n)
      <3>1. page' = [page EXCEPT ![f].awaits = @ \ {n}, ![f].errors = @ + 1]
        BY <2>2 DEF ShowError, TimeOut, Shows
      <3>2. page[f].errors + 1 \in Nat /\ page[f].awaits \ {n} \in SUBSET Nat
        BY <1>4 DEF PageRecord
      <3> QED
        BY <1>4, <3>1, <3>2 DEF PageRecord
    <2> QED
      BY <2>1, <2>2
  <1>6. PageOK(f)'
    BY <1>3, <1>5, PageAnswered
  <1>7. ASSUME NEW g \in Forms \ {f}
        PROVE  PageOK(g)'
    BY <1>3, <1>5, PageKept DEF Forms
  <1>8. \E success : token' = TokenAfter(f, n, success)
               /\ (success /\ request[<<f, n>>].op = "login" => request[<<f, n>>].phase = "ok")
    BY DEF Succeed, ShowError, TimeOut, Shows
  <1>9. /\ DOMAIN token' = DOMAIN token
        /\ \A u \in DOMAIN token : token'[u] = NoSession \/ token'[u][3] = "UserSession"
    BY <1>2, <1>8 DEF TokenAfter, Life, RequestOK
  <1> QED
    BY <1>5, <1>6, <1>7, <1>9

\* The step of a page that sends a request.
PageMoves(f, n, step, awaits) ==
  page' = [page EXCEPT ![f].sent = n, ![f].step = step, ![f].awaits = awaits]

LEMMA RequestSent ==
  ASSUME Life, NEW f \in Forms, NEW n, n = page[f].sent + 1, n \in 1..FormOf[f].requests,
         request[<<f, n>>].phase = "none",
         NEW step \in 1..Len(Sends(f)), NEW columns, Sent(f, n, step, columns),
         {"kind", "company"} \cap DOMAIN columns = {},
         NEW awaits, awaits \subseteq page[f].awaits \cup {n},
         Len(Sends(f)) > 1 => awaits = {n},
         PageMoves(f, n, step, awaits)
  PROVE  /\ DOMAIN page' = DOMAIN page /\ \A g \in Forms : PageOK(g)'
         /\ <<f, n>> \in RequestIds /\ Starts(<<f, n>>)
         /\ \A q \in RequestIds \ {<<f, n>>} : Stays(q)
  <1>1. f \in DOMAIN FormOf /\ PageOK(f) /\ f \in DOMAIN page
    BY DEF Life, Forms
  <1>0. page' = [page EXCEPT ![f].sent = n, ![f].step = step, ![f].awaits = awaits]
    BY DEF PageMoves
  <1>2. Sends(f)[step] \in Ops
    BY <1>1, OpsOfPages
  <1>3. /\ <<f, n>> \in RequestIds /\ Starts(<<f, n>>)
        /\ \A q \in RequestIds \ {<<f, n>>} : Stays(q)
    BY <1>2, Sending
  <1>4. ASSUME NEW g \in Forms, NEW m \in 1..FormOf[g].requests, <<g, m>> # <<f, n>>
        PROVE  request'[<<g, m>>].phase = "none" <=> request[<<g, m>>].phase = "none"
    <2>1. <<g, m>> \in RequestIds
      BY DEF Life
    <2> QED
      BY <1>3, <1>4, <2>1 DEF Stays
  <1>5. PageOK(f)'
    <2>1. \A m \in 1..FormOf[f].requests \ {n} :
            request'[<<f, m>>].phase = "none" <=> request[<<f, m>>].phase = "none"
      BY <1>4
    <2>2. request'[<<f, n>>].phase # "none"
      BY <1>3 DEF Starts
    <2>3. page'[f] = [page[f] EXCEPT !.sent = n, !.step = step, !.awaits = awaits]
      BY <1>0, <1>1
    <2> QED
      BY <2>1, <2>2, <2>3, PageSent
  <1>6. ASSUME NEW g \in Forms \ {f}
        PROVE  PageOK(g)'
    <2>1. page'[g] = page[g]
      BY <1>0 DEF Forms
    <2> QED
      BY <1>4, <2>1, PageKept
  <1> QED
    BY <1>0, <1>3, <1>5, <1>6

\* What a page sends.
SentBy(f, n, step, columns) ==
  /\ n = page[f].sent + 1 /\ n \in 1..FormOf[f].requests
  /\ request[<<f, n>>].phase = "none"
  /\ step \in 1..Len(Sends(f)) /\ Sent(f, n, step, columns)
  /\ {"kind", "company"} \cap DOMAIN columns = {}
  /\ UNCHANGED <<stored, token, faults>>
  /\ DOMAIN page' = DOMAIN page /\ \A g \in Forms : PageOK(g)'
  /\ <<f, n>> \in RequestIds /\ Starts(<<f, n>>)
  /\ \A q \in RequestIds \ {<<f, n>>} : Stays(q)

LEMMA PressSends ==
  ASSUME Life, NEW f \in Forms, Press(f)
  PROVE  SentBy(f, page[f].sent + 1, 1, FormOf[f].columns)
  <1>1. f \in DOMAIN FormOf
    BY DEF Life
  <1> DEFINE n == page[f].sent + 1
             awaits == page[f].awaits \cup {n}
  <1>2. /\ n \in 1..FormOf[f].requests /\ request[<<f, n>>].phase = "none"
        /\ Sent(f, n, 1, FormOf[f].columns) /\ 1 \in 1..Len(Sends(f))
    BY Pressing
  <1>3. {"kind", "company"} \cap DOMAIN FormOf[f].columns = {}
    BY <1>1, OpsOfPages
  <1>4. PageMoves(f, n, 1, awaits)
    BY DEF Press, PageMoves
  <1>5. Len(Sends(f)) > 1 => awaits = {n}
    BY <1>1, OpsOfPages DEF Press
  <1>6. UNCHANGED <<stored, token, faults>> /\ n = page[f].sent + 1
    BY DEF Press
  <1>7. awaits \subseteq page[f].awaits \cup {n}
    OBVIOUS
  <1> HIDE DEF n, awaits
  <1> QED
    BY <1>2, <1>3, <1>4, <1>5, <1>6, <1>7, RequestSent DEF SentBy, n

LEMMA NextSends ==
  ASSUME Life, NEW f \in Forms, NEW m \in page[f].awaits, SendNext(f, m)
  PROVE  /\ SentBy(f, m + 1, page[f].step + 1,
                   Over([sourceFile |-> {request[<<f, m>>].row}], FormOf[f].columns))
         /\ request[<<f, m>>].phase = "ok"
  <1>1. f \in DOMAIN FormOf
    BY DEF Life
  <1> DEFINE n == m + 1
             columns == Over([sourceFile |-> {request[<<f, m>>].row}], FormOf[f].columns)
             step == page[f].step + 1
  <1>2. /\ n \in 1..FormOf[f].requests /\ request[<<f, n>>].phase = "none"
        /\ Sent(f, n, step, columns) /\ step \in 1..Len(Sends(f)) /\ m = page[f].sent
    BY SendingNext
  <1>3. {"kind", "company"} \cap DOMAIN columns = {}
    BY <1>1, NextColumns
  <1>4. n = page[f].sent + 1
    BY <1>2
  <1>5. PageMoves(f, n, step, {n}) /\ {n} \subseteq page[f].awaits \cup {n}
    BY <1>4 DEF SendNext, PageMoves
  <1>6. UNCHANGED <<stored, token, faults>> /\ request[<<f, m>>].phase = "ok"
    BY DEF SendNext
  <1> HIDE DEF n, columns, step
  <1>7. /\ DOMAIN page' = DOMAIN page /\ \A g \in Forms : PageOK(g)'
        /\ <<f, n>> \in RequestIds /\ Starts(<<f, n>>)
        /\ \A q \in RequestIds \ {<<f, n>>} : Stays(q)
    BY <1>2, <1>3, <1>4, <1>5, RequestSent
  <1> QED
    BY <1>2, <1>3, <1>4, <1>6, <1>7 DEF SentBy, n, columns, step

LEMMA StatementFrame ==
  ASSUME NEW q, Statement(q)
  PROVE  UNCHANGED <<page, token, faults>>
  BY DEF Statement, OnlyRequests, OnlyRows, Write, Authenticate, Admit, TurnAway, Check, Number,
         Insert, Join, Update, Delete, EndSession, Clear, Draft, Version, Render, Put, File,
         Link, LinkTo, Audit, Answer, stored

\* What becomes of the requests in a step.
Move(q) == Stays(q) \/ Starts(q) \/ Goes(q) \/ Ends(q)

LEMMA CuttingOff ==
  ASSUME NEW q, request[q].phase = "running", request'[q] = CutOff(request[q])
  PROVE  Ends(q)
  <1>1. /\ request'[q].phase = "error" /\ request'[q].op = request[q].op
        /\ request'[q].row = request[q].row /\ request'[q].cut
        /\ DOMAIN request'[q] = DOMAIN Idle /\ DOMAIN request'[q].columns = {}
        /\ request'[q].session = NoSession
    BY DEF CutOff, Ended, Idle
  <1> QED
    BY <1>1 DEF Ends

LEMMA Moves ==
  ASSUME Life, [Next]_vars
  PROVE  DOMAIN request' = DOMAIN request /\ \A q \in RequestIds : Move(q)
  <1>1. ASSUME NEW f \in Forms, NEW n, NEW step, NEW columns, SentBy(f, n, step, columns)
        PROVE  DOMAIN request' = DOMAIN request /\ \A q \in RequestIds : Move(q)
    BY <1>1 DEF SentBy, Sent, Move
  <1>2. ASSUME NEW f \in Forms, Press(f) \/ \E n \in page[f].awaits : SendNext(f, n)
        PROVE  DOMAIN request' = DOMAIN request /\ \A q \in RequestIds : Move(q)
    BY <1>1, <1>2, PressSends, NextSends
  <1>3. ASSUME NEW f \in Forms, NEW n \in page[f].awaits,
               Succeed(f, n) \/ ShowError(f, n) \/ TimeOut(f, n)
        PROVE  DOMAIN request' = DOMAIN request /\ \A q \in RequestIds : Move(q)
    BY <1>3 DEF Succeed, ShowError, TimeOut, Move, Stays
  <1>4. ASSUME NEW q \in Running, Statement(q)
        PROVE  DOMAIN request' = DOMAIN request /\ \A p \in RequestIds : Move(p)
    BY <1>4, StatementMoves DEF Move
  <1>5. ASSUME NEW q \in Running, Fail(q)
        PROVE  DOMAIN request' = DOMAIN request /\ \A p \in RequestIds : Move(p)
    <2>1. /\ DOMAIN request' = DOMAIN request /\ \A p \in RequestIds \ {q} : Stays(p)
          /\ request'[q] = CutOff(request[q]) /\ request[q].phase = "running"
      BY <1>5 DEF Fail, Running, RequestIds, Stays
    <2> QED
      BY <2>1, CuttingOff DEF Move
  <1>6. CASE Stop
    <2>1. DOMAIN request' = DOMAIN request
      BY <1>6 DEF Stop, RequestIds
    <2>2. ASSUME NEW q \in RequestIds
          PROVE  Move(q)
      <3>1. q \in Running => request'[q] = CutOff(request[q]) /\ request[q].phase = "running"
        BY <1>6 DEF Stop, Running
      <3>2. q \notin Running => Stays(q)
        BY <1>6 DEF Stop, Stays
      <3> QED
        BY <3>1, <3>2, CuttingOff DEF Move
    <2> QED
      BY <2>1, <2>2
  <1>7. ASSUME NEW session, Expire(session)
        PROVE  DOMAIN request' = DOMAIN request /\ \A q \in RequestIds : Move(q)
    BY <1>7 DEF Expire, Move, Stays
  <1>8. CASE UNCHANGED vars
    BY <1>8 DEF vars, Move, Stays
  <1> QED
    BY <1>2, <1>3, <1>4, <1>5, <1>6, <1>7, <1>8 DEF Next

LEMMA RequestAfter ==
  ASSUME NEW q \in RequestIds, RequestOK(q), Move(q)
  PROVE  RequestOK(q)'
  <1>1. CASE Stays(q)
    BY <1>1 DEF Stays, RequestOK
  <1>2. CASE Goes(q)
    <2>1. PICK r : Learns(q, r) /\ request'[q] = [r EXCEPT !.at = @ + 1]
      BY <1>2 DEF Goes
    <2>2. /\ request[q].op \in Ops /\ request[q].at \in 1..Len(Does(request[q].op))
          /\ request[q].phase = "running"
      BY <1>2 DEF Goes, RequestOK
    <2>3. TableEntry(request[q].op) /\ StatementAt(request[q].op, request[q].at)
      BY <2>2, StatementsOfTable
    <2>4. Len(Does(request[q].op)) \in Nat
      BY <2>3 DEF TableEntry
    <2>5. /\ DOMAIN request'[q] = DOMAIN Idle /\ request'[q].phase = "running"
          /\ request'[q].op = request[q].op /\ request'[q].at = request[q].at + 1
          /\ request'[q].columns = r.columns /\ request'[q].session = request[q].session
          /\ request'[q].row = r.row
      BY <2>1, <2>2 DEF Learns, Idle
    <2>6. request'[q].at \in 1..Len(Does(request'[q].op))
      BY <1>2, <2>2, <2>4, <2>5 DEF Goes
    <2>7. {"kind", "company"} \cap DOMAIN request'[q].columns = {}
      BY <2>1, <2>5 DEF Learns
    <2>8. ASSUME request'[q].op = "login"
          PROVE  request'[q].at <= 2 \/ request'[q].row[3] = "UserSession"
      <3>1. CASE request[q].at = 1
        BY <3>1, <2>5
      <3>2. CASE request[q].at = 2
        <4>1. Does(request[q].op)[request[q].at] = "insert"
          BY <2>3, <2>5, <2>8, <3>2 DEF StatementAt, Unchecked, Filing, FilePlace
        <4> QED
          BY <2>1, <2>5, <2>8, <4>1 DEF Learns
      <3>3. CASE request[q].at > 2
        <4>1. request[q].row[3] = "UserSession"
          BY <2>2, <2>5, <2>8, <3>3 DEF RequestOK
        <4>2. r.row = request[q].row
          BY <2>1, <2>3, <2>5, <2>8, <3>3
             DEF Learns, StatementAt, Changing, Removing, Drafting, Filing, InsertPlace
        <4> QED
          BY <2>5, <4>1, <4>2
      <3> QED
        BY <2>2, <2>4, <3>1, <3>2, <3>3
    <2>9. request'[q].session = NoSession \/ request'[q].session[3] = "UserSession"
      BY <2>5 DEF RequestOK
    <2> QED
      BY <2>2, <2>5, <2>6, <2>7, <2>8, <2>9 DEF RequestOK
  <1>3. CASE Ends(q)
    <2>1. /\ request[q].op \in Ops /\ request[q].at \in 1..Len(Does(request[q].op))
          /\ request[q].phase = "running"
      BY <1>3 DEF Ends, RequestOK
    <2>2. TableEntry(request[q].op) /\ StatementAt(request[q].op, request[q].at)
      BY <2>1, StatementsOfTable
    <2>3. request'[q].op = "login" /\ request'[q].phase = "ok" => request'[q].row[3] = "UserSession"
      <3> SUFFICES ASSUME request[q].op = "login", request'[q].phase = "ok"
                   PROVE  request[q].row[3] = "UserSession"
        BY <1>3 DEF Ends
      <3>1. request[q].at = Len(Does(request[q].op))
        BY <1>3 DEF Ends
      <3>2. Does(request[q].op)[request[q].at] \in {"audit", "answer"}
        BY <2>2, <3>1 DEF TableEntry
      <3>3. request[q].at > 2
        BY <2>1, <2>2, <3>2 DEF StatementAt
      <3> QED
        BY <2>1, <3>3 DEF RequestOK
    <2> QED
      BY <1>3, <2>1, <2>3 DEF Ends, RequestOK
  <1> QED
    BY <1>1, <1>2, <1>3 DEF Move, Starts

LEMMA LifeStep ==
  ASSUME Life, [Next]_vars
  PROVE  Life'
  <1>1. DOMAIN request' = DOMAIN request /\ \A q \in RequestIds : Move(q)
    BY Moves
  <1>2. ASSUME NEW q \in RequestIds
        PROVE  RequestOK(q)'
    BY <1>1, RequestAfter DEF Life
  <1> DEFINE Kept ==
        /\ DOMAIN page' = DOMAIN page /\ \A g \in Forms : PageOK(g)'
        /\ DOMAIN token' = DOMAIN token
        /\ \A u \in DOMAIN token : token'[u] = NoSession \/ token'[u][3] = "UserSession"
        /\ faults' \in Nat
  <1>3. \A u \in DOMAIN token : token[u] = NoSession \/ token[u][3] = "UserSession"
    BY DEF Life
  <1>4. faults \in Nat /\ (Fault => faults' \in Nat)
    BY DEF Life, Fault
  <1>5. ASSUME NEW f \in Forms, Press(f) \/ \E n \in page[f].awaits : SendNext(f, n)
        PROVE  Kept
    BY <1>3, <1>4, <1>5, PressSends, NextSends DEF SentBy
  <1>6. ASSUME NEW f \in Forms, NEW n \in page[f].awaits,
               Succeed(f, n) \/ ShowError(f, n) \/ TimeOut(f, n)
        PROVE  Kept
    <2>1. faults' \in Nat
      BY <1>4, <1>6 DEF Succeed, ShowError, TimeOut
    <2> QED
      BY <1>6, <2>1, AnswerTaken
  <1>7. ASSUME UNCHANGED <<page, token>>, faults' \in Nat,
               \A q \in RequestIds : request'[q].phase = "none" <=> request[q].phase = "none"
        PROVE  Kept
    <2>1. ASSUME NEW g \in Forms
          PROVE  PageOK(g)'
      <3>1. \A m \in 1..FormOf[g].requests :
              request'[<<g, m>>].phase = "none" <=> request[<<g, m>>].phase = "none"
        BY <1>7 DEF Life
      <3> QED
        BY <1>7, <3>1, PageKept
    <2> QED
      BY <1>3, <1>7, <2>1
  <1> HIDE DEF Kept
  <1>8. ASSUME NEW q \in Running, Statement(q)
        PROVE  Kept
    <2>1. UNCHANGED <<page, token, faults>>
      BY <1>8, StatementFrame
    <2>2. ASSUME NEW p \in RequestIds
          PROVE  request'[p].phase = "none" <=> request[p].phase = "none"
      BY <1>8, StatementMoves, PhasesKept
    <2> QED
      BY <1>4, <1>7, <2>1, <2>2
  <1>9. ASSUME NEW q \in Running, Fail(q)
        PROVE  Kept
    <2>1. \A p \in RequestIds : request'[p].phase = "none" <=> request[p].phase = "none"
      BY <1>9 DEF Fail, CutOff, Ended, Idle, RequestIds
    <2>2. UNCHANGED <<page, token>> /\ faults' \in Nat
      BY <1>4, <1>9 DEF Fail
    <2> QED
      BY <1>7, <2>1, <2>2
  <1>10. ASSUME Stop
         PROVE  Kept
    <2>1. \A p \in RequestIds : request'[p].phase = "none" <=> request[p].phase = "none"
      BY <1>10 DEF Stop, CutOff, Ended, Idle, Running
    <2>2. UNCHANGED <<page, token>> /\ faults' \in Nat
      BY <1>4, <1>10 DEF Stop
    <2> QED
      BY <1>7, <2>1, <2>2
  <1>11. ASSUME NEW session, Expire(session)
         PROVE  Kept
    <2>1. UNCHANGED <<page, token, request>> /\ faults' \in Nat
      BY <1>4, <1>11 DEF Expire
    <2> QED
      BY <1>7, <2>1
  <1>12. ASSUME UNCHANGED vars
         PROVE  Kept
    <2>1. UNCHANGED <<page, token, request, faults>>
      BY <1>12 DEF vars
    <2> QED
      BY <1>4, <1>7, <2>1
  <1>13. Kept
    BY <1>5, <1>6, <1>8, <1>9, <1>10, <1>11, <1>12 DEF Next
  <1> QED
    BY <1>1, <1>2, <1>13 DEF Life, Forms, RequestIds, Kept

(***************************************************************************)
(* The rows.                                                               *)
(***************************************************************************)
LEMMA ReferenceFacts ==
  ASSUME NEW r \in References
  PROVE  /\ r.column \notin {"kind", "company", "currentVersionNo", "versionNo", "isDefault",
                            "expired"}
         /\ r.to \notin {"UserSession", "LeaveRequest", "AttendanceCorrection",
                         "DocumentVersion", "SignatureAsset"}
         /\ r.onDelete = "Cascade" =>
              \/ r.kind \in {"LeaveRequest", "AttendanceCorrection"} /\ r.to = "Employee"
              \/ r.kind \in {"DocumentVersion", "SignatureAsset"}
                 /\ r.to \in {"Document", "FileObject"}
         /\ r.kind = "DocumentVersion" =>
              \/ r.column = "document" /\ r.to = "Document"
              \/ r.column \in {"pdfFile", "attachments"} /\ r.to = "FileObject"
         /\ r.column = "attachments" => r.to = "FileObject"
         /\ r.kind = "Document" => r.column \in {"ownerEmployee", "template"}
  BY DEF References, OrganisationReferences, DocumentReferences, RequestReferences,
         ClaimReferences, FinanceReferences, JobReferences, PolicyReferences,
         Reference

LEMMA ReferencesOfRow ==
  ASSUME NEW row
  PROVE  ReferencesOf(row) = {r \in References : r.kind = row.kind}
  BY DEF ReferencesOf, ReferencesFrom

LEMMA NotNullColumns ==
  ASSUME NEW kind
  PROVE  {"kind", "company"} \subseteq NotNull(kind)
  BY DEF NotNull

\* Nothing a row refers to is lost or of another table in db2.
LEMMA IntactIn ==
  ASSUME NEW db, NEW db2, NEW row, Intact(db, row),
         \A r \in ReferencesOf(row) : \A i \in Referred(row, r.column) :
           i \in DOMAIN db => i \in DOMAIN db2 /\ db2[i].kind = db[i].kind
  PROVE  Intact(db2, row)
  BY DEF Intact

LEMMA StoredWellFormed ==
  ASSUME NEW db, WellFormed(db), NEW id, NEW row, Intact(db, row), row.kind = id[3],
         NotNull(id[3]) \subseteq DOMAIN row
  PROVE  WellFormed(Stored(db, id, row))
  <1> DEFINE new == Stored(db, id, row)
  <1>1. /\ DOMAIN new = DOMAIN db \cup {id} /\ new[id] = row
        /\ \A i \in DOMAIN db \ {id} : new[i] = db[i]
    BY DEF Stored
  <1>2. \A i \in DOMAIN db : new[i].kind = db[i].kind
    BY <1>1 DEF WellFormed
  <1> HIDE DEF new
  <1> SUFFICES ASSUME NEW i \in DOMAIN new
               PROVE  new[i].kind = i[3] /\ NotNull(i[3]) \subseteq DOMAIN new[i]
                      /\ Intact(new, new[i])
    BY DEF WellFormed, new
  <1>3. CASE i = id
    <2>1. Intact(new, row)
      BY <1>1, <1>2, IntactIn
    <2> QED
      BY <1>1, <1>3, <2>1
  <1>4. CASE i # id
    <2>1. i \in DOMAIN db /\ new[i] = db[i]
      BY <1>1, <1>4
    <2>2. Intact(new, db[i])
      BY <1>1, <1>2, <2>1, IntactIn DEF WellFormed
    <2> QED
      BY <2>1, <2>2 DEF WellFormed
  <1> QED
    BY <1>3, <1>4

\* What is left when a session, an employee or a department is deleted.
Rest(db, id) == DOMAIN db \ ({id} \cup Referring(db, id, "Cascade"))

LEMMA GoingAlong ==
  ASSUME NEW db, WellFormed(db), NEW id, id[3] \in {"UserSession", "Employee", "Department"},
         NEW i \in Referring(db, id, "Cascade")
  PROVE  i[3] \in {"LeaveRequest", "AttendanceCorrection"} /\ id[3] = "Employee"
  <1>1. i \in DOMAIN db
    BY DEF Referring
  <1>2. PICK r \in ReferencesOf(db[i]) : r.onDelete = "Cascade" /\ id \in Referred(db[i], r.column)
    BY DEF Referring
  <1>3. r \in References /\ r.kind = db[i].kind /\ db[i].kind = i[3]
    BY <1>1, ReferencesOfRow DEF WellFormed
  <1>4. id \in DOMAIN db /\ db[id].kind = r.to /\ db[id].kind = id[3]
    BY <1>1, <1>2 DEF WellFormed, Intact
  <1> QED
    BY <1>2, <1>3, <1>4, ReferenceFacts

LEMMA WithoutRows ==
  ASSUME NEW db, WellFormed(db), NEW id, id[3] \in {"UserSession", "Employee", "Department"}
  PROVE  /\ DOMAIN Without(db, id) = Rest(db, id)
         /\ \A i \in Rest(db, id) :
              /\ DOMAIN Without(db, id)[i] = DOMAIN db[i]
              /\ \A c \in DOMAIN db[i] :
                   IF \E r \in References : r.kind = db[i].kind /\ r.column = c
                   THEN Without(db, id)[i][c] = db[i][c] \ {id}
                   ELSE Without(db, id)[i][c] = db[i][c]
              /\ Without(db, id)[i].kind = i[3]
              /\ Without(db, id)[i].company = db[i].company
  <1>1. DOMAIN Without(db, id) = Rest(db, id)
    BY DEF Without, Rest
  <1> SUFFICES ASSUME NEW i \in Rest(db, id)
               PROVE  /\ DOMAIN Without(db, id)[i] = DOMAIN db[i]
                      /\ \A c \in DOMAIN db[i] :
                           IF \E r \in References : r.kind = db[i].kind /\ r.column = c
                           THEN Without(db, id)[i][c] = db[i][c] \ {id}
                           ELSE Without(db, id)[i][c] = db[i][c]
                      /\ Without(db, id)[i].kind = i[3]
                      /\ Without(db, id)[i].company = db[i].company
    BY <1>1
  <1>2. i \in DOMAIN db
    BY DEF Rest
  <1>3. /\ DOMAIN Without(db, id)[i] = DOMAIN db[i]
        /\ \A c \in DOMAIN db[i] :
             Without(db, id)[i][c] = IF c \in {r.column : r \in ReferencesOf(db[i])}
                                     THEN db[i][c] \ {id} ELSE db[i][c]
    BY DEF Without, Rest
  <1>4. \A c : c \in {r.column : r \in ReferencesOf(db[i])} <=>
                 \E r \in References : r.kind = db[i].kind /\ r.column = c
    BY ReferencesOfRow
  <1>5. {"kind", "company"} \subseteq DOMAIN db[i] /\ db[i].kind = i[3]
    BY <1>2, NotNullColumns DEF WellFormed
  <1>6. Without(db, id)[i].kind = i[3] /\ Without(db, id)[i].company = db[i].company
    <2>1. \A c \in {"kind", "company"} : c \notin {r.column : r \in ReferencesOf(db[i])}
      BY <1>4, ReferenceFacts
    <2> QED
      BY <1>3, <1>5, <2>1
  <1> QED
    BY <1>3, <1>4, <1>6

LEMMA WithoutWellFormed ==
  ASSUME NEW db, WellFormed(db), NEW id, id[3] \in {"UserSession", "Employee", "Department"}
  PROVE  WellFormed(Without(db, id))
  <1> DEFINE new == Without(db, id)
  <1>1. DOMAIN new = Rest(db, id)
    BY WithoutRows
  <1>0. Rest(db, id) \subseteq DOMAIN db
    BY DEF Rest
  <1> SUFFICES ASSUME NEW i \in DOMAIN new
               PROVE  new[i].kind = i[3] /\ NotNull(i[3]) \subseteq DOMAIN new[i]
                      /\ Intact(new, new[i])
    BY DEF WellFormed
  <1>2. /\ new[i].kind = i[3] /\ DOMAIN new[i] = DOMAIN db[i] /\ i \in DOMAIN db
        /\ db[i].kind = i[3]
    BY <1>0, <1>1, WithoutRows DEF WellFormed
  <1>3. ASSUME NEW r \in ReferencesOf(new[i]), NEW j \in Referred(new[i], r.column)
        PROVE  j \in DOMAIN new /\ new[j].kind = r.to
    <2>1. r \in References /\ r.kind = db[i].kind /\ r \in ReferencesOf(db[i])
      BY <1>2, ReferencesOfRow
    <2>2. r.column \in DOMAIN db[i] /\ j \in db[i][r.column] \ {id}
      BY <1>1, <1>2, <1>3, <2>1, WithoutRows DEF Referred
    <2>3. j \in DOMAIN db /\ db[j].kind = r.to /\ db[j].kind = j[3]
      BY <1>2, <2>1, <2>2 DEF WellFormed, Intact, Referred
    <2>4. j \notin Referring(db, id, "Cascade")
      <3> SUFFICES ASSUME j \in Referring(db, id, "Cascade")
                   PROVE  FALSE
        OBVIOUS
      <3>1. j[3] \in {"LeaveRequest", "AttendanceCorrection"}
        BY GoingAlong
      <3> QED
        BY <2>1, <2>3, <3>1, ReferenceFacts
    <2> QED
      BY <1>1, <2>2, <2>3, <2>4, WithoutRows DEF Rest
  <1> QED
    BY <1>2, <1>3 DEF WellFormed, Intact

\* A row that is changed in place.
LEMMA ChangedWellFormed ==
  ASSUME NEW db, WellFormed(db), NEW db2, DOMAIN db2 = DOMAIN db,
         \A i \in DOMAIN db :
           /\ db2[i].kind = db[i].kind /\ DOMAIN db[i] \subseteq DOMAIN db2[i]
           /\ Intact(db, db2[i])
  PROVE  WellFormed(db2)
  <1> SUFFICES ASSUME NEW i \in DOMAIN db
               PROVE  db2[i].kind = i[3] /\ NotNull(i[3]) \subseteq DOMAIN db2[i]
                      /\ Intact(db2, db2[i])
    BY DEF WellFormed
  <1>1. Intact(db2, db2[i])
    BY IntactIn
  <1> QED
    BY <1>1 DEF WellFormed

LEMMA SetColumn ==
  ASSUME NEW db, NEW row, Intact(db, row), NEW column, NEW value,
         column # "kind", \A r \in ReferencesOf(row) : r.column # column
  PROVE  LET new == [row EXCEPT ![column] = value]
         IN  new.kind = row.kind /\ DOMAIN new = DOMAIN row /\ Intact(db, new)
  <1> DEFINE new == [row EXCEPT ![column] = value]
  <1>1. /\ new.kind = row.kind /\ DOMAIN new = DOMAIN row
        /\ \A c \in DOMAIN row \ {column} : new[c] = row[c]
    OBVIOUS
  <1> HIDE DEF new
  <1>2. \A r \in ReferencesOf(new) : r \in ReferencesOf(row)
                                     /\ Referred(new, r.column) = Referred(row, r.column)
    BY <1>1, ReferencesOfRow DEF Referred
  <1>3. Intact(db, new)
    BY <1>2 DEF Intact
  <1> QED
    BY <1>1, <1>3 DEF new

LEMMA WithoutSession ==
  ASSUME NEW db, WellFormed(db), NEW gone, \A i \in gone : i[3] = "UserSession"
  PROVE  WellFormed([i \in DOMAIN db \ gone |-> db[i]])
  <1> DEFINE new == [i \in DOMAIN db \ gone |-> db[i]]
  <1>1. DOMAIN new = DOMAIN db \ gone /\ \A i \in DOMAIN new : new[i] = db[i]
    OBVIOUS
  <1> HIDE DEF new
  <1>2. ASSUME NEW i \in DOMAIN new
        PROVE  Intact(new, new[i])
    <2>1. ASSUME NEW r \in ReferencesOf(db[i]), NEW j \in Referred(db[i], r.column), j \in DOMAIN db
          PROVE  j \in DOMAIN new /\ new[j].kind = db[j].kind
      <3>1. db[j].kind = r.to /\ db[j].kind = j[3]
        BY <1>1, <2>1 DEF WellFormed, Intact
      <3>2. r.to # "UserSession"
        BY ReferencesOfRow, ReferenceFacts
      <3> QED
        BY <1>1, <2>1, <3>1, <3>2
    <2> QED
      BY <1>1, <2>1, IntactIn DEF WellFormed
  <1> QED
    BY <1>1, <1>2 DEF WellFormed, new

\* What a running request may rely on once its checks are behind it.
Knows(q) ==
  LET r == request[q]
  IN  r.phase = "running" =>
        /\ r.op \in Changing \cup Removing /\ r.at >= 3 =>
             TargetOf(q)[3] = Handlers[r.op].kind
        /\ r.op \in {"addVersion", "renderPdf"} /\ r.at >= 3 => TargetOf(q) \in Of("Document")
        /\ r.op \in Drafting \cup {"addVersion"} /\ r.at >= 3 =>
             Referred(r.columns, "attachments") \subseteq Of("FileObject")
        /\ r.op \in Filing /\ r.at > FilePlace(r.op) =>
             r.row = NewId(q, "FileObject") /\ r.row \in DOMAIN rows

\* The inductive invariant of the rows.
RowsOK ==
  /\ \A i \in DOMAIN rows : i = <<i[1], i[2], i[3]>>
  /\ WellFormed(rows)
  /\ \A q \in RequestIds : Knows(q)

LEMMA RowsInit == Init => RowsOK
  <1> SUFFICES ASSUME Init PROVE RowsOK
    OBVIOUS
  <1>1. PICK desk \in Desks :
          /\ rows = desk.rows
          /\ request = [q \in UNION {{f} \X (1..FormOf[f].requests) : f \in desk.forms} |-> Idle]
    BY DEF Init
  <1>2. ASSUME NEW q \in RequestIds
        PROVE  Knows(q)
    <2>1. request[q] = Idle
      BY <1>1 DEF RequestIds
    <2> QED
      BY <2>1, IdleFields DEF Knows
  <1> QED
    BY <1>1, <1>2, DesksAssumption DEF RowsOK

LEMMA WhichStatement ==
  ASSUME NEW q, Statement(q)
  PROVE  LET s == Does(request[q].op)[request[q].at]
         IN  /\ s = "authenticate" => Authenticate(q)
             /\ s = "guard" => Admit(q) \/ TurnAway(q)
             /\ s = "check" => Check(q)
             /\ s = "number" => Number(q)
             /\ s = "insert" => Insert(q)
             /\ s = "join" => Join(q)
             /\ s = "update" => Update(q)
             /\ s = "delete" => Delete(q)
             /\ s = "endSession" => EndSession(q)
             /\ s = "clear" => Clear(q)
             /\ s = "draft" => Draft(q)
             /\ s = "version" => Version(q)
             /\ s = "render" => Render(q)
             /\ s = "put" => Put(q)
             /\ s = "file" => File(q)
             /\ s = "link" => Link(q)
             /\ s \in {"audit", "auditFile", "auditDraft"} => Audit(q)
             /\ s = "answer" => Answer(q)
  <1> DEFINE s == Does(request[q].op)[request[q].at]
  <1>1. /\ Authenticate(q) => s = "authenticate"
        /\ Admit(q) \/ TurnAway(q) => s = "guard"
        /\ Check(q) => s = "check"
        /\ Number(q) => s = "number"
        /\ Insert(q) => s = "insert"
    BY DEF Authenticate, Admit, TurnAway, Check, Number, Insert, At, HandlerOf, Does
  <1>2. /\ Join(q) => s = "join"
        /\ Update(q) => s = "update"
        /\ Delete(q) => s = "delete"
        /\ EndSession(q) => s = "endSession"
        /\ Clear(q) => s = "clear"
    BY DEF Join, Update, Delete, EndSession, Clear, At, HandlerOf, Does
  <1>3. /\ Draft(q) => s = "draft"
        /\ Version(q) => s = "version"
        /\ Render(q) => s = "render"
        /\ Put(q) => s = "put"
        /\ File(q) => s = "file"
        /\ Link(q) => s = "link"
        /\ Audit(q) => s \in {"audit", "auditFile", "auditDraft"}
        /\ Answer(q) => s = "answer"
    BY DEF Draft, Version, Render, Put, File, Link, LinkTo, Audit, Answer, At, HandlerOf, Does
  <1> HIDE DEF s
  <1>4. /\ s = "authenticate" => Authenticate(q)
        /\ s = "guard" => Admit(q) \/ TurnAway(q)
        /\ s = "check" => Check(q)
        /\ s = "number" => Number(q)
        /\ s = "insert" => Insert(q)
        /\ s = "join" => Join(q)
        /\ s = "update" => Update(q)
        /\ s = "delete" => Delete(q)
        /\ s = "endSession" => EndSession(q)
    BY <1>1, <1>2, <1>3 DEF Statement
  <1>5. /\ s = "clear" => Clear(q)
        /\ s = "draft" => Draft(q)
        /\ s = "version" => Version(q)
        /\ s = "render" => Render(q)
        /\ s = "put" => Put(q)
        /\ s = "file" => File(q)
        /\ s = "link" => Link(q)
        /\ s \in {"audit", "auditFile", "auditDraft"} => Audit(q)
        /\ s = "answer" => Answer(q)
    BY <1>1, <1>2, <1>3 DEF Statement
  <1> QED
    BY <1>4, <1>5 DEF s

\* A request that goes on was not refused, and knows what its statement has it know.
LEMMA GoingOn ==
  ASSUME NEW q \in RequestIds, Goes(q)
  PROVE  /\ ~Refuse(q)
         /\ \A r : Proceed(q, r) /\ r.at = request[q].at => request'[q] = [r EXCEPT !.at = @ + 1]
  <1>1. ~Refuse(q)
    <2> SUFFICES ASSUME Refuse(q) PROVE FALSE
      OBVIOUS
    <2>1. request'[q] = Ended(request[q], "error")
      BY DEF Refuse, RequestIds
    <2>2. request'[q].phase = "error"
      BY <2>1, EndedFields
    <2> QED
      BY <2>2 DEF Goes
  <1>2. ASSUME NEW r, Proceed(q, r), r.at = request[q].at
        PROVE  request'[q] = [r EXCEPT !.at = @ + 1]
    BY <1>2 DEF Proceed, Goes, HandlerOf, Does, RequestIds
  <1> QED
    BY <1>1, <1>2

\* The fields of a request that goes on.
LEMMA GoingOnFields ==
  ASSUME NEW q \in RequestIds, RequestOK(q), Goes(q)
  PROVE  LET s == Does(request[q].op)[request[q].at]
             new == request'[q]
         IN  /\ new.phase = "running" /\ new.op = request[q].op /\ new.at = request[q].at + 1
             /\ new.session = request[q].session /\ new.cut = request[q].cut
             /\ s # "check" => new.columns = request[q].columns
                               /\ new.employee = request[q].employee
             /\ s \notin {"check", "guard"} => new.company = request[q].company
             /\ s # "guard" => new.role = request[q].role
                               /\ new.companies = request[q].companies
             /\ s \notin {"authenticate", "guard"} => new.user = request[q].user
             /\ s \notin {"check", "number"} => new.no = request[q].no
             /\ s # "render" => new.content = request[q].content
             /\ s \notin {"insert", "update", "delete", "endSession", "draft", "version", "file"}
                  => new.row = request[q].row
             /\ request[q].op \in Ops /\ TableEntry(request[q].op)
             /\ StatementAt(request[q].op, request[q].at)
             /\ request[q].at \in 1..8
  <1>1. PICK r : Learns(q, r) /\ request'[q] = [r EXCEPT !.at = @ + 1]
    BY DEF Goes
  <1>2. /\ request[q].op \in Ops /\ request[q].at \in 1..Len(Does(request[q].op))
        /\ request[q].phase = "running"
    BY DEF Goes, RequestOK
  <1>3. TableEntry(request[q].op) /\ StatementAt(request[q].op, request[q].at)
    BY <1>2, StatementsOfTable
  <1>4. request[q].at \in 1..8
    <2>1. \A m \in 2..8 : 1..m \subseteq 1..8
      OBVIOUS
    <2> QED
      BY <1>2, <1>3, <2>1 DEF TableEntry
  <1>5. DOMAIN r = DOMAIN Idle
    BY <1>1 DEF Learns
  <1>6. /\ \A c \in DOMAIN Idle \ {"at"} : request'[q][c] = r[c]
        /\ request'[q].at = r.at + 1
    BY <1>1, <1>5 DEF Idle
  <1>7. DOMAIN Idle = {"phase", "op", "at", "session", "columns", "user", "role", "companies",
                       "company", "employee", "no", "content", "row", "cut"}
    BY DEF Idle
  <1> QED
    BY <1>1, <1>2, <1>3, <1>4, <1>6, <1>7 DEF Learns

\* What a step does to the rows.
RowsGoOn ==
  /\ \A i \in DOMAIN rows' : i = <<i[1], i[2], i[3]>>
  /\ WellFormed(rows')
  /\ \A i \in DOMAIN rows \ DOMAIN rows' : i[3] \in ErasableKinds

Writes(q) ==
  \/ TurnAway(q) \/ Insert(q) \/ Join(q) \/ Update(q) \/ Delete(q) \/ EndSession(q)
  \/ Clear(q) \/ Draft(q) \/ Version(q) \/ File(q) \/ Link(q)

LEMMA RowsMove ==
  ASSUME [Next]_vars
  PROVE  \/ UNCHANGED rows
         \/ \E q \in Running : Statement(q) /\ Writes(q)
         \/ \E session \in Of("UserSession") : Expire(session)
  <1>1. ASSUME NEW q, Statement(q)
        PROVE  UNCHANGED rows \/ Writes(q)
    BY <1>1 DEF Statement, Writes, Authenticate, Admit, Check, Number, Render, Put, Audit, Answer,
                OnlyRequests, stored
  <1>2. ASSUME NEW f \in Forms,
               \/ Press(f)
               \/ \E n \in page[f].awaits :
                    SendNext(f, n) \/ Succeed(f, n) \/ ShowError(f, n) \/ TimeOut(f, n)
        PROVE  UNCHANGED rows
    BY <1>2 DEF Press, SendNext, Succeed, ShowError, TimeOut, stored
  <1>3. ASSUME NEW q, Fail(q)
        PROVE  UNCHANGED rows
    BY <1>3 DEF Fail, stored
  <1>4. CASE Stop
    BY <1>4 DEF Stop, stored
  <1>5. CASE UNCHANGED vars
    BY <1>5 DEF vars, stored
  <1> QED
    BY <1>1, <1>2, <1>3, <1>4, <1>5 DEF Next

LEMMA UnchangedRows ==
  ASSUME RowsOK, UNCHANGED rows
  PROVE  RowsGoOn
  BY DEF RowsOK, RowsGoOn

\* A row that is written whole.
LEMMA RowWritten ==
  ASSUME RowsOK, NEW id, id = <<id[1], id[2], id[3]>>, NEW row, row.kind = id[3],
         NotNull(id[3]) \subseteq DOMAIN row, Intact(rows, row), rows' = Stored(rows, id, row)
  PROVE  RowsGoOn
  <1>1. WellFormed(rows')
    BY StoredWellFormed DEF RowsOK
  <1>2. DOMAIN rows' = DOMAIN rows \cup {id}
    BY DEF Stored
  <1> QED
    BY <1>1, <1>2 DEF RowsOK, RowsGoOn

LEMMA RowsOfWrite ==
  ASSUME RowsOK, NEW q, NEW id, id = <<id[1], id[2], id[3]>>, NEW row, row.kind = id[3],
         NotNull(id[3]) \subseteq DOMAIN row, NEW r, Write(q, id, row, r)
  PROVE  RowsGoOn
  BY UnchangedRows, RowWritten DEF Write, Storable

LEMMA NewIds ==
  ASSUME NEW q, NEW kind
  PROVE  LET id == NewId(q, kind)
         IN  id = <<id[1], id[2], id[3]>> /\ id[1] = q[1] /\ id[2] = q[2] /\ id[3] = kind
  BY DEF NewId

LEMMA NewRows ==
  ASSUME NEW q \in RequestIds, {"kind", "company"} \cap DOMAIN request[q].columns = {}
  PROVE  /\ NewRow(q).kind = HandlerOf(q).kind
         /\ {"kind", "company"} \subseteq DOMAIN NewRow(q)
         /\ HandlerOf(q).kind \notin {"UserSession", "Company"} =>
              NewRow(q).company = request[q].company
  <1> DEFINE kind == HandlerOf(q).kind
             columns == [c \in DOMAIN request[q].columns \ {"attachments"} |->
                           request[q].columns[c]]
             common == Over([kind |-> kind, company |-> request[q].company], columns)
  <1>1. /\ common.kind = kind /\ common.company = request[q].company
        /\ {"kind", "company"} \subseteq DOMAIN common
    BY DEF Over
  <1> HIDE DEF common
  <1>2. ASSUME NEW more, DOMAIN more \cap {"kind"} = {}
        PROVE  /\ Over(more, common).kind = kind
               /\ {"kind", "company"} \subseteq DOMAIN Over(more, common)
               /\ "company" \notin DOMAIN more => Over(more, common).company = request[q].company
    BY <1>1, <1>2 DEF Over
  <1>3. CASE kind = "UserSession"
    BY <1>3 DEF NewRow
  <1>4. CASE kind = "Company"
    <2>1. NewRow(q) = Over([company |-> NewId(q, kind)], common)
      BY <1>4 DEF NewRow, common
    <2> QED
      BY <1>2, <1>4, <2>1
  <1>5. CASE kind = "Employee"
    <2>1. NewRow(q) = Over([user |-> "", employmentStatus |-> "ACTIVE"], common)
      BY <1>5 DEF NewRow, common
    <2> DEFINE more == [user |-> "", employmentStatus |-> "ACTIVE"]
    <2>2. DOMAIN more \cap {"kind"} = {} /\ "company" \notin DOMAIN more
      OBVIOUS
    <2> HIDE DEF more
    <2>3. /\ Over(more, common).kind = kind
          /\ {"kind", "company"} \subseteq DOMAIN Over(more, common)
          /\ Over(more, common).company = request[q].company
      BY <1>2, <2>2
    <2> QED
      BY <2>1, <2>3 DEF more
  <1>6. CASE kind = "ExpenseClaim"
    <2>1. NewRow(q) = Over([employee |-> request[q].employee], common)
      BY <1>6 DEF NewRow, common
    <2> QED
      BY <1>2, <2>1
  <1>7. CASE kind \in {"LeaveRequest", "AttendanceCorrection"}
    <2>1. NewRow(q) = Over([employee |-> request[q].employee,
                            document |-> {NewId(q, "Document")}], common)
      BY <1>7 DEF NewRow, common
    <2> QED
      BY <1>2, <2>1
  <1>8. CASE kind = "JournalEntry"
    <2>1. NewRow(q) = Over([number |-> request[q].no], common)
      BY <1>8 DEF NewRow, common
    <2> QED
      BY <1>2, <2>1
  <1>9. CASE kind = "ShiftPolicy"
    <2>1. NewRow(q) = Over([version |-> request[q].no], common)
      BY <1>9 DEF NewRow, common
    <2> QED
      BY <1>2, <2>1
  <1>10. CASE kind = "SignatureAsset"
    <2>1. NewRow(q) = Over([owner |-> request[q].user], common)
      BY <1>10 DEF NewRow, common
    <2> QED
      BY <1>2, <2>1
  <1>11. CASE kind \notin {"UserSession", "Company", "Employee", "ExpenseClaim", "LeaveRequest",
                           "AttendanceCorrection", "JournalEntry", "ShiftPolicy",
                           "SignatureAsset"}
    <2>1. NewRow(q) = common
      BY <1>11 DEF NewRow, common
    <2> QED
      BY <1>1, <2>1
  <1> QED
    BY <1>3, <1>4, <1>5, <1>6, <1>7, <1>8, <1>9, <1>10, <1>11

\* What Life and RowsOK say of a request that runs a statement.
LEMMA RunningFacts ==
  ASSUME Life, NEW q \in Running
  PROVE  /\ q \in RequestIds /\ RequestOK(q) /\ request[q].phase = "running"
         /\ request[q].op \in Ops /\ TableEntry(request[q].op)
         /\ StatementAt(request[q].op, request[q].at) /\ request[q].at \in 1..8
         /\ request[q].at \in 1..Len(Does(request[q].op))
         /\ {"kind", "company"} \cap DOMAIN request[q].columns = {}
  <1>1. q \in RequestIds /\ RequestOK(q) /\ request[q].phase = "running"
    BY DEF Running, Life
  <1>2. TableEntry(request[q].op) /\ request[q].at \in 1..Len(Does(request[q].op))
    BY <1>1, HandlerTable DEF RequestOK
  <1>3. \A m \in 2..8 : 1..m \subseteq 1..8
    OBVIOUS
  <1> QED
    BY <1>1, <1>2, <1>3 DEF RequestOK, TableEntry

LEMMA InsertFacts ==
  ASSUME Life, NEW q \in Running, Insert(q)
  PROVE  LET kind == HandlerOf(q).kind
         IN  /\ kind \notin {"Document", "DocumentVersion", "FileObject", "CompanyMembership"}
             /\ Write(q, NewId(q, kind), NewRow(q), [request[q] EXCEPT !.row = NewId(q, kind)])
             /\ Does(request[q].op)[request[q].at] = "insert"
             /\ request[q].at = InsertPlace(request[q].op)
  BY RunningFacts DEF Insert, At, HandlerOf, Does, StatementAt

LEMMA InsertRows ==
  ASSUME Life, RowsOK, NEW q \in Running, Insert(q)
  PROVE  RowsGoOn
  <1> DEFINE kind == HandlerOf(q).kind
             id == NewId(q, kind)
  <1>1. /\ kind \notin {"Document", "DocumentVersion"}
        /\ Write(q, id, NewRow(q), [request[q] EXCEPT !.row = id])
    BY InsertFacts
  <1>2. NewRow(q).kind = kind /\ {"kind", "company"} \subseteq DOMAIN NewRow(q)
    BY RunningFacts, NewRows
  <1>3. id = <<id[1], id[2], id[3]>> /\ id[3] = kind
    BY NewIds
  <1> HIDE DEF kind, id
  <1>4. NotNull(kind) = {"kind", "company"}
    BY <1>1 DEF NotNull
  <1> QED
    BY <1>1, <1>2, <1>3, <1>4, RowsOfWrite

LEMMA JoinRows ==
  ASSUME Life, RowsOK, NEW q \in Running, Join(q)
  PROVE  RowsGoOn
  <1> DEFINE row == [kind |-> "CompanyMembership", company |-> request[q].row,
                     user |-> request[q].user, role |-> "SUPER_ADMIN"]
             id == NewId(q, "CompanyMembership")
  <1>1. Write(q, id, row, request[q])
    BY DEF Join
  <1>2. row.kind = "CompanyMembership" /\ NotNull("CompanyMembership") \subseteq DOMAIN row
    BY DEF NotNull
  <1>3. id = <<id[1], id[2], id[3]>> /\ id[3] = "CompanyMembership"
    BY NewIds
  <1> HIDE DEF id, row
  <1> QED
    BY <1>1, <1>2, <1>3, RowsOfWrite

LEMMA FileRows ==
  ASSUME Life, RowsOK, NEW q \in Running, File(q)
  PROVE  RowsGoOn
  <1> DEFINE row == [kind |-> "FileObject", company |-> request[q].company]
             id == NewId(q, "FileObject")
  <1>1. Write(q, id, row, [request[q] EXCEPT !.row = id])
    BY DEF File
  <1>2. row.kind = "FileObject" /\ NotNull("FileObject") \subseteq DOMAIN row
    BY DEF NotNull
  <1>3. id = <<id[1], id[2], id[3]>> /\ id[3] = "FileObject"
    BY NewIds
  <1> HIDE DEF id, row
  <1> QED
    BY <1>1, <1>2, <1>3, RowsOfWrite

LEMMA UpdateRows ==
  ASSUME Life, RowsOK, NEW q \in Running, Update(q)
  PROVE  RowsGoOn
  <1> DEFINE id == TargetOf(q)
             row == Over(request[q].columns, rows[id])
  <1>1. CASE id \in DOMAIN rows
    <2>1. Write(q, id, row, [request[q] EXCEPT !.row = id])
      BY <1>1 DEF Update
    <2>2. rows[id].kind = id[3] /\ NotNull(id[3]) \subseteq DOMAIN rows[id]
      BY <1>1 DEF RowsOK, WellFormed
    <2>3. {"kind", "company"} \subseteq DOMAIN rows[id]
      BY <2>2, NotNullColumns
    <2>4. row.kind = id[3] /\ DOMAIN rows[id] \subseteq DOMAIN row
      BY <2>2, <2>3, RunningFacts DEF Over
    <2>5. id = <<id[1], id[2], id[3]>>
      BY <1>1 DEF RowsOK
    <2> HIDE DEF id, row
    <2>6. NotNull(id[3]) \subseteq DOMAIN row
      BY <2>2, <2>4
    <2> QED
      BY <2>1, <2>4, <2>5, <2>6, RowsOfWrite
  <1>2. CASE id \notin DOMAIN rows
    BY <1>2, UnchangedRows DEF Update
  <1> QED
    BY <1>1, <1>2

LEMMA TurnAwayRows ==
  ASSUME Life, RowsOK, NEW q \in Running, TurnAway(q)
  PROVE  RowsGoOn
  <1> DEFINE session == request[q].session
             gone == IF Live(session) THEN {} ELSE {session} \cap DOMAIN rows
  <1>1. rows' = [i \in DOMAIN rows \ gone |-> rows[i]]
    BY DEF TurnAway
  <1>2. \A i \in gone : i[3] = "UserSession"
    BY RunningFacts DEF RequestOK, RowsOK, NoSession
  <1> HIDE DEF gone
  <1>3. WellFormed(rows')
    BY <1>1, <1>2, WithoutSession DEF RowsOK
  <1> QED
    BY <1>1, <1>2, <1>3 DEF RowsOK, RowsGoOn, ErasableKinds

\* The rows that go with the one that is deleted.
LEMMA WithoutGoesOn ==
  ASSUME RowsOK, NEW id, id[3] \in {"UserSession", "Employee", "Department"},
         rows' = Without(rows, id)
  PROVE  RowsGoOn
  <1>1. WellFormed(rows')
    BY WithoutWellFormed DEF RowsOK
  <1>2. DOMAIN rows' = Rest(rows, id)
    BY WithoutRows DEF RowsOK
  <1>3. ASSUME NEW i \in DOMAIN rows, i \notin DOMAIN rows'
        PROVE  i[3] \in ErasableKinds
    <2>1. i = id \/ i \in Referring(rows, id, "Cascade")
      BY <1>2, <1>3 DEF Rest
    <2>2. i \in Referring(rows, id, "Cascade") => i[3] \in {"LeaveRequest", "AttendanceCorrection"}
      BY GoingAlong DEF RowsOK
    <2> QED
      BY <2>1, <2>2 DEF ErasableKinds
  <1> QED
    BY <1>1, <1>2, <1>3 DEF RowsOK, RowsGoOn, Rest

LEMMA DeleteRows ==
  ASSUME Life, RowsOK, NEW q \in Running, Delete(q)
  PROVE  RowsGoOn
  <1>0. /\ Does(request[q].op)[request[q].at] = "delete" /\ q \in RequestIds
        /\ request[q].phase = "running"
    BY RunningFacts DEF Delete, At, HandlerOf, Does
  <1>1. /\ request[q].op \in Removing /\ request[q].at = 3
        /\ Handlers[request[q].op].kind \in {"Department", "Employee"}
    BY <1>0, RunningFacts DEF StatementAt, TableEntry
  <1>2. TargetOf(q)[3] \in {"Department", "Employee"}
    BY <1>0, <1>1 DEF RowsOK, Knows
  <1> QED
    BY <1>2, UnchangedRows, WithoutGoesOn DEF Delete

LEMMA EndSessionRows ==
  ASSUME Life, RowsOK, NEW q \in Running, EndSession(q)
  PROVE  RowsGoOn
  <1> DEFINE session == request[q].session
  <1>1. CASE session \in DOMAIN rows
    <2>1. session[3] = "UserSession"
      BY <1>1, RunningFacts DEF RequestOK, RowsOK, NoSession
    <2> QED
      BY <1>1, <2>1, WithoutGoesOn DEF EndSession
  <1>2. CASE session \notin DOMAIN rows
    BY <1>2, UnchangedRows DEF EndSession
  <1> QED
    BY <1>1, <1>2

\* A row that is changed in place and still refers to what there is.
LEMMA ChangedGoesOn ==
  ASSUME RowsOK, DOMAIN rows' = DOMAIN rows,
         \A i \in DOMAIN rows :
           /\ rows'[i].kind = rows[i].kind /\ DOMAIN rows[i] \subseteq DOMAIN rows'[i]
           /\ Intact(rows, rows'[i])
  PROVE  RowsGoOn
  <1>1. WellFormed(rows')
    BY ChangedWellFormed DEF RowsOK
  <1> QED
    BY <1>1 DEF RowsOK, RowsGoOn

LEMMA ClearRows ==
  ASSUME Life, RowsOK, NEW q \in Running, Clear(q)
  PROVE  RowsGoOn
  <1>1. CASE UNCHANGED rows
    BY <1>1, UnchangedRows
  <1>2. CASE rows' # rows
    <2>1. PICK others \in SUBSET Of("SignatureAsset") :
            rows' = [i \in DOMAIN rows |-> IF i \in others
                                           THEN [rows[i] EXCEPT !.isDefault = FALSE]
                                           ELSE rows[i]]
      BY <1>2 DEF Clear
    <2>2. ASSUME NEW i \in DOMAIN rows
          PROVE  /\ rows'[i].kind = rows[i].kind /\ DOMAIN rows[i] \subseteq DOMAIN rows'[i]
                 /\ Intact(rows, rows'[i])
      <3>1. Intact(rows, rows[i]) /\ rows[i].kind = i[3]
        BY DEF RowsOK, WellFormed
      <3>2. \A r \in ReferencesOf(rows[i]) : r.column # "isDefault"
        BY ReferencesOfRow, ReferenceFacts
      <3>3. CASE i \in others
        <4>1. rows'[i] = [rows[i] EXCEPT !["isDefault"] = FALSE]
          BY <2>1, <3>3
        <4> QED
          BY <3>1, <3>2, <4>1, SetColumn
      <3>4. CASE i \notin others
        BY <2>1, <3>1, <3>4
      <3> QED
        BY <3>3, <3>4
    <2>3. DOMAIN rows' = DOMAIN rows
      BY <2>1
    <2> QED
      BY <2>2, <2>3, ChangedGoesOn
  <1> QED
    BY <1>1, <1>2

LEMMA ExpireRows ==
  ASSUME RowsOK, NEW session, Expire(session)
  PROVE  RowsGoOn
  <1>1. session \in DOMAIN rows /\ rows' = [rows EXCEPT ![session].expired = TRUE]
    BY DEF Expire, Live
  <1>2. ASSUME NEW i \in DOMAIN rows
        PROVE  /\ rows'[i].kind = rows[i].kind /\ DOMAIN rows[i] \subseteq DOMAIN rows'[i]
               /\ Intact(rows, rows'[i])
    <2>1. Intact(rows, rows[i])
      BY DEF RowsOK, WellFormed
    <2>2. \A r \in ReferencesOf(rows[i]) : r.column # "expired"
      BY ReferencesOfRow, ReferenceFacts
    <2>3. CASE i = session
      <3> DEFINE new == [rows[i] EXCEPT !["expired"] = TRUE]
      <3>1. rows'[i] = new
        BY <1>1, <2>3
      <3>2. new.kind = rows[i].kind /\ DOMAIN new = DOMAIN rows[i] /\ Intact(rows, new)
        BY <2>1, <2>2, SetColumn
      <3> HIDE DEF new
      <3> QED
        BY <3>1, <3>2
    <2>4. CASE i # session
      BY <1>1, <2>1, <2>4
    <2> QED
      BY <2>3, <2>4
  <1> QED
    BY <1>1, <1>2, ChangedGoesOn

LEMMA VersionRows ==
  ASSUME Life, RowsOK, NEW q \in Running, Version(q)
  PROVE  RowsGoOn
  <1> DEFINE d == TargetOf(q)
             v == NewId(q, "DocumentVersion")
             row == VersionRow(q, d, request[q].no)
             middle == [rows EXCEPT ![d].currentVersionNo = request[q].no]
  <1>1. CASE UNCHANGED rows
    BY <1>1, UnchangedRows
  <1>2. CASE rows' # rows
    <2>0. /\ request[q].op = "addVersion" /\ request[q].at = 3 /\ q \in RequestIds
          /\ request[q].phase = "running"
      BY RunningFacts DEF Version, At, HandlerOf, Does, StatementAt
    <2>1. d \in DOMAIN rows /\ d[3] = "Document"
      BY <2>0 DEF RowsOK, Knows, Of, OfKind
    <2>2. \A i \in row.attachments : i \in DOMAIN rows /\ rows[i].kind = "FileObject"
      BY <2>0 DEF RowsOK, WellFormed, Knows, Of, OfKind, VersionRow
    <2>3. rows' = Stored(middle, v, row)
      BY <1>2 DEF Version, WithVersion
    <2>4. ASSUME NEW i \in DOMAIN rows
          PROVE  /\ middle[i].kind = rows[i].kind /\ DOMAIN rows[i] \subseteq DOMAIN middle[i]
                 /\ Intact(rows, middle[i])
      <3>1. Intact(rows, rows[i])
        BY DEF RowsOK, WellFormed
      <3>2. \A r \in ReferencesOf(rows[i]) : r.column # "currentVersionNo"
        BY ReferencesOfRow, ReferenceFacts
      <3>3. CASE i = d
        <4> DEFINE new == [rows[i] EXCEPT !["currentVersionNo"] = request[q].no]
        <4>1. middle[i] = new
          BY <3>3
        <4>2. new.kind = rows[i].kind /\ DOMAIN new = DOMAIN rows[i] /\ Intact(rows, new)
          BY <3>1, <3>2, SetColumn
        <4> HIDE DEF new
        <4> QED
          BY <4>1, <4>2
      <3>4. CASE i # d
        BY <3>1, <3>4
      <3> QED
        BY <3>3, <3>4
    <2>5. DOMAIN middle = DOMAIN rows
      OBVIOUS
    <2> HIDE DEF middle
    <2>6. WellFormed(middle)
      BY <2>4, <2>5, ChangedWellFormed DEF RowsOK
    <2>7. Intact(middle, row)
      <3>1. row.kind = "DocumentVersion" /\ row.document = {d} /\ row.pdfFile = {}
        BY DEF VersionRow
      <3>2. \A i \in row.attachments : i \in DOMAIN middle /\ middle[i].kind = "FileObject"
        BY <2>2, <2>4, <2>5
      <3>3. d \in DOMAIN middle /\ middle[d].kind = "Document"
        BY <2>1, <2>4, <2>5 DEF RowsOK, WellFormed
      <3> HIDE DEF row, d
      <3> QED
        BY <3>1, <3>2, <3>3, ReferencesOfRow, ReferenceFacts DEF Intact, Referred
    <2>8. row.kind = v[3] /\ NotNull(v[3]) \subseteq DOMAIN row /\ v = <<v[1], v[2], v[3]>>
      BY NewIds DEF VersionRow, NotNull
    <2> HIDE DEF row, v
    <2>9. WellFormed(rows') /\ DOMAIN rows' = DOMAIN rows \cup {v}
      <3>1. WellFormed(rows')
        BY <2>3, <2>6, <2>7, <2>8, StoredWellFormed
      <3> QED
        BY <2>3, <2>5, <3>1 DEF Stored
    <2> QED
      BY <2>8, <2>9 DEF RowsOK, RowsGoOn
  <1> QED
    BY <1>1, <1>2

LEMMA DraftRows ==
  ASSUME Life, RowsOK, NEW q \in Running, Draft(q)
  PROVE  RowsGoOn
  <1> DEFINE d == NewId(q, "Document")
             v == NewId(q, "DocumentVersion")
             document == [kind |-> "Document", company |-> request[q].company,
                          currentVersionNo |-> 1,
                          template |-> Referred(request[q].columns, "template"),
                          ownerEmployee |-> request[q].employee]
             row == VersionRow(q, d, 1)
             middle == Stored(rows, d, document)
  <1>1. CASE UNCHANGED rows
    BY <1>1, UnchangedRows
  <1>2. CASE rows' # rows
    <2>0. /\ request[q].op \in Drafting /\ request[q].at = 3 /\ q \in RequestIds
          /\ request[q].phase = "running"
      BY RunningFacts DEF Draft, At, HandlerOf, Does, StatementAt
    <2>1. rows' = Stored(middle, v, row) /\ Intact(rows, document)
      BY <1>2 DEF Draft, Storable
    <2>2. \A i \in row.attachments : i \in DOMAIN rows /\ rows[i].kind = "FileObject"
      BY <2>0 DEF RowsOK, WellFormed, Knows, Of, OfKind, VersionRow
    <2>3. /\ d = <<d[1], d[2], d[3]>> /\ d[3] = "Document"
          /\ v = <<v[1], v[2], v[3]>> /\ v[3] = "DocumentVersion"
      BY NewIds
    <2>4. document.kind = "Document" /\ NotNull("Document") \subseteq DOMAIN document
      BY DEF NotNull
    <2>5. /\ row.kind = "DocumentVersion" /\ row.document = {d} /\ row.pdfFile = {}
          /\ NotNull("DocumentVersion") \subseteq DOMAIN row
      BY DEF VersionRow, NotNull
    <2> HIDE DEF document, d, v, row
    <2>6. WellFormed(middle)
      BY <2>1, <2>3, <2>4, StoredWellFormed DEF RowsOK
    <2>7. /\ DOMAIN middle = DOMAIN rows \cup {d} /\ middle[d] = document
          /\ \A i \in DOMAIN rows \ {d} : middle[i] = rows[i]
      BY DEF Stored
    <2> HIDE DEF middle
    <2>8. Intact(middle, row)
      <3>1. \A i \in row.attachments : i \in DOMAIN middle /\ middle[i].kind = "FileObject"
        BY <2>2, <2>3, <2>7 DEF RowsOK, WellFormed
      <3>2. d \in DOMAIN middle /\ middle[d].kind = "Document"
        BY <2>4, <2>7
      <3> QED
        BY <2>5, <3>1, <3>2, ReferencesOfRow, ReferenceFacts DEF Intact, Referred
    <2>9. WellFormed(rows')
      BY <2>1, <2>3, <2>5, <2>6, <2>8, StoredWellFormed
    <2>10. DOMAIN rows' = DOMAIN rows \cup {d, v}
      BY <2>1, <2>7 DEF Stored
    <2> QED
      BY <2>3, <2>9, <2>10 DEF RowsOK, RowsGoOn
  <1> QED
    BY <1>1, <1>2

LEMMA LinkRows ==
  ASSUME Life, RowsOK, NEW q \in Running, Link(q)
  PROVE  RowsGoOn
  <1>0. /\ request[q].op = "renderPdf" /\ request[q].at = 7 /\ q \in RequestIds
        /\ request[q].phase = "running"
    BY RunningFacts DEF Link, LinkTo, At, HandlerOf, Does, StatementAt
  <1>1. PICK v \in VersionsOf(TargetOf(q), request[q].no) :
          rows' = [rows EXCEPT ![v].pdfFile = {request[q].row}]
    BY DEF Link, LinkTo
  <1> DEFINE file == request[q].row
  <1>2. file \in DOMAIN rows /\ rows[file].kind = "FileObject"
    <2>1. file = NewId(q, "FileObject") /\ file \in DOMAIN rows
      BY <1>0 DEF RowsOK, Knows, Filing, FilePlace
    <2>2. NewId(q, "FileObject")[3] = "FileObject"
      BY NewIds
    <2> QED
      BY <2>1, <2>2 DEF RowsOK, WellFormed
  <1>3. v \in DOMAIN rows /\ rows[v].kind = "DocumentVersion" /\ Intact(rows, rows[v])
    BY DEF VersionsOf, Of, OfKind, RowsOK, WellFormed
  <1> HIDE DEF file
  <1>4. ASSUME NEW i \in DOMAIN rows
        PROVE  /\ rows'[i].kind = rows[i].kind /\ DOMAIN rows[i] \subseteq DOMAIN rows'[i]
               /\ Intact(rows, rows'[i])
    <2>1. CASE i = v
      <3> DEFINE new == [rows[v] EXCEPT !.pdfFile = {file}]
      <3>1. rows'[i] = new
        BY <1>1, <1>3, <2>1 DEF file
      <3>2. /\ new.kind = rows[v].kind /\ DOMAIN new = DOMAIN rows[v]
            /\ \A c \in DOMAIN rows[v] \ {"pdfFile"} : new[c] = rows[v][c]
            /\ "pdfFile" \in DOMAIN rows[v] => new.pdfFile = {file}
        OBVIOUS
      <3> HIDE DEF new
      <3>3. ASSUME NEW r \in ReferencesOf(new), NEW j \in Referred(new, r.column)
            PROVE  j \in DOMAIN rows /\ rows[j].kind = r.to
        <4>1. r \in ReferencesOf(rows[v]) /\ r \in References /\ r.kind = "DocumentVersion"
          BY <1>3, <3>2, ReferencesOfRow
        <4>2. CASE r.column = "pdfFile"
          <5>1. r.to = "FileObject"
            BY <4>1, <4>2, ReferenceFacts
          <5>2. j = file
            BY <3>2, <3>3, <4>2 DEF Referred
          <5> QED
            BY <1>2, <5>1, <5>2
        <4>3. CASE r.column # "pdfFile"
          <5>1. j \in Referred(rows[v], r.column)
            BY <3>2, <3>3, <4>3 DEF Referred
          <5> QED
            BY <1>3, <4>1, <5>1 DEF Intact
        <4> QED
          BY <4>2, <4>3
      <3> QED
        BY <2>1, <3>1, <3>2, <3>3 DEF Intact
    <2>2. CASE i # v
      BY <1>1, <2>2 DEF RowsOK, WellFormed
    <2> QED
      BY <2>1, <2>2
  <1>5. DOMAIN rows' = DOMAIN rows
    BY <1>1
  <1> QED
    BY <1>4, <1>5, ChangedGoesOn

LEMMA RowsGoingOn ==
  ASSUME Life, RowsOK, [Next]_vars
  PROVE  RowsGoOn
  <1>1. ASSUME NEW q \in Running, Writes(q)
        PROVE  RowsGoOn
    BY <1>1, TurnAwayRows, InsertRows, JoinRows, UpdateRows, DeleteRows, EndSessionRows, ClearRows,
       DraftRows, VersionRows, FileRows, LinkRows DEF Writes
  <1> QED
    BY <1>1, RowsMove, UnchangedRows, ExpireRows

\* Rows of the kinds that are kept are there for good.
LEMMA KeptRows ==
  ASSUME RowsGoOn, NEW kind, kind \notin ErasableKinds
  PROVE  Of(kind) \subseteq Of(kind)'
  BY DEF RowsGoOn, Of, OfKind

LEMMA CheckPassed ==
  ASSUME Life, NEW q \in RequestIds, Goes(q), Does(request[q].op)[request[q].at] = "check"
  PROVE  /\ AccessGranted(q) /\ ReferencesValid(q) /\ Acceptable(q)
         /\ request'[q].company = CompanyFor(q) /\ request'[q].columns = Completed(q)
         /\ request'[q].employee = EmployeeFor(q) /\ request'[q].no = VersionMeant(q)
         /\ UNCHANGED rows
  <1> DEFINE new == [request[q] EXCEPT !.company = CompanyFor(q), !.columns = Completed(q),
                                       !.employee = EmployeeFor(q), !.no = VersionMeant(q)]
  <1>1. Check(q)
    BY WhichStatement DEF Goes
  <1>2. ~Refuse(q)
    BY GoingOn
  <1>3. AccessGranted(q) /\ ReferencesValid(q) /\ Acceptable(q) /\ Proceed(q, new)
    BY <1>1, <1>2 DEF Check
  <1>4. DOMAIN request[q] = DOMAIN Idle
    BY DEF Life, RequestOK
  <1>5. /\ new.at = request[q].at /\ DOMAIN new = DOMAIN Idle
        /\ new.company = CompanyFor(q) /\ new.columns = Completed(q)
        /\ new.employee = EmployeeFor(q) /\ new.no = VersionMeant(q)
    BY <1>4 DEF Idle
  <1> HIDE DEF new
  <1>6. request'[q] = [new EXCEPT !.at = @ + 1]
    BY <1>3, <1>5, GoingOn
  <1>7. /\ request'[q].company = new.company /\ request'[q].columns = new.columns
        /\ request'[q].employee = new.employee /\ request'[q].no = new.no
    BY <1>5, <1>6 DEF Idle
  <1>8. UNCHANGED rows
    BY <1>1 DEF Check, OnlyRequests, stored
  <1> QED
    BY <1>3, <1>5, <1>7, <1>8

\* The row of a file that is uploaded or rendered.
FileRow(q) == [kind |-> "FileObject", company |-> request[q].company]

LEMMA FilePassed ==
  ASSUME Life, NEW q \in RequestIds, Goes(q), Does(request[q].op)[request[q].at] = "file"
  PROVE  LET id == NewId(q, "FileObject")
         IN  request'[q].row = id /\ rows' = Stored(rows, id, FileRow(q))
  <1> DEFINE id == NewId(q, "FileObject")
             new == [request[q] EXCEPT !.row = id]
  <1>1. File(q)
    BY WhichStatement DEF Goes
  <1>2. ~Refuse(q)
    BY GoingOn
  <1>3. Proceed(q, new) /\ rows' = Stored(rows, id, FileRow(q))
    BY <1>1, <1>2 DEF File, Write, FileRow
  <1>4. DOMAIN request[q] = DOMAIN Idle
    BY DEF Life, RequestOK
  <1>5. new.at = request[q].at /\ DOMAIN new = DOMAIN Idle /\ new.row = id
    BY <1>4 DEF Idle
  <1> HIDE DEF new
  <1>6. request'[q] = [new EXCEPT !.at = @ + 1]
    BY <1>3, <1>5, GoingOn
  <1>7. request'[q].row = new.row
    BY <1>5, <1>6 DEF Idle
  <1> QED
    BY <1>3, <1>5, <1>7

LEMMA TablesOfColumns ==
  TablesOf("attachments") \subseteq {"FileObject"}
  BY ReferenceFacts DEF TablesOf

LEMMA KnowsAfter ==
  ASSUME Life, RowsOK, RowsGoOn, NEW q \in RequestIds, Move(q)
  PROVE  Knows(q)'
  <1>1. /\ Of("Document") \subseteq Of("Document")'
        /\ Of("FileObject") \subseteq Of("FileObject")'
    BY KeptRows DEF ErasableKinds
  <1>2. NewId(q, "FileObject")[3] = "FileObject"
    BY NewIds
  <1>3. NewId(q, "FileObject") \in DOMAIN rows => NewId(q, "FileObject") \in DOMAIN rows'
    BY <1>1, <1>2 DEF Of, OfKind
  <1>4. TargetOf(q)' = TargetOf(q) /\ NewId(q, "FileObject")' = NewId(q, "FileObject")
    BY DEF TargetOf, FormFor, NewId
  <1>5. Knows(q) /\ RequestOK(q)
    BY DEF RowsOK, Life
  <1>6. CASE request'[q].phase # "running"
    BY <1>6 DEF Knows
  <1>7. CASE Stays(q)
    BY <1>1, <1>3, <1>4, <1>5, <1>7 DEF Stays, Knows
  <1>8. CASE Starts(q)
    BY <1>8 DEF Starts, Knows, Filing, FilePlace
  <1>9. CASE Goes(q)
    <2> DEFINE s == Does(request[q].op)[request[q].at]
    <2>1. /\ request'[q].phase = "running" /\ request'[q].op = request[q].op
          /\ request'[q].at = request[q].at + 1 /\ request[q].phase = "running"
          /\ request[q].op \in Ops /\ TableEntry(request[q].op)
          /\ StatementAt(request[q].op, request[q].at) /\ request[q].at \in 1..8
          /\ s # "check" => request'[q].columns = request[q].columns
          /\ s \notin {"insert", "update", "delete", "endSession", "draft", "version", "file"} =>
               request'[q].row = request[q].row
      BY <1>5, <1>9, GoingOnFields DEF Goes
    <2>2. CASE request[q].at = 1
      BY <2>1, <2>2 DEF Knows, Filing, FilePlace
    <2>3. CASE request[q].at = 2 /\ request[q].op \in Unchecked
      BY <2>1, <2>3 DEF Knows, Unchecked, Changing, Removing, Drafting, Filing, FilePlace
    <2>4. CASE request[q].at = 2 /\ request[q].op \notin Unchecked
      <3>1. s = "check"
        BY <2>1, <2>4 DEF StatementAt, Unchecked, Filing, FilePlace, InsertPlace, Drafting
      <3>2. /\ AccessGranted(q) /\ ReferencesValid(q) /\ UNCHANGED rows
            /\ request'[q].columns = Completed(q)
        BY <1>9, <3>1, CheckPassed
      <3>3. request[q].op \in Changing \cup Removing =>
          TargetOf(q)[3] = Handlers[request[q].op].kind
        BY <2>1, <3>2 DEF AccessGranted, HandlerOf, TableEntry, TableOf, Of, OfKind
      <3>4. request[q].op \in {"addVersion", "renderPdf"} => TargetOf(q) \in Of("Document")
        BY <2>1, <3>2 DEF AccessGranted, HandlerOf, TableEntry, TableOf
      <3>5. request[q].op \in Drafting \cup {"addVersion"} =>
              Referred(request'[q].columns, "attachments") \subseteq Of("FileObject")
        <4> SUFFICES ASSUME request[q].op \in Drafting \cup {"addVersion"}
                     PROVE  Referred(request'[q].columns, "attachments") \subseteq Of("FileObject")
          OBVIOUS
        <4>1. request'[q].columns = request[q].columns
          BY <3>2 DEF Completed, Drafting
        <4>2. "attachments" \in HandlerOf(q).checks
          BY <2>1 DEF TableEntry, HandlerOf
        <4> QED
          BY <3>2, <4>1, <4>2, TablesOfColumns DEF ReferencesValid, Of, OfKind
      <3> QED
        BY <1>1, <1>4, <2>1, <2>4, <3>3, <3>4, <3>5 DEF Knows, Filing, FilePlace, Unchecked
    <2>5. CASE request[q].at >= 3
      <3>1. s # "check"
        BY <2>1, <2>5 DEF StatementAt
      <3>2. ASSUME request[q].op \in Filing, request'[q].at > FilePlace(request[q].op)
            PROVE  request'[q].row = NewId(q, "FileObject") /\ request'[q].row \in DOMAIN rows'
        <4>1. CASE request[q].at = FilePlace(request[q].op)
          <5>1. s = "file"
            BY <2>1, <3>2, <4>1 DEF TableEntry
          <5> QED
            BY <1>9, <5>1, FilePassed DEF Stored
        <4>2. CASE request[q].at > FilePlace(request[q].op)
          <5>1. request'[q].row = request[q].row
            BY <2>1, <3>2, <4>2
               DEF StatementAt, Filing, FilePlace, InsertPlace, Drafting, Changing, Removing
          <5> QED
            BY <1>3, <1>5, <2>1, <3>2, <4>2, <5>1 DEF Knows
        <4>3. FilePlace(request[q].op) \in {3, 5}
          BY DEF FilePlace
        <4> QED
          BY <2>1, <3>2, <4>1, <4>2, <4>3
      <3> QED
        BY <1>1, <1>4, <1>5, <2>1, <2>5, <3>1, <3>2 DEF Knows
    <2> QED
      BY <2>1, <2>2, <2>3, <2>4, <2>5
  <1> QED
    BY <1>6, <1>7, <1>8, <1>9 DEF Move, Ends

LEMMA RowsStep ==
  ASSUME Life, RowsOK, [Next]_vars
  PROVE  RowsOK'
  <1>1. RowsGoOn
    BY RowsGoingOn
  <1>2. DOMAIN request' = DOMAIN request /\ \A q \in RequestIds : Move(q)
    BY Moves
  <1>3. \A q \in RequestIds : Knows(q)'
    BY <1>1, <1>2, KnowsAfter
  <1> QED
    BY <1>1, <1>2, <1>3 DEF RowsOK, RowsGoOn, RequestIds

\* The two invariants the theorems about the rows rest on.
THEOREM RowsAreOK == Spec => [](Life /\ RowsOK)
  <1>1. Init => Life /\ RowsOK
    BY LifeInit, RowsInit
  <1>2. Life /\ RowsOK /\ [Next]_vars => (Life /\ RowsOK)'
    BY LifeStep, RowsStep
  <1> QED
    BY <1>1, <1>2, PTL DEF Spec

\* Whatever requests overlap, are refused or are cut short, the rows stay well formed: every
\* row has the columns its table requires, a reference leads to a row of its table that is
\* there (schema.prisma), pages and requests have their types.
THEOREM BackOfficeTypeCorrect == Spec => []BackOfficeTypeOK
  <1>1. Life /\ RowsOK => BackOfficeTypeOK
    BY DEF Life, RowsOK, RequestOK, PageOK, BackOfficeTypeOK
  <1> QED
    BY <1>1, RowsAreOK, PTL

\* No step takes away a row of a kind the handlers keep: deleteDepartment, deleteEmployee and
\* logout take only their own row and what the schema cascades to, and that is never a
\* document, a file or an entry of the books.
THEOREM RecordsStay == Spec => RecordsAreKept
  <1>1. Life /\ RowsOK /\ [Next]_vars =>
          [\A i \in DOMAIN rows \ DOMAIN rows' : rows[i].kind \in ErasableKinds]_vars
    <2> SUFFICES ASSUME Life, RowsOK, [Next]_vars, NEW i \in DOMAIN rows \ DOMAIN rows'
                 PROVE  rows[i].kind \in ErasableKinds
      OBVIOUS
    <2>1. RowsGoOn
      BY RowsGoingOn
    <2> QED
      BY <2>1 DEF RowsGoOn, RowsOK, WellFormed
  <1> QED
    BY <1>1, RowsAreOK, PTL DEF Spec, RecordsAreKept

(***************************************************************************)
(* A request creates a row of each kind at most once, under a fresh id.    *)
(***************************************************************************)
\* The request may still create a row of the kind.
ToCome(q, kind) ==
  \/ request[q].phase = "none"
  \/ /\ request[q].phase = "running"
     /\ \E k \in request[q].at..Len(Does(request[q].op)) : Creates(request[q].op, k, kind)

\* No request is to create the row, or to create it again.
Settled(i) == <<i[1], i[2]>> \in RequestIds => ~ToCome(<<i[1], i[2]>>, i[3])

Fresh == \A i \in DOMAIN rows : Settled(i)

LEMMA FreshInit == Init => Fresh
  <1> SUFFICES ASSUME Init PROVE Fresh
    OBVIOUS
  <1>1. PICK desk \in Desks :
          /\ rows = desk.rows
          /\ request = [q \in UNION {{f} \X (1..FormOf[f].requests) : f \in desk.forms} |-> Idle]
    BY DEF Init
  <1>2. ASSUME NEW i \in DOMAIN rows
        PROVE  <<i[1], i[2]>> \notin RequestIds
    <2>1. i = <<i[1], 0, i[3]>>
      BY <1>1, DesksAssumption
    <2>2. i[2] = 0
      BY <2>1
    <2>3. \A f \in desk.forms : FormOf[f].requests \in Nat
      BY DesksAssumption, CatalogueAssumption
    <2>4. \A f \in desk.forms : 0 \notin 1..FormOf[f].requests
      BY <2>3
    <2> QED
      BY <1>1, <2>2, <2>4 DEF RequestIds
  <1> QED
    BY <1>2 DEF Fresh, Settled

\* The two halves of a request's id.
LEMMA RequestPairs ==
  ASSUME Life, NEW q \in RequestIds
  PROVE  q = <<q[1], q[2]>> /\ q[1] \in Forms
  BY DEF Life

LEMMA Wrote ==
  ASSUME NEW q, NEW id, NEW row, NEW r, Write(q, id, row, r), NEW i \in DOMAIN rows' \ DOMAIN rows
  PROVE  i = id
  BY DEF Write, Stored

LEMMA CreatedBy ==
  ASSUME Life, NEW q \in Running, Statement(q), Writes(q),
         NEW i \in DOMAIN rows', i \notin DOMAIN rows
  PROVE  i = NewId(q, i[3]) /\ Creates(request[q].op, request[q].at, i[3])
  <1> DEFINE s == Does(request[q].op)[request[q].at]
  <1>1. CASE Insert(q)
    <2>1. Write(q, NewId(q, HandlerOf(q).kind), NewRow(q),
                [request[q] EXCEPT !.row = NewId(q, HandlerOf(q).kind)]) /\ s = "insert"
      BY <1>1, InsertFacts
    <2>2. i = NewId(q, HandlerOf(q).kind)
      BY <2>1, Wrote
    <2> QED
      BY <2>1, <2>2, NewIds DEF Creates, HandlerOf
  <1>2. CASE Join(q)
    <2>1. s = "join"
          /\ Write(q, NewId(q, "CompanyMembership"),
                   [kind |-> "CompanyMembership", company |-> request[q].row,
                    user |-> request[q].user, role |-> "SUPER_ADMIN"], request[q])
      BY <1>2 DEF Join, At, HandlerOf, Does
    <2>2. i = NewId(q, "CompanyMembership")
      BY <2>1, Wrote
    <2> QED
      BY <2>1, <2>2, NewIds DEF Creates
  <1>3. CASE File(q)
    <2>1. s = "file"
          /\ Write(q, NewId(q, "FileObject"),
                   [kind |-> "FileObject", company |-> request[q].company],
                   [request[q] EXCEPT !.row = NewId(q, "FileObject")])
      BY <1>3 DEF File, At, HandlerOf, Does
    <2>2. i = NewId(q, "FileObject")
      BY <2>1, Wrote
    <2> QED
      BY <2>1, <2>2, NewIds DEF Creates
  <1>4. CASE Draft(q)
    <2>1. (i = NewId(q, "Document") \/ i = NewId(q, "DocumentVersion")) /\ s = "draft"
      BY <1>4 DEF Stored, Draft, At, HandlerOf, Does
    <2> QED
      BY <2>1, NewIds DEF Creates
  <1>5. CASE Version(q)
    <2>1. i = NewId(q, "DocumentVersion") /\ s = "version"
      BY <1>5 DEF Stored, Version, WithVersion, At, HandlerOf, Does
    <2> QED
      BY <2>1, NewIds DEF Creates
  <1>6. CASE Update(q)
    BY <1>6 DEF Update, Write, Stored
  <1>7. CASE TurnAway(q)
    BY <1>7 DEF TurnAway
  <1>8. CASE Delete(q) \/ EndSession(q)
    BY <1>8 DEF Delete, EndSession, Without
  <1>9. CASE Clear(q)
    BY <1>9 DEF Clear
  <1>10. CASE Link(q)
    BY <1>10 DEF Link, LinkTo
  <1> QED
    BY <1>1, <1>2, <1>3, <1>4, <1>5, <1>6, <1>7, <1>8, <1>9, <1>10 DEF Writes

LEMMA NewRowsBy ==
  ASSUME Life, [Next]_vars, NEW i \in DOMAIN rows', i \notin DOMAIN rows
  PROVE  \E q \in Running : /\ Statement(q) /\ Writes(q) /\ i = NewId(q, i[3])
                            /\ Creates(request[q].op, request[q].at, i[3])
  <1>1. \A session : Expire(session) => DOMAIN rows' = DOMAIN rows
    BY DEF Expire
  <1> QED
    BY <1>1, RowsMove, CreatedBy

LEMMA SettledAfter ==
  ASSUME Life, [Next]_vars, NEW i, Settled(i)
  PROVE  Settled(i)'
  <1> DEFINE q == <<i[1], i[2]>>
  <1>0. DOMAIN request' = DOMAIN request /\ \A p \in RequestIds : Move(p)
    BY Moves
  <1>1. CASE q \in RequestIds
    <2>1. ~ToCome(q, i[3]) /\ Move(q) /\ RequestOK(q)
      BY <1>0, <1>1 DEF Settled, Life
    <2>2. CASE Stays(q)
      BY <1>0, <2>1, <2>2 DEF Settled, ToCome, Stays
    <2>3. CASE Starts(q)
      BY <2>1, <2>3 DEF ToCome, Starts
    <2>4. CASE Ends(q)
      BY <2>4 DEF Settled, ToCome, Ends
    <2>5. CASE Goes(q)
      <3>1. /\ request[q].phase = "running" /\ request'[q].phase = "running"
            /\ request'[q].op = request[q].op /\ request'[q].at = request[q].at + 1
            /\ Len(Does(request[q].op)) \in 2..8 /\ request[q].at \in 1..8
        BY <1>1, <2>1, <2>5, GoingOnFields DEF Goes, TableEntry
      <3>2. (request[q].at + 1)..Len(Does(request[q].op)) \subseteq
              request[q].at..Len(Does(request[q].op))
        <4>1. \A m \in 2..8 : \A n \in 1..8 : (n + 1)..m \subseteq n..m
          OBVIOUS
        <4> QED
          BY <3>1, <4>1
      <3> QED
        BY <2>1, <3>1, <3>2 DEF Settled, ToCome
    <2> QED
      BY <2>1, <2>2, <2>3, <2>4, <2>5 DEF Move
  <1>2. CASE q \notin RequestIds
    BY <1>0, <1>2 DEF Settled, RequestIds
  <1> QED
    BY <1>1, <1>2

LEMMA FreshStep ==
  ASSUME Life, Fresh, [Next]_vars
  PROVE  Fresh'
  <1> SUFFICES ASSUME NEW i \in DOMAIN rows'
               PROVE  Settled(i)'
    BY DEF Fresh
  <1>1. CASE i \in DOMAIN rows
    BY <1>1, SettledAfter DEF Fresh
  <1>2. CASE i \notin DOMAIN rows
    <2>1. PICK q \in Running : /\ Statement(q) /\ i = NewId(q, i[3])
                               /\ Creates(request[q].op, request[q].at, i[3])
      BY <1>2, NewRowsBy
    <2>2. Goes(q) \/ Ends(q)
      BY <2>1, StatementMoves
    <2>3. q \in RequestIds /\ TableEntry(request[q].op) /\ request[q].at \in 1..8
          /\ request[q].at \in 1..Len(Does(request[q].op)) /\ RequestOK(q)
      BY RunningFacts
    <2>4. q = <<i[1], i[2]>>
      BY <2>1, <2>3, NewIds, RequestPairs
    <2>5. CASE Ends(q)
      BY <2>4, <2>5 DEF Settled, ToCome, Ends
    <2>6. CASE Goes(q)
      <3>1. /\ request'[q].phase = "running"
            /\ request'[q].op = request[q].op /\ request'[q].at = request[q].at + 1
        BY <2>3, <2>6, GoingOnFields
      <3>2. ASSUME NEW k \in (request[q].at + 1)..Len(Does(request[q].op)),
                   Creates(request[q].op, k, i[3])
            PROVE  FALSE
        <4>1. Len(Does(request[q].op)) \in 2..8
          BY <2>3 DEF TableEntry
        <4>2. \A m \in 2..8 : \A n \in 1..8 : \A l \in (n + 1)..m : l \in 1..m /\ l # n
          OBVIOUS
        <4>3. k \in 1..Len(Does(request[q].op)) /\ k # request[q].at
          BY <2>3, <4>1, <4>2
        <4> QED
          BY <2>1, <2>3, <3>2, <4>3 DEF TableEntry
      <3> QED
        BY <2>4, <3>1, <3>2 DEF Settled, ToCome
    <2> QED
      BY <2>2, <2>5, <2>6
  <1> QED
    BY <1>1, <1>2

\* The ids a request is about to create are free.
LEMMA FreeIds ==
  ASSUME Life, Fresh, NEW q \in Running, NEW kind, Creates(request[q].op, request[q].at, kind)
  PROVE  NewId(q, kind) \notin DOMAIN rows
  <1>1. /\ q \in RequestIds /\ request[q].at \in 1..Len(Does(request[q].op))
        /\ request[q].phase = "running" /\ TableEntry(request[q].op)
    BY RunningFacts
  <1>2. request[q].at \in request[q].at..Len(Does(request[q].op))
    <2>1. \A m \in 2..8 : \A n \in 1..m : n \in n..m
      OBVIOUS
    <2> QED
      BY <1>1, <2>1 DEF TableEntry
  <1>3. ToCome(q, kind)
    BY <1>1, <1>2 DEF ToCome
  <1> QED
    BY <1>1, <1>3, NewIds, RequestPairs DEF Fresh, Settled

(***************************************************************************)
(* What a step does to a row that was there before and is there after.     *)
(***************************************************************************)
\* A column keeps its value, unless it is one of those that handlers write in place.
ColumnKept(i, c) ==
  \/ rows'[i][c] = rows[i][c]
  \/ /\ \E r \in References : r.kind = i[3] /\ r.column = c
     /\ rows'[i][c] \subseteq rows[i][c]
     /\ \A j \in rows[i][c] : j \in DOMAIN rows' => j \in rows'[i][c]
  \/ i[3] = "UserSession" /\ c = "expired"
  \/ i[3] = "SignatureAsset" /\ c = "isDefault" /\ \E q \in Running : Clear(q)
  \/ /\ i[3] = "Document" /\ c = "currentVersionNo"
     /\ \E q \in Running : Version(q) /\ i = TargetOf(q)
  \/ /\ i[3] = "DocumentVersion" /\ c = "pdfFile"
     /\ \E q \in Running : /\ Link(q) /\ rows'[i].pdfFile = {request[q].row}
                           /\ i \in VersionsOf(TargetOf(q), request[q].no)

OldRowKept(i) ==
  /\ rows'[i].company = rows[i].company
  /\ \/ /\ i[3] \in {"Company", "Department", "Employee"}
        /\ \E q \in Running : Update(q) /\ i = TargetOf(q)
     \/ DOMAIN rows'[i] = DOMAIN rows[i] /\ \A c \in DOMAIN rows[i] : ColumnKept(i, c)

LEMMA SameRowKept ==
  ASSUME NEW i, rows'[i] = rows[i]
  PROVE  OldRowKept(i)
  BY DEF OldRowKept, ColumnKept

LEMMA FreshRowBeside ==
  ASSUME NEW q, NEW id, NEW row, NEW r, Write(q, id, row, r), id \notin DOMAIN rows,
         NEW i \in DOMAIN rows
  PROVE  OldRowKept(i)
  <1>1. rows'[i] = rows[i]
    BY DEF Write, Stored
  <1> QED
    BY <1>1, SameRowKept

LEMMA WithoutKeeps ==
  ASSUME RowsOK, NEW id, id[3] \in {"UserSession", "Employee", "Department"},
         rows' = Without(rows, id), NEW i \in DOMAIN rows, i \in DOMAIN rows'
  PROVE  OldRowKept(i)
  <1>1. i \in Rest(rows, id) /\ rows[i].kind = i[3]
    BY WithoutRows DEF RowsOK, WellFormed
  <1>2. /\ DOMAIN rows'[i] = DOMAIN rows[i] /\ rows'[i].company = rows[i].company
        /\ \A c \in DOMAIN rows[i] :
             \/ rows'[i][c] = rows[i][c]
             \/ /\ \E r \in References : r.kind = i[3] /\ r.column = c
                /\ rows'[i][c] = rows[i][c] \ {id}
    BY <1>1, WithoutRows DEF RowsOK
  <1>3. id \notin DOMAIN rows'
    <2>1. DOMAIN rows' = Rest(rows, id)
      BY WithoutRows DEF RowsOK
    <2> QED
      BY <2>1 DEF Rest
  <1> QED
    BY <1>2, <1>3 DEF OldRowKept, ColumnKept

LEMMA OldRows ==
  ASSUME Life, RowsOK, Fresh, NEW q \in Running, Statement(q), Writes(q),
         NEW i \in DOMAIN rows, i \in DOMAIN rows'
  PROVE  OldRowKept(i)
  <1>0. /\ q \in RequestIds /\ StatementAt(request[q].op, request[q].at)
        /\ TableEntry(request[q].op)
        /\ {"kind", "company"} \cap DOMAIN request[q].columns = {}
    BY RunningFacts
  <1>c. rows[i].kind = i[3] /\ {"kind", "company"} \subseteq DOMAIN rows[i]
    BY NotNullColumns DEF RowsOK, WellFormed
  <1>1. CASE Insert(q)
    <2>1. /\ Write(q, NewId(q, HandlerOf(q).kind), NewRow(q),
                   [request[q] EXCEPT !.row = NewId(q, HandlerOf(q).kind)])
          /\ Does(request[q].op)[request[q].at] = "insert"
      BY <1>1, InsertFacts
    <2>2. NewId(q, HandlerOf(q).kind) \notin DOMAIN rows
      BY <2>1, FreeIds DEF Creates, HandlerOf
    <2> QED
      BY <2>1, <2>2, FreshRowBeside
  <1>2. CASE Join(q)
    <2>1. /\ Write(q, NewId(q, "CompanyMembership"),
                   [kind |-> "CompanyMembership", company |-> request[q].row,
                    user |-> request[q].user, role |-> "SUPER_ADMIN"], request[q])
          /\ Does(request[q].op)[request[q].at] = "join"
      BY <1>2 DEF Join, At, HandlerOf, Does
    <2>2. NewId(q, "CompanyMembership") \notin DOMAIN rows
      BY <2>1, FreeIds DEF Creates
    <2> QED
      BY <2>1, <2>2, FreshRowBeside
  <1>3. CASE File(q)
    <2>1. /\ Write(q, NewId(q, "FileObject"),
                   [kind |-> "FileObject", company |-> request[q].company],
                   [request[q] EXCEPT !.row = NewId(q, "FileObject")])
          /\ Does(request[q].op)[request[q].at] = "file"
      BY <1>3 DEF File, At, HandlerOf, Does
    <2>2. NewId(q, "FileObject") \notin DOMAIN rows
      BY <2>1, FreeIds DEF Creates
    <2> QED
      BY <2>1, <2>2, FreshRowBeside
  <1>4. CASE Draft(q)
    <2>1. Does(request[q].op)[request[q].at] = "draft"
      BY <1>4 DEF Draft, At, HandlerOf, Does
    <2>2. NewId(q, "Document") \notin DOMAIN rows /\ NewId(q, "DocumentVersion") \notin DOMAIN rows
      BY <2>1, FreeIds DEF Creates
    <2>3. rows'[i] = rows[i]
      BY <1>4, <2>2 DEF Draft, Stored
    <2> QED
      BY <2>3, SameRowKept
  <1>5. CASE Version(q)
    <2>1. Does(request[q].op)[request[q].at] = "version" /\ request[q].op = "addVersion"
          /\ request[q].at = 3 /\ request[q].phase = "running"
      BY <1>0, <1>5 DEF Version, At, HandlerOf, Does, StatementAt
    <2>2. NewId(q, "DocumentVersion") \notin DOMAIN rows /\ TargetOf(q) \in Of("Document")
      BY <1>0, <2>1, FreeIds DEF Creates, RowsOK, Knows
    <2>3. CASE UNCHANGED rows
      BY <2>3, SameRowKept
    <2>4. CASE rows' # rows
      <3>1. rows'[i] = [rows EXCEPT ![TargetOf(q)].currentVersionNo = request[q].no][i]
        BY <1>5, <2>2, <2>4 DEF Version, WithVersion, Stored
      <3>2. CASE i = TargetOf(q)
        <4>1. rows'[i] = [rows[i] EXCEPT !.currentVersionNo = request[q].no]
          BY <3>1, <3>2
        <4>2. i[3] = "Document"
          BY <2>2, <3>2 DEF Of, OfKind
        <4>3. /\ DOMAIN rows'[i] = DOMAIN rows[i] /\ rows'[i].company = rows[i].company
              /\ \A c \in DOMAIN rows[i] : rows'[i][c] = rows[i][c] \/ c = "currentVersionNo"
          BY <1>c, <4>1
        <4> QED
          BY <1>5, <3>2, <4>2, <4>3 DEF OldRowKept, ColumnKept
      <3>3. CASE i # TargetOf(q)
        BY <3>1, <3>3, SameRowKept
      <3> QED
        BY <3>2, <3>3
    <2> QED
      BY <2>3, <2>4
  <1>6. CASE Update(q)
    <2> DEFINE id == TargetOf(q)
    <2>1. CASE i = id
      <3>1. i[3] \in {"Company", "Department", "Employee"}
        <4>1. Does(request[q].op)[request[q].at] = "update" /\ request[q].phase = "running"
          BY <1>6 DEF Update, At, HandlerOf, Does
        <4>2. /\ request[q].op \in Changing /\ request[q].at = 3
              /\ Handlers[request[q].op].kind \in {"Company", "Department", "Employee"}
          BY <1>0, <4>1 DEF StatementAt, TableEntry
        <4> QED
          BY <1>0, <2>1, <4>1, <4>2 DEF RowsOK, Knows
      <3>2. rows'[i].company = rows[i].company
        <4>1. rows'[i] = rows[i] \/ rows'[i] = Over(request[q].columns, rows[i])
          BY <1>6, <2>1 DEF Update, Write, Stored
        <4>2. Over(request[q].columns, rows[i]).company = rows[i].company
          BY <1>0, <1>c DEF Over
        <4> QED
          BY <4>1, <4>2
      <3> QED
        BY <1>6, <2>1, <3>1, <3>2 DEF OldRowKept
    <2>2. CASE i # id
      <3>1. rows'[i] = rows[i]
        BY <1>6, <2>2 DEF Update, Write, Stored
      <3> QED
        BY <3>1, SameRowKept
    <2> QED
      BY <2>1, <2>2
  <1>7. CASE TurnAway(q)
    <2>1. rows'[i] = rows[i]
      BY <1>7 DEF TurnAway
    <2> QED
      BY <2>1, SameRowKept
  <1>8. CASE Delete(q)
    <2>1. CASE UNCHANGED rows
      BY <2>1, SameRowKept
    <2>2. CASE rows' # rows
      <3>0. /\ Does(request[q].op)[request[q].at] = "delete" /\ request[q].phase = "running"
        BY <1>8 DEF Delete, At, HandlerOf, Does
      <3>1. /\ request[q].op \in Removing /\ request[q].at = 3
            /\ Handlers[request[q].op].kind \in {"Department", "Employee"}
        BY <1>0, <3>0 DEF StatementAt, TableEntry
      <3>2. TargetOf(q)[3] \in {"Department", "Employee"}
        BY <1>0, <3>0, <3>1 DEF RowsOK, Knows
      <3> QED
        BY <1>8, <2>2, <3>2, WithoutKeeps DEF Delete
    <2> QED
      BY <2>1, <2>2
  <1>9. CASE EndSession(q)
    <2>1. CASE UNCHANGED rows
      BY <2>1, SameRowKept
    <2>2. CASE rows' # rows
      <3>1. request[q].session[3] = "UserSession"
        BY <1>9, <2>2, RunningFacts DEF EndSession, RequestOK, RowsOK, NoSession
      <3> QED
        BY <1>9, <2>2, <3>1, WithoutKeeps DEF EndSession
    <2> QED
      BY <2>1, <2>2
  <1>10. CASE Clear(q)
    <2>1. \/ rows'[i] = rows[i]
          \/ i \in Of("SignatureAsset") /\ rows'[i] = [rows[i] EXCEPT !.isDefault = FALSE]
      BY <1>10 DEF Clear
    <2>2. CASE i \in Of("SignatureAsset") /\ rows'[i] = [rows[i] EXCEPT !.isDefault = FALSE]
      <3>1. /\ DOMAIN rows'[i] = DOMAIN rows[i] /\ rows'[i].company = rows[i].company
            /\ \A c \in DOMAIN rows[i] : rows'[i][c] = rows[i][c] \/ c = "isDefault"
        BY <1>c, <2>2
      <3> QED
        BY <1>10, <2>2, <3>1 DEF OldRowKept, ColumnKept, Of, OfKind
    <2> QED
      BY <2>1, <2>2, SameRowKept
  <1>11. CASE Link(q)
    <2>1. PICK v \in VersionsOf(TargetOf(q), request[q].no) :
            rows' = [rows EXCEPT ![v].pdfFile = {request[q].row}]
      BY <1>11 DEF Link, LinkTo
    <2>2. CASE i = v
      <3>1. rows'[i] = [rows[i] EXCEPT !.pdfFile = {request[q].row}]
        BY <2>1, <2>2
      <3>2. i[3] = "DocumentVersion" /\ "pdfFile" \in DOMAIN rows[i]
        BY <2>2 DEF VersionsOf, Of, OfKind, RowsOK, WellFormed, NotNull
      <3>3. /\ DOMAIN rows'[i] = DOMAIN rows[i] /\ rows'[i].company = rows[i].company
            /\ \A c \in DOMAIN rows[i] : rows'[i][c] = rows[i][c] \/ c = "pdfFile"
            /\ rows'[i].pdfFile = {request[q].row}
        BY <1>c, <3>1, <3>2
      <3> QED
        BY <1>11, <2>2, <3>2, <3>3 DEF OldRowKept, ColumnKept
    <2>3. CASE i # v
      <3>1. rows'[i] = rows[i]
        BY <2>1, <2>3
      <3> QED
        BY <3>1, SameRowKept
    <2> QED
      BY <2>2, <2>3
  <1> QED
    BY <1>1, <1>2, <1>3, <1>4, <1>5, <1>6, <1>7, <1>8, <1>9, <1>10, <1>11 DEF Writes

LEMMA RowsOverTime ==
  ASSUME Life, RowsOK, Fresh, [Next]_vars, NEW i \in DOMAIN rows, i \in DOMAIN rows'
  PROVE  OldRowKept(i)
  <1>1. CASE UNCHANGED rows
    BY <1>1, SameRowKept
  <1>2. ASSUME NEW session \in Of("UserSession"), Expire(session)
        PROVE  OldRowKept(i)
    <2>1. CASE i = session
      <3>1. rows'[i] = [rows[i] EXCEPT !.expired = TRUE] /\ i[3] = "UserSession"
        BY <1>2, <2>1 DEF Expire, Of, OfKind
      <3>2. {"kind", "company"} \subseteq DOMAIN rows[i]
        BY NotNullColumns DEF RowsOK, WellFormed
      <3>3. /\ DOMAIN rows'[i] = DOMAIN rows[i] /\ rows'[i].company = rows[i].company
            /\ \A c \in DOMAIN rows[i] : rows'[i][c] = rows[i][c] \/ c = "expired"
        BY <3>1, <3>2
      <3> QED
        BY <3>1, <3>3 DEF OldRowKept, ColumnKept
    <2>2. CASE i # session
      <3>1. rows'[i] = rows[i]
        BY <1>2, <2>2 DEF Expire
      <3> QED
        BY <3>1, SameRowKept
    <2> QED
      BY <2>1, <2>2
  <1> QED
    BY <1>1, <1>2, RowsMove, OldRows

(***************************************************************************)
(* Companies.                                                              *)
(***************************************************************************)

\* The row, if there is one, is and stays of the company.
OfCompany(i, company) == Settled(i) /\ (i \in DOMAIN rows => rows[i].company = company)

\* The same after the step, for a row and a company that the step may have chosen.
ToComeNext(q, kind) ==
  \/ request'[q].phase = "none"
  \/ /\ request'[q].phase = "running"
     /\ \E k \in request'[q].at..Len(Does(request'[q].op)) : Creates(request'[q].op, k, kind)

SettledNext(i) == <<i[1], i[2]>> \in DOMAIN request' => ~ToComeNext(<<i[1], i[2]>>, i[3])

OfCompanyNext(i, company) ==
  SettledNext(i) /\ (i \in DOMAIN rows' => rows'[i].company = company)

\* What a running request knows of the company of the rows it is to write.
Scoped(q) ==
  LET r == request[q]
  IN  r.phase = "running" /\ r.op \notin Unchecked /\ r.at >= 3 =>
        /\ \A c \in Handlers[r.op].checks \ Loose(r.op) :
             \A i \in Referred(r.columns, c) : OfCompany(i, r.company)
        /\ r.op \in Drafting \cup {"createClaim"} =>
             \A i \in r.employee : OfCompany(i, r.company)
        /\ r.op = "updateShiftPolicy" =>
             \A i \in Referred(r.columns, "businessSite") : OfCompany(i, r.company)
        /\ r.op \in {"addVersion", "renderPdf"} => OfCompany(TargetOf(q), r.company)
        /\ r.op \in Drafting /\ r.at >= 4 => OfCompany(NewId(q, "Document"), r.company)
        /\ r.op = "renderPdf" /\ r.at >= 6 => OfCompany(r.row, r.company)

ScopedNext(q) ==
  LET r == request'[q]
  IN  r.phase = "running" /\ r.op \notin Unchecked /\ r.at >= 3 =>
        /\ \A c \in Handlers[r.op].checks \ Loose(r.op) :
             \A i \in Referred(r.columns, c) : OfCompanyNext(i, r.company)
        /\ r.op \in Drafting \cup {"createClaim"} =>
             \A i \in r.employee : OfCompanyNext(i, r.company)
        /\ r.op = "updateShiftPolicy" =>
             \A i \in Referred(r.columns, "businessSite") : OfCompanyNext(i, r.company)
        /\ r.op \in {"addVersion", "renderPdf"} => OfCompanyNext(TargetOf(q), r.company)
        /\ r.op \in Drafting /\ r.at >= 4 => OfCompanyNext(NewId(q, "Document"), r.company)
        /\ r.op = "renderPdf" /\ r.at >= 6 => OfCompanyNext(r.row, r.company)

\* The inductive invariant of the companies.
CompaniesOK == StayInCompany(rows) /\ \A q \in RequestIds : Scoped(q)

LEMMA CompaniesInit == Init => CompaniesOK
  <1> SUFFICES ASSUME Init PROVE CompaniesOK
    OBVIOUS
  <1>1. PICK desk \in Desks :
          /\ rows = desk.rows
          /\ request = [q \in UNION {{f} \X (1..FormOf[f].requests) : f \in desk.forms} |-> Idle]
    BY DEF Init
  <1>2. ASSUME NEW q \in RequestIds
        PROVE  Scoped(q)
    <2>1. request[q] = Idle
      BY <1>1 DEF RequestIds
    <2> QED
      BY <2>1, IdleFields DEF Scoped
  <1> QED
    BY <1>1, <1>2, DesksAssumption DEF CompaniesOK

LEMMA NextSettled ==
  ASSUME NEW i
  PROVE  Settled(i)' <=> SettledNext(i)
  BY DEF Settled, SettledNext, ToCome, ToComeNext, RequestIds

LEMMA NextScoped ==
  ASSUME NEW q, ScopedNext(q)
  PROVE  Scoped(q)'
  BY DEF Scoped, ScopedNext, OfCompany, OfCompanyNext, Settled, SettledNext, ToCome, ToComeNext,
         RequestIds, TargetOf, FormFor, NewId

LEMMA ScopedReferences ==
  ASSUME NEW kind \in DOMAIN ScopedColumns, NEW c \in ScopedColumns[kind]
  PROVE  \E r \in References : r.kind = kind /\ r.column = c
  <1> DEFINE Found(k, column) == \E r \in References : r.kind = k /\ r.column = column
             Listed(k, column, to, onDelete) == Reference(k, column, to, onDelete) \in References
  <1>0. ASSUME NEW k, NEW column, NEW to, NEW onDelete, Listed(k, column, to, onDelete)
        PROVE  Found(k, column)
    BY <1>0 DEF Reference
  <1>1. /\ \A k \in {"Vendor", "CostCenter", "Project", "JournalEntry"} :
             Listed(k, "legalEntity", "LegalEntity", "SetNull")
        /\ Listed("JournalEntry", "accounts", "Account", "Restrict")
        /\ Listed("ExpenseClaim", "employee", "Employee", "Restrict")
    BY DEF References, FinanceReferences, ClaimReferences
  <1>2. ASSUME NEW r \in { <<"expenseClaim", "ExpenseClaim">>, <<"vendor", "Vendor">>,
                           <<"costCenter", "CostCenter">>, <<"project", "Project">> }
        PROVE  Listed("JournalEntry", r[1], r[2], "SetNull")
    BY DEF References, FinanceReferences
  <1>3. ASSUME NEW r \in { <<"legalEntity", "LegalEntity">>, <<"document", "Document">>,
                           <<"costCenter", "CostCenter">>, <<"project", "Project">>,
                           <<"vendor", "Vendor">>, <<"receiptFile", "FileObject">> }
        PROVE  Listed("ExpenseClaim", r[1], r[2], "SetNull")
    BY DEF References, ClaimReferences
  <1>4. /\ Listed("LeaveRequest", "employee", "Employee", "Cascade")
        /\ Listed("LeaveRequest", "leavePolicy", "LeavePolicy", "Restrict")
        /\ Listed("LeaveRequest", "document", "Document", "SetNull")
        /\ Listed("AttendanceCorrection", "employee", "Employee", "Cascade")
        /\ Listed("AttendanceCorrection", "document", "Document", "SetNull")
    BY DEF References, RequestReferences
  <1>5. /\ Listed("Document", "ownerEmployee", "Employee", "SetNull")
        /\ Listed("DocumentVersion", "document", "Document", "Cascade")
        /\ Listed("DocumentVersion", "pdfFile", "FileObject", "SetNull")
        /\ Listed("DocumentVersion", "attachments", "FileObject", "SetNull")
        /\ Listed("SignatureAsset", "file", "FileObject", "Cascade")
    BY DEF References, DocumentReferences
  <1>6. Listed("ImportJob", "sourceFile", "FileObject", "SetNull")
    BY DEF References, JobReferences
  <1>11. Listed("ShiftPolicy", "businessSite", "BusinessSite", "SetNull")
    BY DEF References, PolicyReferences
  <1>8. /\ \A k \in {"Vendor", "CostCenter", "Project"} : Found(k, "legalEntity")
        /\ \A column \in {"legalEntity", "expenseClaim", "accounts", "vendor", "costCenter",
                           "project"} : Found("JournalEntry", column)
    BY <1>0, <1>1, <1>2
  <1>9. \A column \in {"employee", "costCenter", "project", "document", "vendor", "receiptFile"} :
          Found("ExpenseClaim", column)
    BY <1>0, <1>1, <1>3
  <1>10. /\ \A column \in {"employee", "leavePolicy", "document"} : Found("LeaveRequest", column)
         /\ \A column \in {"employee", "document"} : Found("AttendanceCorrection", column)
         /\ \A column \in {"document", "pdfFile", "attachments"} :
              Found("DocumentVersion", column)
         /\ Found("SignatureAsset", "file") /\ Found("Document", "ownerEmployee")
         /\ Found("ImportJob", "sourceFile") /\ Found("ShiftPolicy", "businessSite")
    BY <1>0, <1>4, <1>5, <1>6, <1>11
  <1> HIDE DEF Found, Listed
  <1>7. Found(kind, c)
    BY <1>8, <1>9, <1>10 DEF ScopedColumns
  <1> QED
    BY <1>7 DEF Found

LEMMA ScopedKindsListed ==
  /\ DOMAIN ScopedColumns = ScopedKinds
  /\ ScopedColumns["Document"] = {"ownerEmployee"}
  /\ ScopedColumns["DocumentVersion"] = {"document", "pdfFile", "attachments"}
  BY DEF ScopedColumns, ScopedKinds

\* A row that a scoped column leads to is there.
LEMMA ScopedThere ==
  ASSUME NEW db, WellFormed(db), NEW i \in DOMAIN db, i[3] \in DOMAIN ScopedColumns,
         NEW c \in ScopedColumns[i[3]], NEW j \in Referred(db[i], c)
  PROVE  j \in DOMAIN db
  <1>1. PICK r \in References : r.kind = i[3] /\ r.column = c
    BY ScopedReferences
  <1>2. r \in ReferencesOf(db[i])
    BY <1>1, ReferencesOfRow DEF WellFormed
  <1> QED
    BY <1>1, <1>2 DEF WellFormed, Intact

LEMMA OfCompanyAfter ==
  ASSUME Life, RowsOK, Fresh, [Next]_vars, NEW i, NEW company, OfCompany(i, company)
  PROVE  OfCompanyNext(i, company)
  <1>1. Settled(i) /\ SettledNext(i)
    BY SettledAfter, NextSettled DEF OfCompany
  <1>2. CASE i \in DOMAIN rows
    BY <1>1, <1>2, RowsOverTime DEF OfCompany, OfCompanyNext, OldRowKept
  <1>3. CASE i \in DOMAIN rows' /\ i \notin DOMAIN rows
    <2>1. PICK q \in Running : i = NewId(q, i[3]) /\ Creates(request[q].op, request[q].at, i[3])
      BY <1>3, NewRowsBy
    <2>2. q = <<i[1], i[2]>> /\ q \in RequestIds
      BY <2>1, RunningFacts, NewIds, RequestPairs
    <2>3. /\ request[q].phase = "running" /\ Len(Does(request[q].op)) \in 2..8
          /\ request[q].at \in 1..Len(Does(request[q].op))
      BY RunningFacts DEF TableEntry
    <2>4. request[q].at \in request[q].at..Len(Does(request[q].op))
      <3>1. \A m \in 2..8 : \A n \in 1..m : n \in n..m
        OBVIOUS
      <3> QED
        BY <2>3, <3>1
    <2> QED
      BY <1>1, <2>1, <2>2, <2>3, <2>4 DEF Settled, ToCome
  <1> QED
    BY <1>1, <1>2, <1>3 DEF OfCompanyNext

\* A row that a request has just written is of its company for good.
LEMMA OfCompanyNow ==
  ASSUME Life, Fresh, [Next]_vars, NEW i \in DOMAIN rows', NEW company,
         rows'[i].company = company
  PROVE  OfCompanyNext(i, company)
  BY FreshStep, NextSettled DEF Fresh, OfCompanyNext

LEMMA CompletedChecked ==
  ASSUME NEW q \in RequestIds, TableEntry(request[q].op),
         NEW c \in Handlers[request[q].op].checks \ Loose(request[q].op)
  PROVE  Referred(Completed(q), c) = Referred(request[q].columns, c)
  <1>1. CASE request[q].op = "createClaim"
    <2>1. c # "legalEntity"
      BY <1>1 DEF Loose
    <2> QED
      BY <1>1, <2>1 DEF Completed, Over, Referred
  <1>2. CASE request[q].op = "updateShiftPolicy"
    <2>1. c \notin Handlers[request[q].op].checks
      BY <1>2 DEF TableEntry
    <2> QED
      BY <2>1
  <1>3. CASE request[q].op \notin {"createClaim", "updateShiftPolicy"}
    BY <1>3 DEF Completed
  <1> QED
    BY <1>1, <1>2, <1>3

\* The row of a document that is drafted.
DocumentRow(q) ==
  [kind |-> "Document", company |-> request[q].company, currentVersionNo |-> 1,
   template |-> Referred(request[q].columns, "template"), ownerEmployee |-> request[q].employee]

LEMMA DraftPassed ==
  ASSUME Life, NEW q \in RequestIds, Goes(q), Does(request[q].op)[request[q].at] = "draft"
  PROVE  LET document == NewId(q, "Document")
         IN  /\ request'[q].row = document
             /\ rows' = Stored(Stored(rows, document, DocumentRow(q)),
                               NewId(q, "DocumentVersion"), VersionRow(q, document, 1))
  <1> DEFINE id == NewId(q, "Document")
             new == [request[q] EXCEPT !.row = id]
  <1>1. Draft(q)
    BY WhichStatement DEF Goes
  <1>2. ~Refuse(q)
    BY GoingOn
  <1>3. /\ Proceed(q, new)
        /\ rows' = Stored(Stored(rows, id, DocumentRow(q)), NewId(q, "DocumentVersion"),
                          VersionRow(q, id, 1))
    BY <1>1, <1>2 DEF Draft, DocumentRow
  <1>4. DOMAIN request[q] = DOMAIN Idle
    BY DEF Life, RequestOK
  <1>5. new.at = request[q].at /\ DOMAIN new = DOMAIN Idle /\ new.row = id
    BY <1>4 DEF Idle
  <1> HIDE DEF new
  <1>6. request'[q] = [new EXCEPT !.at = @ + 1]
    BY <1>3, <1>5, GoingOn
  <1>7. request'[q].row = new.row
    BY <1>5, <1>6 DEF Idle
  <1> QED
    BY <1>3, <1>5, <1>7

LEMMA ScopedByCheck ==
  ASSUME Life, RowsOK, Fresh, StayInCompany(rows), [Next]_vars, NEW q \in RequestIds, Goes(q),
         Does(request[q].op)[request[q].at] = "check"
  PROVE  ScopedNext(q)
  <1> DEFINE new == request'[q]
             op == request[q].op
  <1>1. /\ AccessGranted(q) /\ ReferencesValid(q) /\ Acceptable(q)
        /\ new.company = CompanyFor(q) /\ new.columns = Completed(q)
        /\ new.employee = EmployeeFor(q) /\ UNCHANGED rows
    BY CheckPassed
  <1>2. /\ new.op = op /\ new.at = request[q].at + 1 /\ TableEntry(op)
        /\ request[q].at \in 1..8 /\ StatementAt(op, request[q].at)
    BY GoingOnFields DEF Life
  <1>3. request[q].at = 2 /\ op \notin Unchecked
    BY <1>2 DEF StatementAt
  <1>4. ASSUME NEW i \in DOMAIN rows, NEW company, rows[i].company = company
        PROVE  OfCompanyNext(i, company)
    BY <1>1, <1>4, OfCompanyNow
  <1>5. ASSUME NEW c \in Handlers[op].checks \ Loose(op), NEW i \in Referred(new.columns, c)
        PROVE  OfCompanyNext(i, new.company)
    <2>1. i \in Referred(request[q].columns, c)
      BY <1>1, <1>2, <1>5, CompletedChecked
    <2>2. i \in DOMAIN rows /\ rows[i].company = CompanyFor(q)
      BY <1>1, <1>5, <2>1 DEF ReferencesValid, HandlerOf, Loose
    <2> QED
      BY <1>1, <1>4, <2>2
  <1>6. ASSUME op \in Drafting \cup {"createClaim"}, NEW i \in new.employee
        PROVE  OfCompanyNext(i, new.company)
    <2>1. CompanyFor(q) = request[q].company
      BY <1>2, <1>6 DEF CompanyFor, HandlerOf, TableEntry
    <2>2. OwnEmployee(q) \subseteq {e \in DOMAIN rows : rows[e].company = request[q].company}
      BY DEF OwnEmployee, Of, OfKind
    <2>3. CASE op = "createClaim"
      <3>1. EmployeeValid(q)
        BY <1>1, <2>3 DEF Acceptable
      <3>2. i \in DOMAIN rows /\ rows[i].company = request[q].company
        BY <1>1, <1>6, <2>2, <3>1 DEF EmployeeValid, Of, OfKind
      <3> QED
        BY <1>1, <1>4, <2>1, <3>2
    <2>4. CASE op \in Drafting
      <3>1. op # "createClaim"
        BY <2>4 DEF Drafting
      <3>2. i \in DOMAIN rows /\ rows[i].company = request[q].company
        BY <1>1, <1>6, <2>2, <3>1 DEF EmployeeFor
      <3> QED
        BY <1>1, <1>4, <2>1, <3>2
    <2> QED
      BY <1>6, <2>3, <2>4
  <1>7. ASSUME op \in {"addVersion", "renderPdf"}
        PROVE  OfCompanyNext(TargetOf(q), new.company)
    <2>1. HandlerOf(q).scope = "own"
      BY <1>2, <1>7 DEF TableEntry, HandlerOf
    <2>2. CompanyFor(q) = request[q].company
      BY <2>1 DEF CompanyFor
    <2>3. TargetOf(q) \in DOMAIN rows /\ rows[TargetOf(q)].company = request[q].company
      BY <1>1, <2>1 DEF AccessGranted, Of, OfKind
    <2> QED
      BY <1>1, <1>4, <2>2, <2>3
  <1>8. ~(new.at >= 4)
    BY <1>2, <1>3
  <1>9. ASSUME op = "updateShiftPolicy", NEW i \in Referred(new.columns, "businessSite")
        PROVE  OfCompanyNext(i, new.company)
    <2> DEFINE target == TargetOf(q)
    <2>1. HandlerOf(q).scope = "row" /\ HandlerOf(q).kind = "ShiftPolicy"
      BY <1>2, <1>9 DEF TableEntry, HandlerOf
    <2>2. CompanyFor(q) = rows[target].company
      BY <2>1 DEF CompanyFor
    <2>3. target \in DOMAIN rows /\ target[3] = "ShiftPolicy"
      BY <1>1, <2>1 DEF AccessGranted, TableOf, Of, OfKind
    <2>4. i \in Referred(rows[target], "businessSite")
      BY <1>1, <1>9 DEF Completed, Over, Referred
    <2>5. /\ "ShiftPolicy" \in DOMAIN ScopedColumns
          /\ "businessSite" \in ScopedColumns["ShiftPolicy"]
      BY DEF ScopedColumns
    <2>6. i \in DOMAIN rows /\ rows[i].company = rows[target].company
      BY <2>3, <2>4, <2>5, ScopedThere DEF StayInCompany, RowsOK
    <2> QED
      BY <1>1, <1>4, <2>2, <2>6
  <1> QED
    BY <1>2, <1>3, <1>5, <1>6, <1>7, <1>8, <1>9 DEF ScopedNext

LEMMA ScopedAfter ==
  ASSUME Life, RowsOK, Fresh, StayInCompany(rows), [Next]_vars, NEW q \in RequestIds, Scoped(q)
  PROVE  Scoped(q)'
  <1>0. Move(q) /\ RequestOK(q)
    BY Moves DEF Life
  <1> SUFFICES ScopedNext(q)
    BY NextScoped
  <1>k. ASSUME NEW i, NEW company, OfCompany(i, company)
        PROVE  OfCompanyNext(i, company)
    BY <1>k, OfCompanyAfter
  <1>1. CASE Stays(q)
    BY <1>1, <1>k DEF Stays, Scoped, ScopedNext
  <1>2. CASE Starts(q)
    BY <1>2 DEF Starts, ScopedNext
  <1>3. CASE Ends(q)
    BY <1>3 DEF Ends, ScopedNext
  <1>4. CASE Goes(q)
    <2> DEFINE s == Does(request[q].op)[request[q].at]
               op == request[q].op
    <2>1. /\ request'[q].phase = "running" /\ request'[q].op = op
          /\ request'[q].at = request[q].at + 1 /\ request[q].phase = "running"
          /\ op \in Ops /\ TableEntry(op)
          /\ StatementAt(op, request[q].at) /\ request[q].at \in 1..8
          /\ s # "check" => request'[q].columns = request[q].columns
                            /\ request'[q].employee = request[q].employee
          /\ s \notin {"check", "guard"} => request'[q].company = request[q].company
          /\ s \notin {"insert", "update", "delete", "endSession", "draft", "version", "file"} =>
               request'[q].row = request[q].row
      BY <1>0, <1>4, GoingOnFields DEF Goes
    <2>2. CASE request[q].at = 1
      BY <2>1, <2>2 DEF ScopedNext
    <2>3. CASE op \in Unchecked
      BY <2>1, <2>3 DEF ScopedNext
    <2>4. CASE request[q].at = 2 /\ op \notin Unchecked
      <3>1. s = "check"
        BY <2>1, <2>4 DEF StatementAt, Unchecked, Filing, FilePlace, InsertPlace, Drafting
      <3> QED
        BY <1>4, <3>1, ScopedByCheck
    <2>5. CASE request[q].at >= 3 /\ op \notin Unchecked
      <3>1. s \notin {"check", "guard"}
        BY <2>1, <2>5 DEF StatementAt
      <3>2. /\ request'[q].columns = request[q].columns
            /\ request'[q].employee = request[q].employee
            /\ request'[q].company = request[q].company
        BY <2>1, <3>1
      <3>3. ASSUME op \in Drafting
            PROVE  OfCompanyNext(NewId(q, "Document"), request[q].company)
        <4>1. CASE request[q].at = 3
          <5> DEFINE d == NewId(q, "Document")
                     v == NewId(q, "DocumentVersion")
          <5>1. s = "draft"
            BY <2>1, <3>3, <4>1 DEF TableEntry
          <5>4. d # v
            BY NewIds
          <5>5. rows' = Stored(Stored(rows, d, DocumentRow(q)), v, VersionRow(q, d, 1))
            BY <1>4, <5>1, DraftPassed
          <5>6. DocumentRow(q).company = request[q].company
            BY DEF DocumentRow
          <5>2. d \in DOMAIN rows' /\ rows'[d].company = request[q].company
            BY <5>4, <5>5, <5>6 DEF Stored
          <5> HIDE DEF d
          <5>3. OfCompanyNext(d, request[q].company)
            BY <5>2, OfCompanyNow
          <5> QED
            BY <5>3 DEF d
        <4>2. CASE request[q].at >= 4
          BY <1>k, <2>1, <2>5, <3>3, <4>2 DEF Scoped
        <4> QED
          BY <2>1, <2>5, <4>1, <4>2
      <3>4. ASSUME op = "renderPdf", request'[q].at >= 6
            PROVE  OfCompanyNext(request'[q].row, request[q].company)
        <4>1. CASE request[q].at = 5
          <5>1. s = "file"
            BY <2>1, <3>4, <4>1 DEF TableEntry, Filing, FilePlace
          <5>3. rows' = Stored(rows, request'[q].row, FileRow(q))
            BY <1>4, <5>1, FilePassed
          <5>4. FileRow(q).company = request[q].company
            BY DEF FileRow
          <5>2. /\ request'[q].row \in DOMAIN rows'
                /\ rows'[request'[q].row].company = request[q].company
            BY <5>3, <5>4 DEF Stored
          <5> QED
            BY <5>2, OfCompanyNow
        <4>2. CASE request[q].at >= 6
          <5>1. request'[q].row = request[q].row
            BY <2>1, <3>4, <4>2
               DEF StatementAt, Filing, FilePlace, InsertPlace, Drafting, Changing, Removing
          <5> QED
            BY <1>k, <2>1, <2>5, <3>4, <4>2, <5>1 DEF Scoped
        <4> QED
          BY <2>1, <3>4, <4>1, <4>2
      <3>5. /\ \A c \in Handlers[op].checks \ Loose(op) :
                 \A i \in Referred(request[q].columns, c) : OfCompanyNext(i, request[q].company)
            /\ op \in Drafting \cup {"createClaim"} =>
                 \A i \in request[q].employee : OfCompanyNext(i, request[q].company)
            /\ op = "updateShiftPolicy" =>
                 \A i \in Referred(request[q].columns, "businessSite") :
                   OfCompanyNext(i, request[q].company)
            /\ op \in {"addVersion", "renderPdf"} => OfCompanyNext(TargetOf(q), request[q].company)
        BY <1>k, <2>1, <2>5 DEF Scoped
      <3> QED
        BY <2>1, <3>2, <3>3, <3>4, <3>5 DEF ScopedNext
    <2> QED
      BY <2>1, <2>2, <2>3, <2>4, <2>5
  <1> QED
    BY <1>0, <1>1, <1>2, <1>3, <1>4 DEF Move

\* The columns of the rows that are inserted.
LEMMA NewColumns ==
  ASSUME NEW q \in RequestIds, TableEntry(request[q].op),
         request[q].op \notin {"createDocument", "addVersion", "renderPdf"},
         HandlerOf(q).kind \in ScopedKinds,
         NEW c \in ScopedColumns[HandlerOf(q).kind],
         {"kind", "company"} \cap DOMAIN request[q].columns = {}
  PROVE  \/ /\ Referred(NewRow(q), c) = Referred(request[q].columns, c)
            /\ c \in HandlerOf(q).checks \ Loose(request[q].op)
         \/ /\ Referred(NewRow(q), c) = request[q].employee
            /\ request[q].op \in Drafting \cup {"createClaim"}
         \/ /\ Referred(NewRow(q), c) = {NewId(q, "Document")}
            /\ request[q].op \in Drafting
         \/ /\ Referred(NewRow(q), c) = Referred(request[q].columns, c)
            /\ c = "businessSite" /\ request[q].op = "updateShiftPolicy"
  <1> DEFINE kind == HandlerOf(q).kind
             op == request[q].op
             kept == [d \in DOMAIN request[q].columns \ {"attachments"} |-> request[q].columns[d]]
             common == Over([kind |-> kind, company |-> request[q].company], kept)
  <1>1. c \in (HandlerOf(q).checks \ Loose(op)) \cup Own(op) /\ c \notin {"kind", "company"}
    <2>1. c \in (HandlerOf(q).checks \ Loose(op)) \cup Own(op)
      BY DEF TableEntry, HandlerOf
    <2>2. PICK r \in References : r.column = c
      BY ScopedReferences, ScopedKindsListed
    <2> QED
      BY <2>1, <2>2, ReferenceFacts
  <1>0. kind \notin {"Document", "DocumentVersion"}
    BY DEF TableEntry, HandlerOf
  <1>2. c # "attachments"
    BY <1>0 DEF ScopedColumns, ScopedKinds
  <1>3. Referred(common, c) = Referred(request[q].columns, c)
    BY <1>1, <1>2 DEF Over, Referred
  <1> HIDE DEF common, kept
  <1>4. ASSUME NEW more, c \notin DOMAIN more
        PROVE  Referred(Over(more, common), c) = Referred(common, c)
    BY <1>4 DEF Over, Referred
  <1>5. ASSUME NEW more, c \in DOMAIN more
        PROVE  Referred(Over(more, common), c) = more[c]
    BY <1>5 DEF Over, Referred
  <1>6. CASE kind = "ExpenseClaim"
    <2> DEFINE more == [employee |-> request[q].employee]
    <2>1. NewRow(q) = Over(more, common) /\ op = "createClaim"
      BY <1>6 DEF NewRow, common, kept, TableEntry, HandlerOf
    <2>2. DOMAIN more = {"employee"} /\ more.employee = request[q].employee
      OBVIOUS
    <2>3. Own(op) = {"employee"}
      BY <2>1 DEF Own, Drafting
    <2> HIDE DEF more
    <2> QED
      BY <1>1, <1>3, <1>4, <1>5, <2>1, <2>2, <2>3
  <1>7. CASE kind \in {"LeaveRequest", "AttendanceCorrection"}
    <2> DEFINE more == [employee |-> request[q].employee, document |-> {NewId(q, "Document")}]
    <2>1. NewRow(q) = Over(more, common) /\ op \in Drafting
      BY <1>7 DEF NewRow, common, kept, TableEntry, HandlerOf
    <2>2. /\ DOMAIN more = {"employee", "document"} /\ more.employee = request[q].employee
          /\ more.document = {NewId(q, "Document")}
      OBVIOUS
    <2>3. Own(op) = {"employee", "document"}
      BY <2>1 DEF Own, Drafting
    <2> HIDE DEF more
    <2> QED
      BY <1>1, <1>3, <1>4, <1>5, <2>1, <2>2, <2>3
  <1>8. CASE kind \notin {"ExpenseClaim", "LeaveRequest", "AttendanceCorrection"}
    <2>1. op \notin Drafting \cup {"createClaim"}
      BY <1>0, <1>8 DEF TableEntry, HandlerOf
    <2>2. Own(op) = {} \/ (Own(op) = {"businessSite"} /\ op = "updateShiftPolicy")
      <3>1. Own(op) = IF op = "updateShiftPolicy" THEN {"businessSite"} ELSE {}
        BY <2>1, Zenon DEF Own
      <3> QED
        BY <3>1, Zenon
    <2>3. Referred(NewRow(q), c) = Referred(common, c)
      <3>1. CASE kind = "JournalEntry"
        <4> DEFINE more == [number |-> request[q].no]
        <4>1. NewRow(q) = Over(more, common)
          BY <3>1 DEF NewRow, common, kept
        <4>2. c \notin DOMAIN more
          BY <3>1 DEF ScopedColumns
        <4> HIDE DEF more
        <4> QED
          BY <1>4, <4>1, <4>2
      <3>2. CASE kind = "SignatureAsset"
        <4> DEFINE more == [owner |-> request[q].user]
        <4>1. NewRow(q) = Over(more, common)
          BY <3>2 DEF NewRow, common, kept
        <4>2. c \notin DOMAIN more
          BY <3>2 DEF ScopedColumns
        <4> HIDE DEF more
        <4> QED
          BY <1>4, <4>1, <4>2
      <3>3. CASE kind = "ShiftPolicy"
        <4> DEFINE more == [version |-> request[q].no]
        <4>1. NewRow(q) = Over(more, common)
          BY <3>3 DEF NewRow, common, kept
        <4>2. c \notin DOMAIN more
          BY <3>3 DEF ScopedColumns
        <4> HIDE DEF more
        <4> QED
          BY <1>4, <4>1, <4>2
      <3>4. CASE kind \notin {"JournalEntry", "SignatureAsset", "ShiftPolicy"}
        <4>1. NewRow(q) = common
          BY <1>8, <3>4 DEF NewRow, common, kept, ScopedKinds
        <4> QED
          BY <4>1
      <3> QED
        BY <3>1, <3>2, <3>3, <3>4
    <2> QED
      BY <1>1, <1>3, <2>2, <2>3
  <1> QED
    BY <1>6, <1>7, <1>8

\* The rows a step creates lead to rows of their company.
LEMMA InsertedScoped ==
  ASSUME Life, RowsOK, Fresh, CompaniesOK, NEW q \in Running, Statement(q), Insert(q),
         NEW i \in DOMAIN rows', i \notin DOMAIN rows, i[3] \in ScopedKinds
  PROVE  /\ rows'[i].company = request[q].company
         /\ \A c \in ScopedColumns[i[3]] : \A j \in Referred(rows'[i], c) :
              OfCompany(j, request[q].company)
  <1> DEFINE kind == HandlerOf(q).kind
             op == request[q].op
             s == Does(op)[request[q].at]
  <1>1. /\ Write(q, NewId(q, kind), NewRow(q), [request[q] EXCEPT !.row = NewId(q, kind)])
        /\ s = "insert" /\ request[q].at = InsertPlace(op)
    BY InsertFacts
  <1>2. i = NewId(q, kind) /\ i[3] = kind
    BY <1>1, Wrote, NewIds
  <1>3. rows'[i] = NewRow(q)
    BY <1>1, <1>2 DEF Write, Stored
  <1>4. /\ q \in RequestIds /\ request[q].phase = "running" /\ TableEntry(op)
        /\ StatementAt(op, request[q].at) /\ Scoped(q)
        /\ {"kind", "company"} \cap DOMAIN request[q].columns = {}
    BY RunningFacts DEF CompaniesOK
  <1>5. op \notin {"createDocument", "addVersion", "renderPdf"}
    BY <1>1, <1>4 DEF StatementAt
  <1>6. kind \in ScopedKinds
    BY <1>2
  <1>7. op \notin Unchecked /\ kind \notin {"UserSession", "Company"}
    BY <1>4, <1>5, <1>6 DEF TableEntry, HandlerOf, ScopedKinds
  <1>8. request[q].at >= 3 /\ (op \in Drafting => request[q].at >= 4)
    BY <1>1, <1>7 DEF InsertPlace, Unchecked
  <1>9. NewRow(q).company = request[q].company
    BY <1>4, <1>7, NewRows
  <1>10. ASSUME NEW c \in ScopedColumns[kind], NEW j \in Referred(NewRow(q), c)
         PROVE  OfCompany(j, request[q].company)
    <2>1. CASE /\ Referred(NewRow(q), c) = Referred(request[q].columns, c)
               /\ c \in HandlerOf(q).checks \ Loose(op)
      BY <1>4, <1>7, <1>8, <1>10, <2>1 DEF Scoped, HandlerOf
    <2>2. CASE /\ Referred(NewRow(q), c) = request[q].employee
               /\ op \in Drafting \cup {"createClaim"}
      BY <1>4, <1>7, <1>8, <1>10, <2>2 DEF Scoped
    <2>3. CASE Referred(NewRow(q), c) = {NewId(q, "Document")} /\ op \in Drafting
      BY <1>4, <1>7, <1>8, <1>10, <2>3 DEF Scoped
    <2>4. CASE /\ Referred(NewRow(q), c) = Referred(request[q].columns, c)
               /\ c = "businessSite" /\ op = "updateShiftPolicy"
      BY <1>4, <1>7, <1>8, <1>10, <2>4 DEF Scoped
    <2> QED
      BY <1>4, <1>5, <1>6, <1>10, <2>1, <2>2, <2>3, <2>4, NewColumns
  <1> QED
    BY <1>2, <1>3, <1>9, <1>10

LEMMA StaysInCompany ==
  ASSUME Life, RowsOK, Fresh, CompaniesOK, [Next]_vars
  PROVE  StayInCompany(rows')
  <1>0. WellFormed(rows')
    BY RowsStep DEF RowsOK
  <1>s. DOMAIN ScopedColumns = ScopedKinds
    BY ScopedKindsListed
  <1> SUFFICES ASSUME NEW i \in DOMAIN rows', i[3] \in ScopedKinds,
                      NEW c \in ScopedColumns[i[3]], NEW j \in Referred(rows'[i], c)
               PROVE  rows'[j].company = rows'[i].company
    BY <1>s DEF StayInCompany
  <1>1. j \in DOMAIN rows'
    BY <1>0, <1>s, ScopedThere
  <1>c. ASSUME NEW company, OfCompany(j, company)
        PROVE  rows'[j].company = company
    BY <1>1, <1>c, OfCompanyAfter DEF OfCompanyNext
  <1>d. \A d \in DOMAIN rows : OfCompany(d, rows[d].company)
    BY DEF OfCompany, Fresh
  <1>2. CASE i \in DOMAIN rows
    <2>1. OldRowKept(i)
      BY <1>2, RowsOverTime
    <2>2. rows'[i].company = rows[i].company /\ DOMAIN rows'[i] = DOMAIN rows[i]
          /\ c \in DOMAIN rows[i] /\ ColumnKept(i, c) /\ j \in rows'[i][c]
      BY <2>1 DEF OldRowKept, ScopedKinds, Referred
    <2>3. CASE rows'[i][c] \subseteq rows[i][c]
      <3>1. j \in Referred(rows[i], c)
        BY <2>2, <2>3 DEF Referred
      <3>2. j \in DOMAIN rows
        BY <1>2, <1>s, <3>1, ScopedThere DEF RowsOK
      <3>3. rows[j].company = rows[i].company
        BY <1>2, <1>s, <3>1 DEF CompaniesOK, StayInCompany
      <3> QED
        BY <1>c, <1>d, <2>2, <3>2, <3>3
    <2>4. CASE i[3] = "DocumentVersion" /\ c = "pdfFile" /\ ~(rows'[i][c] \subseteq rows[i][c])
      <3>1. PICK q \in Running : /\ Link(q) /\ rows'[i].pdfFile = {request[q].row}
                                 /\ i \in VersionsOf(TargetOf(q), request[q].no)
        BY <2>2, <2>4 DEF ColumnKept
      <3>2. j = request[q].row
        BY <2>2, <2>4, <3>1
      <3>3. /\ request[q].op = "renderPdf" /\ request[q].at = 7 /\ Scoped(q)
            /\ request[q].phase = "running"
        BY <3>1, RunningFacts DEF Link, LinkTo, At, HandlerOf, Does, StatementAt, CompaniesOK
      <3>4. OfCompany(j, request[q].company) /\ OfCompany(TargetOf(q), request[q].company)
        BY <3>2, <3>3 DEF Scoped, Unchecked
      <3>5. "document" \in ScopedColumns["DocumentVersion"]
        BY ScopedKindsListed
      <3>6. TargetOf(q) \in Referred(rows[i], "document")
        BY <3>1, <1>2 DEF VersionsOf, Referred, Of, OfKind, RowsOK, WellFormed, NotNull
      <3>7. TargetOf(q) \in DOMAIN rows /\ rows[TargetOf(q)].company = rows[i].company
        BY <1>2, <1>s, <2>4, <3>5, <3>6, ScopedThere DEF CompaniesOK, StayInCompany, RowsOK
      <3> QED
        BY <1>c, <2>2, <3>4, <3>7 DEF OfCompany
    <2>5. rows'[i][c] \subseteq rows[i][c] \/ (i[3] = "DocumentVersion" /\ c = "pdfFile")
      <3>1. PICK r \in References : r.kind = i[3] /\ r.column = c
        BY <1>s, ScopedReferences
      <3>2. c \notin {"expired", "isDefault", "currentVersionNo"}
        BY <3>1, ReferenceFacts
      <3> QED
        BY <2>2, <3>2 DEF ColumnKept
    <2> QED
      BY <2>3, <2>4, <2>5
  <1>3. CASE i \notin DOMAIN rows
    <2>1. PICK q \in Running : /\ Statement(q) /\ Writes(q) /\ i = NewId(q, i[3])
                               /\ Creates(request[q].op, request[q].at, i[3])
      BY <1>3, NewRowsBy
    <2> DEFINE op == request[q].op
               s == Does(op)[request[q].at]
               d == NewId(q, "Document")
               v == NewId(q, "DocumentVersion")
    <2>2. /\ q \in RequestIds /\ request[q].phase = "running" /\ TableEntry(op)
          /\ StatementAt(op, request[q].at) /\ Scoped(q)
      BY RunningFacts DEF CompaniesOK
    <2>3. CASE s = "insert"
      <3>1. Insert(q)
        BY <2>1, <2>3, WhichStatement
      <3>2. /\ rows'[i].company = request[q].company
            /\ OfCompany(j, request[q].company)
        BY <1>3, <2>1, <3>1, InsertedScoped
      <3> QED
        BY <1>c, <3>2
    <2>4. CASE s = "draft"
      <3>1. Draft(q) /\ op \in Drafting /\ request[q].at = 3 /\ op \notin Unchecked
        BY <2>1, <2>2, <2>4, WhichStatement DEF StatementAt, Drafting, Unchecked
      <3>2. rows' = Stored(Stored(rows, d, DocumentRow(q)), v, VersionRow(q, d, 1))
        BY <1>3, <3>1 DEF Draft, DocumentRow
      <3>3. d # v
        BY NewIds
      <3>4. rows'[d] = DocumentRow(q) /\ rows'[v] = VersionRow(q, d, 1)
        BY <3>2, <3>3 DEF Stored
      <3>5. /\ DocumentRow(q).company = request[q].company
            /\ VersionRow(q, d, 1).company = request[q].company
            /\ Referred(DocumentRow(q), "ownerEmployee") = request[q].employee
            /\ Referred(VersionRow(q, d, 1), "document") = {d}
            /\ Referred(VersionRow(q, d, 1), "pdfFile") = {}
            /\ Referred(VersionRow(q, d, 1), "attachments") =
                 Referred(request[q].columns, "attachments")
        BY DEF DocumentRow, VersionRow, Referred
      <3>6. i = d \/ i = v
        BY <1>3, <3>2 DEF Stored
      <3>7. CASE i = d
        <4>1. c = "ownerEmployee"
          BY <3>7, NewIds, ScopedKindsListed
        <4>2. OfCompany(j, request[q].company)
          BY <2>2, <3>1, <3>4, <3>5, <3>7, <4>1 DEF Scoped
        <4> QED
          BY <1>c, <3>4, <3>5, <3>7, <4>2
      <3>8. CASE i = v
        <4>1. c \in {"document", "pdfFile", "attachments"}
          BY <3>8, NewIds, ScopedKindsListed
        <4>2. CASE c = "document"
          BY <3>4, <3>5, <3>8, <4>2
        <4>3. CASE c = "attachments"
          <5>1. "attachments" \in Handlers[op].checks \ Loose(op)
            BY <2>2, <3>1 DEF TableEntry, Loose
          <5>2. OfCompany(j, request[q].company)
            BY <2>2, <3>1, <3>4, <3>5, <3>8, <4>3, <5>1 DEF Scoped
          <5> QED
            BY <1>c, <3>4, <3>5, <3>8, <5>2
        <4> QED
          BY <3>4, <3>5, <3>8, <4>1, <4>2, <4>3
      <3> QED
        BY <3>6, <3>7, <3>8
    <2>5. CASE s = "version"
      <3>1. Version(q) /\ op = "addVersion" /\ request[q].at = 3
        BY <2>1, <2>2, <2>5, WhichStatement DEF StatementAt
      <3>2. rows'[i] = VersionRow(q, TargetOf(q), request[q].no) /\ i = v
        BY <1>3, <3>1 DEF Version, WithVersion, Stored
      <3> DEFINE row == VersionRow(q, TargetOf(q), request[q].no)
      <3>5. /\ row.company = request[q].company
            /\ Referred(row, "document") = {TargetOf(q)}
            /\ Referred(row, "pdfFile") = {}
            /\ Referred(row, "attachments") = Referred(request[q].columns, "attachments")
        BY DEF VersionRow, Referred
      <3> HIDE DEF row
      <3>6. c \in {"document", "pdfFile", "attachments"}
        BY <3>2, NewIds, ScopedKindsListed
      <3>7. OfCompany(j, request[q].company)
        <4>1. "attachments" \in Handlers[op].checks \ Loose(op)
          BY <2>2, <3>1 DEF TableEntry, Loose
        <4> QED
          BY <2>2, <3>1, <3>2, <3>5, <3>6, <4>1 DEF Scoped, Unchecked, row
      <3> QED
        BY <1>c, <3>2, <3>5, <3>7 DEF row
    <2>6. s \in {"insert", "draft", "version"}
      BY <2>1 DEF Creates, ScopedKinds
    <2> QED
      BY <2>3, <2>4, <2>5, <2>6
  <1> QED
    BY <1>2, <1>3

LEMMA CompaniesStep ==
  ASSUME Life, RowsOK, Fresh, CompaniesOK, [Next]_vars
  PROVE  CompaniesOK'
  <1>1. StayInCompany(rows')
    BY StaysInCompany
  <1>2. ASSUME NEW q \in RequestIds
        PROVE  Scoped(q)'
    BY ScopedAfter DEF CompaniesOK
  <1>3. RequestIds' = RequestIds
    BY Moves DEF RequestIds
  <1> QED
    BY <1>1, <1>2, <1>3 DEF CompaniesOK

\* A reference that a handler checks leads to a row of the same company, also when the
\* membership, the employee or the row referred to is changed or deleted between the check
\* and the write: rows never change company and ids are never used again.
THEOREM RowsStayInCompany == Spec => []CheckedReferencesStayInCompany
  <1>1. Init => Life /\ RowsOK /\ Fresh /\ CompaniesOK
    BY LifeInit, RowsInit, FreshInit, CompaniesInit
  <1>2. (Life /\ RowsOK /\ Fresh /\ CompaniesOK) /\ [Next]_vars =>
          (Life /\ RowsOK /\ Fresh /\ CompaniesOK)'
    BY LifeStep, RowsStep, FreshStep, CompaniesStep
  <1>3. CompaniesOK => CheckedReferencesStayInCompany
    BY DEF CompaniesOK, CheckedReferencesStayInCompany
  <1> QED
    BY <1>1, <1>2, <1>3, PTL DEF Spec
====================================================================================
