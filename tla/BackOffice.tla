------------------------------- MODULE BackOffice -------------------------------
(***************************************************************************)
(* The back office: users fill in forms, the pages send them, and the API  *)
(* runs a handler for each request, statement by statement, requests of    *)
(* several users between each other.  A handler has no transaction around  *)
(* it: an error or the end of the process leaves what it has written.      *)
(*                                                                         *)
(* A request is <<form, n>>, the n-th request sent for the form; a row it  *)
(* creates has the id <<form, n, kind>>, fresh as the cuid of the code.    *)
(* Reads, wordings, amounts and dates are left out; so is what a page does *)
(* after its form is emptied: it loads its lists again.                    *)
(***************************************************************************)
EXTENDS BusinessRows, Endpoints, Naturals, FiniteSetsExt

CONSTANTS
  Catalogue,   \* form -> its page, user, company header, company in the body, target,
               \* columns, and the number of requests sent for it at most
  Desks,       \* the forms that are filled in, with the rows there are at first, by id,
               \* and the time-outs, failures and ends of a process there may be
  Signed,      \* user -> the id of its open session, or NoSession
  Numbers      \* the serials a journal entry's number may have

\* TLC evaluates this definition once, what a .cfg puts for a constant at each use.
FormOf == Catalogue

NoSession == <<>>
NoCompany == <<>>

\* A page sends one request at least, waits between several, and has no field for the
\* kind or the company of a row; a signature is the default or not, which without the
\* field it is not; what a browser keeps is a session.
ASSUME CatalogueAssumption ==
  \A f \in DOMAIN FormOf :
    /\ FormOf[f].requests \in Nat \ {0}
    /\ FormOf[f].page.sends \in Seq(DOMAIN Handlers) \ {<<>>}
    /\ FormOf[f].page.locks \in BOOLEAN /\ FormOf[f].page.empties \in BOOLEAN
    /\ Len(FormOf[f].page.sends) > 1 => FormOf[f].page.locks
    /\ {"kind", "company"} \cap DOMAIN FormOf[f].columns = {}
    /\ \A s \in DOMAIN FormOf[f].page.sends :
         FormOf[f].page.sends[s] = "createSignature" =>
           /\ "isDefault" \in DOMAIN FormOf[f].columns
           /\ FormOf[f].columns.isDefault \in BOOLEAN
    /\ \/ Signed[FormOf[f].user] = NoSession
       \/ Signed[FormOf[f].user][3] = "UserSession"

\* The rows there are at first: what the constraints of the database allow and earlier
\* requests left behind, with no PDF rendered yet.
ASSUME DesksAssumption ==
  \A desk \in Desks :
    /\ desk.forms \subseteq DOMAIN FormOf /\ desk.faults \in Nat
    /\ IsFiniteSet(DOMAIN desk.rows)
    /\ WellFormed(desk.rows) /\ StayInCompany(desk.rows) /\ Numbered(desk.rows)
    /\ \A i \in DOMAIN desk.rows :
         /\ i = <<i[1], 0, i[3]>>
         /\ ~Clashes(desk.rows, i, desk.rows[i])
         /\ desk.rows[i].company \in {NoCompany} \cup DOMAIN desk.rows
    /\ \A v \in OfKind(desk.rows, "DocumentVersion") :
         /\ \E d \in OfKind(desk.rows, "Document") : desk.rows[v].document = {d}
         /\ desk.rows[v].pdfFile = {}

VARIABLES
  rows,     \* the database, without the audit log
  objects,  \* the object storage: key -> what the object shows
  audit,    \* AuditLog: statement, request and entity
  page,     \* form on the desk -> the state of the page that shows it
  token,    \* user -> the session in the browser's local storage
  request,  \* request -> its state in the API
  faults    \* that may still happen

Forms == DOMAIN page
RequestIds == DOMAIN request

stored == <<rows, objects, audit>>
vars == <<stored, page, token, request, faults>>

Idle == [phase |-> "none", op |-> "", at |-> 1, session |-> NoSession, columns |-> <<>>,
         user |-> "", role |-> "", companies |-> {}, company |-> NoCompany,
         employee |-> {}, no |-> 0, content |-> <<>>, row |-> <<>>, cut |-> FALSE]

Init ==
  /\ \E desk \in Desks :
       /\ rows = desk.rows
       /\ objects = [i \in {j \in DOMAIN desk.rows : j[3] = "FileObject"} |-> i]
       /\ page = [f \in desk.forms |-> [filled |-> TRUE, sent |-> 0, step |-> 1,
                                        awaits |-> {}, errors |-> 0]]
       /\ token = [u \in {FormOf[f].user : f \in desk.forms} |-> Signed[u]]
       /\ request = [q \in UNION {{f} \X (1..FormOf[f].requests) : f \in desk.forms}
                        |-> Idle]
       /\ faults = desk.faults
  /\ audit = {}

FormFor(q) == FormOf[q[1]]
HandlerOf(q) == Handlers[request[q].op]
Running == {q \in RequestIds : request[q].phase = "running"}
NewId(q, kind) == <<q[1], q[2], kind>>
TargetOf(q) == FormFor(q).target
Of(kind) == OfKind(rows, kind)

(***************************************************************************)
(* The pages.                                                              *)
(***************************************************************************)
Sends(f) == FormOf[f].page.sends

\* Most pages keep the session they were opened with, others look in the local storage
\* each time; a form is opened at first or when it is used.
SessionsAt(f) == {Signed[FormOf[f].user], token[FormOf[f].user]}

\* The n-th request of the form goes out, for the step-th of its page's operations.
\* Without a session a page other than the login goes to the login.
Sent(f, n, step, columns) ==
  \E session \in SessionsAt(f) :
    /\ Sends(f)[1] = "login" \/ session # NoSession
    /\ request' = [request EXCEPT ![<<f, n>>] =
         [Idle EXCEPT !.phase = "running", !.op = Sends(f)[step], !.columns = columns,
                      !.session = session]]

Press(f) ==
  /\ page[f].filled
  /\ page[f].sent < FormOf[f].requests
  /\ FormOf[f].page.locks => page[f].awaits = {}
  /\ page' = [page EXCEPT ![f].sent = @ + 1, ![f].step = 1,
                          ![f].awaits = @ \cup {page[f].sent + 1}]
  /\ Sent(f, page[f].sent + 1, 1, FormOf[f].columns)
  /\ UNCHANGED <<stored, token, faults>>

\* The first answer of a page with two requests: the file it sent goes into the job.
SendNext(f, n) ==
  /\ n \in page[f].awaits
  /\ request[<<f, n>>].phase = "ok"
  /\ page[f].step < Len(Sends(f))
  /\ page[f].sent < FormOf[f].requests
  /\ page' = [page EXCEPT ![f].sent = @ + 1, ![f].step = @ + 1, ![f].awaits = {n + 1}]
  /\ Sent(f, n + 1, page[f].step + 1,
          Over([sourceFile |-> {request[<<f, n>>].row}], FormOf[f].columns))
  /\ UNCHANGED <<stored, token, faults>>

\* saveSession and clearSession; a logout that failed clears the session too.
TokenAfter(f, n, success) ==
  LET op == request[<<f, n>>].op
      user == FormOf[f].user
  IN  CASE op = "login" /\ success -> [token EXCEPT ![user] = request[<<f, n>>].row]
        [] op = "logout" -> [token EXCEPT ![user] = NoSession]
        [] OTHER -> token

Succeed(f, n) ==
  /\ n \in page[f].awaits
  /\ request[<<f, n>>].phase = "ok"
  /\ page[f].step = Len(Sends(f))
  /\ page' = [page EXCEPT ![f].awaits = @ \ {n},
                          ![f].filled = @ /\ ~FormOf[f].page.empties]
  /\ token' = TokenAfter(f, n, TRUE)
  /\ UNCHANGED <<stored, request, faults>>

Shows(f, n) ==
  /\ page' = [page EXCEPT ![f].awaits = @ \ {n}, ![f].errors = @ + 1]
  /\ token' = TokenAfter(f, n, FALSE)

ShowError(f, n) ==
  /\ n \in page[f].awaits
  /\ request[<<f, n>>].phase = "error"
  /\ Shows(f, n)
  /\ UNCHANGED <<stored, request, faults>>

Fault == faults > 0 /\ faults' = faults - 1

\* apiRequest gives up, or the connection breaks; the handler does not notice.
TimeOut(f, n) ==
  /\ n \in page[f].awaits
  /\ request[<<f, n>>].phase \in {"running", "ok"}
  /\ Fault
  /\ Shows(f, n)
  /\ UNCHANGED <<stored, request>>

(***************************************************************************)
(* The requests in the API.                                                *)
(***************************************************************************)
At(q, statement) == request[q].phase = "running" /\ HandlerOf(q).does[request[q].at] = statement

Ended(r, phase) == [Idle EXCEPT !.phase = phase, !.op = r.op, !.row = r.row, !.cut = r.cut]

\* The statement is done, and r is what the handler knows now.
Proceed(q, r) ==
  request' = [request EXCEPT ![q] =
    IF r.at = Len(HandlerOf(q).does) THEN Ended(r, "ok") ELSE [r EXCEPT !.at = @ + 1]]

Refuse(q) == request' = [request EXCEPT ![q] = Ended(@, "error")]

OnlyRequests == UNCHANGED <<stored, page, token, faults>>
OnlyRows == UNCHANGED <<objects, audit, page, token, faults>>

\* The statement that leaves the given row behind, unless the database refuses it.
Write(q, id, row, r) ==
  /\ IF Storable(rows, id, row)
     THEN rows' = Stored(rows, id, row) /\ Proceed(q, r)
     ELSE UNCHANGED rows /\ Refuse(q)
  /\ OnlyRows

MembershipsOf(user) == {m \in Of("CompanyMembership") : rows[m].user = user}

\* LocalAuthProvider: the user exists and the password is the right one.
Recognised(q) == request[q].columns.password = "right"

\* The provider, and the memberships without which there is no session.
Authenticate(q) ==
  /\ At(q, "authenticate")
  /\ LET user == FormFor(q).user
     IN  /\ IF Recognised(q) /\ MembershipsOf(user) # {}
            THEN Proceed(q, [request[q] EXCEPT !.user = user])
            ELSE Refuse(q)
         /\ audit' = IF Recognised(q) THEN audit
                     ELSE audit \cup {[by |-> q, statement |-> "failed", entity |-> <<>>]}
  /\ UNCHANGED <<rows, objects, page, token, faults>>

Live(session) == session \in DOMAIN rows /\ ~rows[session].expired

\* SessionAuthGuard and RolesGuard let the request in.
Admit(q) ==
  /\ At(q, "guard")
  /\ Live(request[q].session)
  /\ LET mine == MembershipsOf(rows[request[q].session].user)
         here == {m \in mine : rows[m].company = FormFor(q).company}
     IN  \E m \in here :
           /\ rows[m].role \in RolesOf[request[q].op]
           /\ Proceed(q, [request[q] EXCEPT !.user = rows[m].user, !.role = rows[m].role,
                            !.companies = {rows[c].company : c \in mine},
                            !.company = rows[m].company])
  /\ OnlyRequests

\* The guards refuse it; a session that has expired is deleted.
TurnAway(q) ==
  /\ At(q, "guard")
  /\ LET session == request[q].session
         admitted == {m \in Of("CompanyMembership") :
                        /\ rows[m].company = FormFor(q).company
                        /\ rows[m].role \in RolesOf[request[q].op]}
     IN  /\ Live(session) => MembershipsOf(rows[session].user) \cap admitted = {}
         /\ rows' = [i \in DOMAIN rows \ (IF Live(session) THEN {} ELSE {session}) |-> rows[i]]
  /\ Refuse(q)
  /\ OnlyRows

CompanyFor(q) ==
  CASE HandlerOf(q).scope = "body" -> FormFor(q).into
    [] HandlerOf(q).scope = "row" -> rows[TargetOf(q)].company
    [] OTHER -> request[q].company

\* The table the target of a request is looked for in.
TableOf(q) == IF HandlerOf(q).scope = "own" THEN "Document" ELSE HandlerOf(q).kind

\* assertCompanyAccess, and the 404 in front of it.
AccessGranted(q) ==
  /\ HandlerOf(q).scope \in {"row", "own"} => TargetOf(q) \in Of(TableOf(q))
  /\ HandlerOf(q).scope \in {"body", "row"} => CompanyFor(q) \in request[q].companies
  /\ HandlerOf(q).scope = "own" => rows[TargetOf(q)].company = request[q].company

\* isPosting and isActive of an account, isActive of a template.
Usable(row) == "usable" \in DOMAIN row => row.usable

\* A system template belongs to no company.
ReferencesValid(q) ==
  \A c \in HandlerOf(q).checks :
    \A i \in Referred(request[q].columns, c) :
      /\ i \in DOMAIN rows /\ i[3] \in TablesOf(c)
      /\ rows[i].company \in {CompanyFor(q)} \cup (IF c = "template" THEN {NoCompany} ELSE {})
      /\ Usable(rows[i])

\* Lines are <<debit, credit>>.
LinesBalance(lines) ==
  LET total(side) == MapThenSumSet(LAMBDA i : lines[i][side], DOMAIN lines)
  IN  /\ Len(lines) >= 2
      /\ \A i \in DOMAIN lines : (lines[i][1] > 0) # (lines[i][2] > 0)
      /\ total(1) = total(2) /\ total(1) > 0

\* The active employee the user is in the company of the header.
OwnEmployee(q) ==
  {e \in Of("Employee") : /\ rows[e].company = request[q].company
                          /\ rows[e].user = request[q].user
                          /\ rows[e].employmentStatus = "ACTIVE"}

\* resolveClaimEmployee; the other handlers take no employee from the form.
EmployeeFor(q) ==
  LET asked == IF request[q].op = "createClaim"
               THEN Referred(request[q].columns, "employee") ELSE {}
  IN  IF asked = {} THEN OwnEmployee(q) ELSE asked

EmployeeValid(q) ==
  LET e == EmployeeFor(q)
  IN  /\ OwnEmployee(q) # {}
      /\ \/ e \subseteq OwnEmployee(q)
         \/ /\ request[q].role \in Managers
            /\ \A i \in e : i \in Of("Employee") /\ rows[i].company = request[q].company

VersionsOf(document, no) ==
  {v \in Of("DocumentVersion") : rows[v].document = {document} /\ rows[v].versionNo = no}

\* The latest version of a shift policy, 0 if there is none.
LatestPolicy(company, code) ==
  LET same == {s \in Of("ShiftPolicy") : rows[s].company = company /\ rows[s].code = code}
  IN  Max({rows[s].version : s \in same} \cup {0})

VersionMeant(q) ==
  LET current == rows[TargetOf(q)].currentVersionNo
      op == request[q].op
      asked == request[q].columns
  IN  CASE op = "addVersion" -> current + 1
        [] op = "renderPdf" -> IF "versionNo" \in DOMAIN asked THEN asked.versionNo ELSE current
        [] op = "createShiftPolicy" -> IF "version" \in DOMAIN asked THEN asked.version
                                       ELSE LatestPolicy(CompanyFor(q), asked.code) + 1
        [] op = "updateShiftPolicy" -> rows[TargetOf(q)].version + 1
        [] OTHER -> 0

Acceptable(q) ==
  LET op == request[q].op
  IN  /\ op \in {"createClaim", "createLeaveRequest", "createAttendanceCorrection"}
           => EmployeeValid(q)
      /\ op = "createJournalEntry" => LinesBalance(request[q].columns.lines)
      /\ op = "addVersion" => rows[TargetOf(q)].template # {}
      /\ op = "renderPdf" => VersionsOf(TargetOf(q), VersionMeant(q)) # {}

\* A claim that names no legal entity takes that of its employee, and the next version
\* of a shift policy its code and its site.
Completed(q) ==
  LET columns == request[q].columns
  IN  CASE request[q].op = "createClaim" /\ Referred(columns, "legalEntity") = {} ->
             Over([legalEntity |-> UNION {Referred(rows[e], "legalEntity") :
                                            e \in EmployeeFor(q)}], columns)
        [] request[q].op = "updateShiftPolicy" ->
             Over([code |-> rows[TargetOf(q)].code,
                   businessSite |-> Referred(rows[TargetOf(q)], "businessSite")], columns)
        [] OTHER -> columns

\* What a handler reads and refuses before its first write.  A row's company never
\* changes, so the reads of one handler are taken together.
Check(q) ==
  /\ At(q, "check")
  /\ IF AccessGranted(q) /\ ReferencesValid(q) /\ Acceptable(q)
     THEN Proceed(q, [request[q] EXCEPT !.company = CompanyFor(q), !.columns = Completed(q),
                        !.employee = EmployeeFor(q), !.no = VersionMeant(q)])
     ELSE Refuse(q)
  /\ OnlyRequests

\* allocateJournalNumber: a serial that was free when it looked, twelve looks at most.
Number(q) ==
  /\ At(q, "number")
  /\ LET taken == {rows[e].number : e \in {j \in Of("JournalEntry") :
                                             rows[j].company = request[q].company}}
     IN  \/ \E n \in Numbers \ taken : Proceed(q, [request[q] EXCEPT !.no = n])
         \/ taken # {} /\ Refuse(q)
  /\ OnlyRequests

NewRow(q) ==
  LET r == request[q]
      kind == HandlerOf(q).kind
      common == Over([kind |-> kind, company |-> r.company],
                     [c \in DOMAIN r.columns \ {"attachments"} |-> r.columns[c]])
  IN  CASE kind = "UserSession" ->
             [kind |-> kind, company |-> NoCompany, user |-> r.user, expired |-> FALSE]
        [] kind = "Company" -> Over([company |-> NewId(q, kind)], common)
        [] kind = "Employee" -> Over([user |-> "", employmentStatus |-> "ACTIVE"], common)
        [] kind = "ExpenseClaim" -> Over([employee |-> r.employee], common)
        [] kind \in {"LeaveRequest", "AttendanceCorrection"} ->
             Over([employee |-> r.employee, document |-> {NewId(q, "Document")}], common)
        [] kind = "JournalEntry" -> Over([number |-> r.no], common)
        [] kind = "ShiftPolicy" -> Over([version |-> r.no], common)
        [] kind = "SignatureAsset" -> Over([owner |-> r.user], common)
        [] OTHER -> common

Insert(q) ==
  LET id == NewId(q, HandlerOf(q).kind)
  IN  At(q, "insert") /\ Write(q, id, NewRow(q), [request[q] EXCEPT !.row = id])

\* The creator of a company becomes a member of it.
Join(q) ==
  /\ At(q, "join")
  /\ Write(q, NewId(q, "CompanyMembership"),
           [kind |-> "CompanyMembership", company |-> request[q].row,
            user |-> request[q].user, role |-> "SUPER_ADMIN"], request[q])

Update(q) ==
  LET id == TargetOf(q)
  IN  /\ At(q, "update")
      /\ IF id \in DOMAIN rows
         THEN Write(q, id, Over(request[q].columns, rows[id]),
                    [request[q] EXCEPT !.row = id])
         ELSE Refuse(q) /\ OnlyRows /\ UNCHANGED rows

Delete(q) ==
  LET id == TargetOf(q)
  IN  /\ At(q, "delete")
      /\ IF id \in DOMAIN rows /\ Deletable(rows, id)
         THEN rows' = Without(rows, id) /\ Proceed(q, [request[q] EXCEPT !.row = id])
         ELSE UNCHANGED rows /\ Refuse(q)
      /\ OnlyRows

EndSession(q) ==
  LET session == request[q].session
  IN  /\ At(q, "endSession")
      /\ IF session \in DOMAIN rows
         THEN /\ rows' = Without(rows, session)
              /\ Proceed(q, [request[q] EXCEPT !.row = session])
         ELSE UNCHANGED rows /\ Refuse(q)
      /\ OnlyRows

\* Of a user's signatures (of one type) only the new one is to be the default.
Clear(q) ==
  LET r == request[q]
      others == {s \in Of("SignatureAsset") \ {NewId(q, "SignatureAsset")} :
                   rows[s].company = r.company /\ rows[s].owner = r.user}
  IN  /\ At(q, "clear")
      /\ rows' = IF r.columns.isDefault
                 THEN [i \in DOMAIN rows |-> IF i \in others
                                             THEN [rows[i] EXCEPT !.isDefault = FALSE]
                                             ELSE rows[i]]
                 ELSE rows
      /\ Proceed(q, r)
      /\ OnlyRows

VersionRow(q, document, no) ==
  [kind |-> "DocumentVersion", company |-> request[q].company, document |-> {document},
   versionNo |-> no, pdfFile |-> {},
   attachments |-> Referred(request[q].columns, "attachments")]

\* The transaction of createDocument, which leave and corrections call as well.
Draft(q) ==
  LET document == NewId(q, "Document")
      row == [kind |-> "Document", company |-> request[q].company, currentVersionNo |-> 1,
              template |-> Referred(request[q].columns, "template"),
              ownerEmployee |-> request[q].employee]
  IN  /\ At(q, "draft")
      /\ IF Storable(rows, document, row)
         THEN /\ rows' = Stored(Stored(rows, document, row), NewId(q, "DocumentVersion"),
                               VersionRow(q, document, 1))
              /\ Proceed(q, [request[q] EXCEPT !.row = document])
         ELSE UNCHANGED rows /\ Refuse(q)
      /\ OnlyRows

WithVersion(q) ==
  Stored([rows EXCEPT ![TargetOf(q)].currentVersionNo = request[q].no],
         NewId(q, "DocumentVersion"), VersionRow(q, TargetOf(q), request[q].no))

\* Mutant: no unique index on the document and the number (VersionsAreComplete).
VersionUnchecked(q) ==
  /\ At(q, "version")
  /\ rows' = WithVersion(q)
  /\ Proceed(q, [request[q] EXCEPT !.row = TargetOf(q)])
  /\ OnlyRows

\* The transaction of addVersion.
Version(q) ==
  /\ At(q, "version")
  /\ IF Clashes(rows, NewId(q, "DocumentVersion"), VersionRow(q, TargetOf(q), request[q].no))
     THEN UNCHANGED rows /\ Refuse(q)
     ELSE rows' = WithVersion(q) /\ Proceed(q, [request[q] EXCEPT !.row = TargetOf(q)])
  /\ OnlyRows

\* DocumentRenderService: the PDF shows the version that was read.
Render(q) ==
  /\ At(q, "render")
  /\ \E v \in VersionsOf(TargetOf(q), request[q].no) :
       Proceed(q, [request[q] EXCEPT !.content = v])
  /\ OnlyRequests

\* What the object of a file shows: what was uploaded, or the version rendered.
ContentOf(q) == IF request[q].op = "renderPdf" THEN request[q].content ELSE NewId(q, "FileObject")

Put(q) ==
  /\ At(q, "put")
  /\ objects' = Stored(objects, NewId(q, "FileObject"), ContentOf(q))
  /\ Proceed(q, request[q])
  /\ UNCHANGED <<rows, audit, page, token, faults>>

File(q) ==
  LET id == NewId(q, "FileObject")
  IN  /\ At(q, "file")
      /\ Write(q, id, [kind |-> "FileObject", company |-> request[q].company],
               [request[q] EXCEPT !.row = id])

LinkTo(q, no) ==
  /\ At(q, "link")
  /\ \E v \in VersionsOf(TargetOf(q), no) :
       rows' = [rows EXCEPT ![v].pdfFile = {request[q].row}]
  /\ Proceed(q, request[q])
  /\ OnlyRows

\* Mutant: the PDF goes to the version that is current by now (FilesShowTheirSource).
LinkCurrent(q) == LinkTo(q, rows[TargetOf(q)].currentVersionNo)

Link(q) == LinkTo(q, request[q].no)

\* What the audit entry is about: the document of a version, else the row written.
Subject(q) == IF HandlerOf(q).scope = "own" THEN TargetOf(q) ELSE request[q].row

Audit(q) ==
  LET statement == HandlerOf(q).does[request[q].at]
  IN  /\ q \in Running /\ statement \in {"audit", "auditFile", "auditDraft"}
      /\ audit' = audit \cup {[by |-> q, statement |-> statement, entity |-> Subject(q)]}
      /\ Proceed(q, request[q])
      /\ UNCHANGED <<rows, objects, page, token, faults>>

\* The row is read again: a claim may be for an employee the user has ceased to be.
Answer(q) ==
  /\ At(q, "answer")
  /\ LET id == request[q].row
         own == AnswerOf[request[q].op].own
         readable == /\ id \in DOMAIN rows /\ rows[id].company = request[q].company
                     /\ \/ ~own \/ request[q].role \in Managers
                        \/ request[q].employee \cap OwnEmployee(q) # {}
     IN  IF readable THEN Proceed(q, request[q]) ELSE Refuse(q)
  /\ OnlyRequests

(***************************************************************************)
(* Time and failures.                                                      *)
(***************************************************************************)
Expire(session) ==
  /\ Live(session)
  /\ Fault
  /\ rows' = [rows EXCEPT ![session].expired = TRUE]
  /\ UNCHANGED <<objects, audit, page, token, request>>

CutOff(r) == [Ended(r, "error") EXCEPT !.cut = TRUE]

\* A statement fails: the database or the storage does not answer.
Fail(q) ==
  /\ request[q].phase = "running"
  /\ Fault
  /\ request' = [request EXCEPT ![q] = CutOff(@)]
  /\ UNCHANGED <<stored, page, token>>

\* The API process ends, with every request in it, and is started again.
Stop ==
  /\ Running # {}
  /\ Fault
  /\ request' = [q \in RequestIds |->
                   IF q \in Running THEN CutOff(request[q]) ELSE request[q]]
  /\ UNCHANGED <<stored, page, token>>

Statement(q) ==
  \/ Authenticate(q) \/ Admit(q) \/ TurnAway(q) \/ Check(q) \/ Number(q)
  \/ Insert(q) \/ Join(q) \/ Update(q) \/ Delete(q) \/ EndSession(q) \/ Clear(q)
  \/ Draft(q) \/ Version(q) \/ Render(q) \/ Put(q) \/ File(q) \/ Link(q)
  \/ Audit(q) \/ Answer(q)

Next ==
  \/ \E f \in Forms : Press(f)
  \/ \E f \in Forms : \E n \in page[f].awaits :
       SendNext(f, n) \/ Succeed(f, n) \/ ShowError(f, n) \/ TimeOut(f, n)
  \/ \E q \in Running : Statement(q) \/ Fail(q)
  \/ \E session \in Of("UserSession") : Expire(session)
  \/ Stop

Spec == Init /\ [][Next]_vars

(***************************************************************************)
(* Properties.                                                             *)
(***************************************************************************)
\* Rows are records of a known kind whose references all lead to rows of the right
\* table, whatever is deleted while other requests write rows that refer to it.
BackOfficeTypeOK ==
  /\ WellFormed(rows)
  /\ \A q \in RequestIds : request[q].phase \in {"none", "running", "ok", "error"}
  /\ \A f \in Forms : page[f].awaits \subseteq 1..page[f].sent
  /\ \A user \in DOMAIN token : token[user] = NoSession \/ token[user][3] = "UserSession"
  /\ faults \in Nat

\* Finance, claims, documents, requests and jobs stay within one company: whatever ids
\* the forms of users with several companies name, and whatever another request
\* changes between a handler's check and its write.
CheckedReferencesStayInCompany == StayInCompany(rows)

ErasableKinds ==
  {"Department", "Employee", "LeaveRequest", "AttendanceCorrection", "UserSession"}

\* Deleting an employee or a department never takes away what the books, the documents
\* or the files rest on.
RecordsAreKept ==
  [][\A i \in DOMAIN rows \ DOMAIN rows' :
       rows[i].kind \in ErasableKinds]_vars

Entities == {entry.entity : entry \in audit}
Reported(q) == {entry \in audit : entry.by = q}

\* Once a request is over, unless a failure cut it, everything it created is accounted
\* for in the audit log, also when it was refused half way; and no entry is about a
\* row that never was.
AuditTellsTruth ==
  /\ \A i \in DOMAIN rows :
       LET q == <<i[1], i[2]>>
       IN  q \in RequestIds /\ request[q].phase \in {"ok", "error"} /\ ~request[q].cut
             => \E entry \in Reported(q) :
                  entry.statement = "audit" \/ request[q].phase = "error"
  /\ \A e \in Entities : e = <<>> \/ e \in DOMAIN rows \/ e[3] \in ErasableKinds

\* The versions of a document are numbered from one to the current one without a gap or
\* a double, also when two users add one at once.
VersionsAreComplete == Numbered(rows)

\* Every file row has its object, and the PDF of a version shows that version, also
\* when a newer one is added while it is rendered.
FilesShowTheirSource ==
  /\ \A i \in Of("FileObject") : i \in DOMAIN objects
  /\ \A v \in Of("DocumentVersion") :
       \A i \in rows[v].pdfFile : objects[i] = v

\* A form that goes away once it is stored is not stored twice, unless the user was
\* shown an error and sent it again.
FormStoredOnce ==
  \A f \in Forms :
    FormOf[f].page.empties =>
      \A kind \in {Handlers[op].kind : op \in {Sends(f)[s] : s \in DOMAIN Sends(f)}} :
        Cardinality({i \in Of(kind) : i[1] = f /\ i[2] # 0}) <= 1 + page[f].errors

\* When nothing runs and no failure cut a request, a user who chose a default signature
\* has one, whatever other requests of the user's chose another at the same time.
DefaultSurvives ==
  (\A q \in RequestIds : request[q].phase # "running" /\ ~request[q].cut) =>
    \A s \in Of("SignatureAsset") :
      s[2] # 0 /\ FormOf[s[1]].columns.isDefault =>
        \E t \in Of("SignatureAsset") : rows[t].owner = rows[s].owner /\ rows[t].isDefault
=============================================================================
