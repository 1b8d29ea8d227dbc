------------------------------- MODULE Endpoints -------------------------------
(***************************************************************************)
(* The handlers of the API that change the back office, each as what the   *)
(* statement-by-statement model BackOffice needs to know of it:            *)
(*   scope   where the company comes from: the header the guard checked    *)
(*           ("header"), the body ("body"), the target row ("row": any     *)
(*           company the user is a member of; "own": that of the header);  *)
(*   kind    the kind of row it writes;                                    *)
(*   checks  the references it checks to be rows of that company;          *)
(*   does    its statements, in order.                                     *)
(* A reference outside checks is left to the foreign key.                  *)
(***************************************************************************)
EXTENDS Sequences, TLC

Roles == {"SUPER_ADMIN", "ORG_ADMIN", "HR_MANAGER", "APPROVER", "EMPLOYEE"}
Managers == {"SUPER_ADMIN", "ORG_ADMIN", "HR_MANAGER"}

Handler(scope, kind, checks, does) ==
  [scope |-> scope, kind |-> kind, checks |-> checks, does |-> does]

Creation == <<"guard", "check", "insert", "audit">>
Change == <<"guard", "check", "update", "audit">>
Removal == <<"guard", "check", "delete", "audit">>

\* Sessions.  The guard in front of logout has found the session it deletes.
Login == Handler("none", "UserSession", {}, <<"authenticate", "insert", "audit">>)
Logout == Handler("header", "UserSession", {}, <<"guard", "endSession", "audit">>)

\* Organisation.
CreateCompany ==
  Handler("none", "Company", {},
          <<"guard", "check", "insert", "join", "audit">>)
UpdateCompany == Handler("row", "Company", {}, Change)
CreateLegalEntity == Handler("body", "LegalEntity", {}, Creation)
CreateBusinessSite == Handler("body", "BusinessSite", {}, Creation)
CreateDepartment == Handler("body", "Department", {}, Creation)
UpdateDepartment == Handler("row", "Department", {}, Change)
DeleteDepartment == Handler("row", "Department", {}, Removal)

\* Employees.
CreateEmployee == Handler("body", "Employee", {}, Creation)
UpdateEmployee == Handler("row", "Employee", {}, Change)
DeleteEmployee == Handler("row", "Employee", {}, Removal)
CreatePosition == Handler("body", "Position", {}, Creation)
CreateJobTitle == Handler("body", "JobTitle", {}, Creation)

\* Mutant: validateLegalEntity is not called (CheckedReferencesStayInCompany).
CreateVendorUnchecked == Handler("header", "Vendor", {}, Creation)

\* Finance.
CreateVendor == Handler("header", "Vendor", {"legalEntity"}, Creation)
CreateCostCenter == Handler("header", "CostCenter", {"legalEntity"}, Creation)
CreateProject == Handler("header", "Project", {"legalEntity"}, Creation)
LineDimensions == {"vendor", "costCenter", "project"}
CreateJournalEntry ==
  Handler("header", "JournalEntry",
          {"legalEntity", "expenseClaim", "accounts"} \cup LineDimensions,
          <<"guard", "check", "number", "insert", "audit", "answer">>)

\* Expenses.
OptionalReferences == {"legalEntity", "costCenter", "project", "document"}
ItemReferences == {"vendor", "receiptFile"}
CreateClaim ==
  Handler("header", "ExpenseClaim", OptionalReferences \cup ItemReferences,
          <<"guard", "check", "insert", "audit", "answer">>)

\* Files and signatures.
Upload == Handler("header", "FileObject", {}, <<"guard", "put", "file", "audit">>)

\* Mutant: the other defaults are cleared after the new one is there (DefaultSurvives).
CreateSignatureClearingLast ==
  Handler("header", "SignatureAsset", {"file"},
          <<"guard", "check", "insert", "clear", "audit">>)

CreateSignature ==
  Handler("header", "SignatureAsset", {"file"},
          <<"guard", "check", "clear", "insert", "audit">>)

\* Documents.
CreateDocument ==
  Handler("header", "Document", {"template", "attachments"},
          <<"guard", "check", "draft", "audit", "answer">>)

\* Mutant: the new version goes unreported (AuditTellsTruth).
AddVersionUnaudited ==
  Handler("own", "DocumentVersion", {"attachments"},
          <<"guard", "check", "version", "answer">>)

AddVersion ==
  Handler("own", "DocumentVersion", {"attachments"},
          <<"guard", "check", "version", "audit", "answer">>)
RenderPdf ==
  Handler("own", "DocumentVersion", {},
          <<"guard", "check", "render", "put", "file", "auditFile", "link", "audit">>)

\* Shift policies; how a version becomes the default is in ShiftPolicies.
CreateShiftPolicy == Handler("header", "ShiftPolicy", {"businessSite"}, Creation)
UpdateShiftPolicy == Handler("row", "ShiftPolicy", {}, Creation)

\* Leave and corrections, as far as the approval line, which ApprovalRequests models.
CreateLeaveRequest ==
  Handler("header", "LeaveRequest", {"leavePolicy", "attachments"},
          <<"guard", "check", "draft", "auditDraft", "insert", "audit">>)
CreateAttendanceCorrection ==
  Handler("header", "AttendanceCorrection", {"attachments"},
          <<"guard", "check", "draft", "auditDraft", "insert", "audit">>)

\* Imports and exports; the worker takes the job from there.
CreateVendorImportJob == Handler("header", "ImportJob", {"sourceFile"}, Creation)
CreateExportJob == Handler("header", "ExportJob", {}, Creation)

Handlers == [
  login |-> Login, logout |-> Logout,
  createCompany |-> CreateCompany, updateCompany |-> UpdateCompany,
  createLegalEntity |-> CreateLegalEntity, createBusinessSite |-> CreateBusinessSite,
  createDepartment |-> CreateDepartment, updateDepartment |-> UpdateDepartment,
  deleteDepartment |-> DeleteDepartment,
  createEmployee |-> CreateEmployee, updateEmployee |-> UpdateEmployee,
  deleteEmployee |-> DeleteEmployee, createPosition |-> CreatePosition,
  createJobTitle |-> CreateJobTitle,
  createVendor |-> CreateVendor, createCostCenter |-> CreateCostCenter,
  createProject |-> CreateProject, createJournalEntry |-> CreateJournalEntry,
  createClaim |-> CreateClaim, upload |-> Upload, createSignature |-> CreateSignature,
  createDocument |-> CreateDocument, addVersion |-> AddVersion, renderPdf |-> RenderPdf,
  createShiftPolicy |-> CreateShiftPolicy, updateShiftPolicy |-> UpdateShiftPolicy,
  createLeaveRequest |-> CreateLeaveRequest,
  createAttendanceCorrection |-> CreateAttendanceCorrection,
  createVendorImportJob |-> CreateVendorImportJob, createExportJob |-> CreateExportJob]

\* The routes of the controllers in front of these handlers, and the roles each is open
\* to: those of its decorator, and without one everybody who is a member.
Open(roles, ops) == [op \in ops |-> roles]
AuthController == Open(Roles, {"logout"})
OrgController ==
  Open({"SUPER_ADMIN"}, {"createCompany"})
  @@ Open(Managers, {"updateCompany", "createLegalEntity", "createBusinessSite",
                     "createDepartment", "updateDepartment", "deleteDepartment"})
EmployeeController ==
  Open(Managers, {"createEmployee", "updateEmployee", "deleteEmployee",
                  "createPosition", "createJobTitle"})
FinanceController ==
  Open(Managers, {"createVendor", "createCostCenter", "createProject", "createJournalEntry"})
AttendanceController == Open(Managers, {"createShiftPolicy", "updateShiftPolicy"})
ImportExportController == Open(Managers, {"createVendorImportJob", "createExportJob"})
ExpensesController == Open(Roles, {"createClaim"})
FilesController == Open(Roles, {"upload"})
SignaturesController == Open(Roles, {"createSignature"})
DocumentsController == Open(Roles, {"createDocument", "addVersion", "renderPdf"})
LeaveController == Open(Roles, {"createLeaveRequest", "createAttendanceCorrection"})

RolesOf ==
  AuthController @@ OrgController @@ EmployeeController @@ FinanceController
  @@ AttendanceController @@ ImportExportController @@ ExpensesController
  @@ FilesController @@ SignaturesController @@ DocumentsController @@ LeaveController

\* What some handlers read again for their answer: a row of the company of the header
\* and, unless a manager asks, of the user's own.
Reading(own) == [own |-> own]
GetClaim == Reading(TRUE)
GetDocument == Reading(FALSE)
GetJournalEntry == Reading(FALSE)
AnswerOf == [createClaim |-> GetClaim, createDocument |-> GetDocument,
             addVersion |-> GetDocument, createJournalEntry |-> GetJournalEntry]

(***************************************************************************)
(* The pages of the web client: the requests a press of the button sends,  *)
(* one after the other; whether the button is disabled meanwhile; and      *)
(* whether the form is gone (emptied, or left for another page) once the   *)
(* last answer is a success.                                               *)
(***************************************************************************)
Page(sends, locks, empties) == [sends |-> sends, locks |-> locks, empties |-> empties]

LoginPage == Page(<<"login">>, TRUE, TRUE)
LogoutDialog == Page(<<"logout">>, FALSE, TRUE)
CompaniesPage == Page(<<"createCompany">>, FALSE, TRUE)
LegalEntityForm == Page(<<"createLegalEntity">>, FALSE, TRUE)
BusinessSiteForm == Page(<<"createBusinessSite">>, FALSE, TRUE)
DepartmentsPage == Page(<<"createDepartment">>, FALSE, TRUE)
NewEmployeePage == Page(<<"createEmployee">>, FALSE, TRUE)
EditEmployeePage == Page(<<"updateEmployee">>, FALSE, TRUE)
\* One workingEmployeeId for all rows of the list: a press on another row unlocks this one.
DeactivateButton == Page(<<"updateEmployee">>, FALSE, FALSE)
JournalEntriesPage == Page(<<"createJournalEntry">>, TRUE, TRUE)

\* Mutant: the button stays enabled while the claim is sent (FormStoredOnce).
ExpensesPageUnlocked == Page(<<"createClaim">>, FALSE, TRUE)

ExpensesPage == Page(<<"createClaim">>, TRUE, TRUE)
\* The field of a claim's item that uploads its receipt.
ReceiptField == Page(<<"upload">>, FALSE, FALSE)
FilesPage == Page(<<"upload">>, TRUE, TRUE)
ImportsPage == Page(<<"upload", "createVendorImportJob">>, TRUE, TRUE)
ExportsPage == Page(<<"createExportJob">>, TRUE, FALSE)
ShiftPolicyForm == Page(<<"createShiftPolicy">>, TRUE, FALSE)
ShiftPolicyVersionForm == Page(<<"updateShiftPolicy">>, TRUE, TRUE)
LeavePage == Page(<<"createLeaveRequest">>, TRUE, TRUE)
CorrectionsPage == Page(<<"createAttendanceCorrection">>, TRUE, TRUE)
CreateDocumentModal == Page(<<"createDocument">>, TRUE, TRUE)
AddVersionModal == Page(<<"addVersion">>, TRUE, TRUE)
\* The button of the detail waits for the answer, those of the version history do not.
RenderButton == Page(<<"renderPdf">>, FALSE, FALSE)

\* What no page offers is called by a client of the API that waits for its answer.
Client(op) == Page(<<op>>, TRUE, TRUE)
=============================================================================
