------------------------------ MODULE MCBackOffice ------------------------------
(***************************************************************************)
(* Two companies and their rows, five users, and the forms they fill in.   *)
(* A desk is a set of forms whose requests meet; there is a desk for each  *)
(* area of the API and for each pair of areas that share rows.             *)
(***************************************************************************)
EXTENDS BackOffice

Seed(name, kind) == <<name, 0, kind>>
Row(name, kind, company, columns) ==
  Seed(name, kind) :> ([kind |-> kind, company |-> Seed(company, "Company")] @@ columns)
System(name, kind, columns) ==
  Seed(name, kind) :> ([kind |-> kind, company |-> NoCompany] @@ columns)
Member(name, user, company, role) ==
  Row(name, "CompanyMembership", company, [user |-> user, role |-> role])
Worker(name, company, user) ==
  Row(name, "Employee", company,
      [employeeNumber |-> name, user |-> user, employmentStatus |-> "ACTIVE",
       legalEntity |-> {Seed(company, "LegalEntity")}])

\* The boss belongs to both companies, the guest to none any more, and lee is not
\* signed in.
Memberships ==
  [boss |-> Member("boss A", "boss", "A", "SUPER_ADMIN")
            @@ Member("boss B", "boss", "B", "EMPLOYEE"),
   hr |-> Member("hr A", "hr", "A", "HR_MANAGER"),
   kim |-> Member("kim A", "kim", "A", "EMPLOYEE"),
   lee |-> Member("lee A", "lee", "A", "APPROVER"),
   guest |-> <<>>]

Session(user) == Seed(user, "UserSession")
MCSigned == [u \in DOMAIN Memberships |-> IF u = "lee" THEN NoSession ELSE Session(u)]

Companies == Row("A", "Company", "A", [code |-> "A"]) @@ Row("B", "Company", "B", [code |-> "B"])
Entities2 == Row("A", "LegalEntity", "A", [code |-> "MAIN"])
             @@ Row("B", "LegalEntity", "B", [code |-> "MAIN"])
Departments ==
  Row("HQ", "Department", "A", [code |-> "HQ", parent |-> {}, manager |-> {}])
  @@ Row("Lab", "Department", "A",
         [code |-> "LAB", parent |-> {Seed("HQ", "Department")}, manager |-> {}])
People == Entities2 @@ Worker("hr", "A", "hr") @@ Worker("kim", "A", "kim")
Books == Row("cash", "Account", "A", [usable |-> TRUE])
         @@ Row("sales", "Account", "A", [usable |-> TRUE])
         @@ Row("group", "Account", "A", [usable |-> FALSE])
Scans == Row("scan", "FileObject", "A", <<>>) @@ Row("scan B", "FileObject", "B", <<>>)
Template == System("form", "DocumentTemplate", [usable |-> TRUE])
Papers ==
  Template
  @@ Row("memo", "Document", "A",
         [currentVersionNo |-> 1, template |-> {Seed("form", "DocumentTemplate")},
          ownerEmployee |-> {}])
  @@ Row("memo 1", "DocumentVersion", "A",
         [document |-> {Seed("memo", "Document")}, versionNo |-> 1, pdfFile |-> {},
          attachments |-> {}])
Sites == Row("A", "BusinessSite", "A", [code |-> "YARD", legalEntity |-> {}])
         @@ Row("B", "BusinessSite", "B", [code |-> "YARD", legalEntity |-> {}])
Site(name) == [businessSite |-> {Seed(name, "BusinessSite")}]
Shift == Sites @@ Row("DAY", "ShiftPolicy", "A", [code |-> "DAY", version |-> 1] @@ Site("A"))
Policy == Template @@ Row("annual", "LeavePolicy", "A", <<>>)

Form(shown, user, target, columns) ==
  [page |-> shown, user |-> user, company |-> Seed("A", "Company"),
   into |-> Seed("A", "Company"), target |-> target, columns |-> columns, requests |-> 2]
Times(n, form) == [form EXCEPT !.requests = n]
InB(form) == [form EXCEPT !.into = Seed("B", "Company")]
Code(c) == [code |-> c]
Entity(name) == [legalEntity |-> {Seed(name, "LegalEntity")}]
Of1(column, name, kind) == column :> {Seed(name, kind)}
Kim == Seed("kim", "Employee")
HQ == Seed("HQ", "Department")
Memo == Seed("memo", "Document")
Entry(lines, columns) ==
  columns @@ [lines |-> lines, accounts |-> {Seed("cash", "Account"), Seed("sales", "Account")}]
Balanced == <<<<5, 0>>, <<0, 5>>>>

MCFormOf ==
  [login |-> Form(LoginPage, "lee", <<>>, [password |-> "right"]),
   mistype |-> Form(LoginPage, "lee", <<>>, [password |-> "wrong"]),
   guestLogin |-> Form(LoginPage, "guest", <<>>, [password |-> "right"]),
   logout |-> Form(LogoutDialog, "hr", <<>>, <<>>),
   company |-> Form(CompaniesPage, "boss", <<>>, Code("C")),
   takenCompany |-> Form(CompaniesPage, "hr", <<>>, Code("D")),
   rename |-> Form(Client("updateCompany"), "hr", Seed("A", "Company"), Code("C")),
   renameB |-> Form(Client("updateCompany"), "hr", Seed("B", "Company"), Code("C")),
   entity |-> Form(LegalEntityForm, "boss", <<>>, Code("SUB")),
   entityB |-> InB(Form(LegalEntityForm, "boss", <<>>, Code("SUB"))),
   siteOfB |-> Form(BusinessSiteForm, "hr", <<>>, Code("YARD") @@ Entity("B")),
   department |-> Form(DepartmentsPage, "hr", <<>>,
                       Code("NEW") @@ [parent |-> {HQ}, manager |-> {Kim}]),
   turn |-> Form(Client("updateDepartment"), "hr", HQ, Of1("parent", "Lab", "Department")),
   close |-> Form(Client("deleteDepartment"), "boss", HQ, <<>>),
   hire |-> Form(NewEmployeePage, "hr", <<>>,
                 [employeeNumber |-> "new", department |-> {HQ}, manager |-> {Kim}]),
   edit |-> Form(EditEmployeePage, "hr", Kim, Entity("B")),
   dismiss |-> Form(DeactivateButton, "hr", Kim, [employmentStatus |-> "TERMINATED"]),
   erase |-> Form(Client("deleteEmployee"), "boss", Kim, <<>>),
   position |-> Form(Client("createPosition"), "hr", <<>>, Code("P")),
   title |-> InB(Form(Client("createJobTitle"), "hr", <<>>, Code("T"))),
   vendor |-> Form(Client("createVendor"), "hr", <<>>, Code("V") @@ Entity("B")),
   center |-> Form(Client("createCostCenter"), "hr", <<>>, Code("X") @@ Entity("A")),
   project |-> Form(Client("createProject"), "boss", <<>>, Code("X") @@ Entity("A")),
   entry |-> Form(JournalEntriesPage, "hr", <<>>, Entry(Balanced, Entity("A"))),
   entry2 |-> Form(JournalEntriesPage, "boss", <<>>, Entry(Balanced, <<>>)),
   lopsided |-> Form(JournalEntriesPage, "boss", <<>>, Entry(<<<<5, 0>>, <<0, 4>>>>, <<>>)),
   group |-> Form(JournalEntriesPage, "hr", <<>>,
                  [Entry(Balanced, <<>>) EXCEPT !.accounts = {Seed("group", "Account")}]),
   claim |-> Form(ExpensesPage, "kim", <<>>, Of1("receiptFile", "scan", "FileObject")),
   claimFor |-> Form(ExpensesPage, "hr", <<>>, [employee |-> {Kim}]),
   claimOut |-> Form(ExpensesPage, "hr", <<>>, Of1("employee", "out", "Employee")),
   receipt |-> Form(ReceiptField, "kim", <<>>, <<>>),
   file |-> Form(FilesPage, "kim", <<>>, <<>>),
   seal |-> Form(Client("createSignature"), "kim", <<>>,
                 [isDefault |-> TRUE] @@ Of1("file", "scan", "FileObject")),
   seal2 |-> Form(Client("createSignature"), "kim", <<>>,
                  [isDefault |-> TRUE] @@ Of1("file", "scan", "FileObject")),
   sealB |-> Form(Client("createSignature"), "kim", <<>>,
                  [isDefault |-> FALSE] @@ Of1("file", "scan B", "FileObject")),
   draft |-> Form(CreateDocumentModal, "kim", <<>>,
                  Of1("template", "form", "DocumentTemplate")
                  @@ Of1("attachments", "scan", "FileObject")),
   version |-> Form(AddVersionModal, "kim", Memo, Of1("attachments", "scan", "FileObject")),
   version2 |-> Form(AddVersionModal, "hr", Memo, <<>>),
   render |-> Times(1, Form(RenderButton, "kim", Memo, <<>>)),
   renderFirst |-> Form(RenderButton, "hr", Memo, [versionNo |-> 1]),
   shift |-> Form(ShiftPolicyForm, "hr", <<>>, Code("DAY") @@ Site("A")),
   shiftB |-> Form(ShiftPolicyForm, "boss", <<>>,
                   Code("DAY") @@ [version |-> 2] @@ Site("B")),
   shiftTwo |-> Form(ShiftPolicyForm, "boss", <<>>, Code("DAY") @@ [version |-> 2]),
   reshift |-> Form(ShiftPolicyVersionForm, "boss", Seed("DAY", "ShiftPolicy"), <<>>),
   leave |-> Form(LeavePage, "kim", <<>>,
                  Of1("leavePolicy", "annual", "LeavePolicy")
                  @@ Of1("template", "form", "DocumentTemplate")),
   correction |-> Form(CorrectionsPage, "kim", <<>>, Of1("template", "form", "DocumentTemplate")),
   import |-> Times(3, Form(ImportsPage, "hr", <<>>, <<>>)),
   export |-> Form(ExportsPage, "hr", <<>>, <<>>)]

RowsOf(users) ==
  LET member(u) == Memberships[u]
      session(u) == IF MCSigned[u] = NoSession THEN <<>>
                    ELSE System(u, "UserSession", [user |-> u, expired |-> FALSE])
      all == UNION {{member(u), session(u)} : u \in users}
  IN  [i \in UNION {DOMAIN m : m \in all} |-> (CHOOSE m \in all : i \in DOMAIN m)[i]]

Desk(failing, forms, there) ==
  [forms |-> forms, faults |-> failing, rows |-> Companies @@ RowsOf({MCFormOf[f].user : f \in forms}) @@ there]

MCDesks ==
  { Desk(1, {"login", "mistype", "guestLogin"}, <<>>), Desk(1, {"logout", "center"}, Entities2),
    Desk(1, {"import"}, <<>>), Desk(1, {"logout", "import"}, <<>>), Desk(1, {"export"}, <<>>),
    Desk(1, {"company", "rename"}, <<>>), Desk(1, {"company"}, <<>>),
    Desk(1, {"takenCompany", "renameB"}, <<>>),
    Desk(1, {"entity", "position"}, <<>>), Desk(1, {"entityB"}, <<>>),
    Desk(1, {"siteOfB", "title"}, Entities2),
    Desk(1, {"department", "close"}, Departments @@ People),
    Desk(1, {"turn", "close"}, Departments),
    Desk(0, {"department", "turn", "close"}, Departments @@ People),
    Desk(1, {"hire", "erase"}, Departments @@ People),
    Desk(1, {"hire", "close"}, Departments @@ People),
    Desk(1, {"edit", "claim"}, People @@ Scans), Desk(1, {"claim", "dismiss"}, People @@ Scans),
    Desk(1, {"claimFor", "erase"}, People),
    Desk(1, {"claimOut", "lopsided"}, People @@ Worker("out", "B", "") @@ Books),
    Desk(1, {"vendor", "project"}, Entities2), Desk(1, {"entry", "entry2"}, Entities2 @@ Books),
    Desk(1, {"group", "file"}, Books),
    Desk(0, {"receipt", "claim"}, People @@ Scans),
    Desk(1, {"seal", "seal2"}, Scans), Desk(1, {"sealB", "draft"}, Scans @@ Template @@ People),
    Desk(1, {"version", "version2"}, Papers @@ Scans),
    Desk(1, {"version", "render"}, Papers @@ Scans), Desk(1, {"renderFirst"}, Papers),
    Desk(1, {"version2", "renderFirst"}, Papers),
    Desk(0, {"claim", "dismiss", "erase"}, People @@ Scans),
    Desk(0, {"version", "version2", "renderFirst"}, Papers @@ Scans),
    Desk(1, {"shift", "reshift"}, Shift), Desk(1, {"shift"}, Sites),
    Desk(0, {"shiftB", "reshift"}, Shift), Desk(0, {"shiftTwo", "shift"}, Shift),
    Desk(1, {"leave", "erase"}, People @@ Policy),
    Desk(1, {"correction", "dismiss"}, People @@ Template),
    Desk(1, {"correction", "erase"}, People @@ Template) }
=============================================================================
