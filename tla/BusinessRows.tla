------------------------------ MODULE BusinessRows ------------------------------
(***************************************************************************)
(* The rows of the back office and what the database does with them: what  *)
(* a row may refer to, what must be unique, and what becomes of the rows   *)
(* that refer to one that is deleted.                                      *)
(*                                                                         *)
(* A database is a function from ids to rows; a row is a record with its   *)
(* kind, its company and its columns.  A column that refers to other rows  *)
(* holds a set of ids: none for NULL, several where the rows of a detail   *)
(* table (items, lines, attachments) are kept with the row they belong to. *)
(***************************************************************************)
EXTENDS FiniteSets, Naturals, TLC

Reference(kind, column, to, onDelete) ==
  [kind |-> kind, column |-> column, to |-> to, onDelete |-> onDelete]

OrganisationReferences ==
  { Reference("BusinessSite", "legalEntity", "LegalEntity", "SetNull"),
    Reference("Department", "businessSite", "BusinessSite", "SetNull"),
    Reference("Department", "parent", "Department", "SetNull"),
    Reference("Department", "manager", "Employee", "SetNull") }
  \cup { Reference("Employee", r[1], r[2], "SetNull") :
           r \in { <<"legalEntity", "LegalEntity">>, <<"businessSite", "BusinessSite">>,
                   <<"department", "Department">>, <<"position", "Position">>,
                   <<"jobTitle", "JobTitle">>, <<"manager", "Employee">> } }

\* An attachment that goes with its file is an id less in the column of the version.
DocumentReferences ==
  { Reference("Document", "ownerEmployee", "Employee", "SetNull"),
    Reference("Document", "template", "DocumentTemplate", "SetNull"),
    Reference("DocumentVersion", "document", "Document", "Cascade"),
    Reference("DocumentVersion", "pdfFile", "FileObject", "SetNull"),
    Reference("DocumentVersion", "attachments", "FileObject", "SetNull"),
    Reference("SignatureAsset", "file", "FileObject", "Cascade") }

RequestReferences ==
  { Reference("LeaveRequest", "employee", "Employee", "Cascade"),
    Reference("LeaveRequest", "leavePolicy", "LeavePolicy", "Restrict"),
    Reference("LeaveRequest", "document", "Document", "SetNull"),
    Reference("AttendanceCorrection", "employee", "Employee", "Cascade"),
    Reference("AttendanceCorrection", "document", "Document", "SetNull") }

\* Mutant: a claim goes with its employee (RecordsAreKept).
ClaimReferencesCascading ==
  { Reference("ExpenseClaim", "employee", "Employee", "Cascade") }
  \cup { Reference("ExpenseClaim", r[1], r[2], "SetNull") :
           r \in { <<"legalEntity", "LegalEntity">>, <<"document", "Document">>,
                   <<"costCenter", "CostCenter">>, <<"project", "Project">>,
                   <<"vendor", "Vendor">>, <<"receiptFile", "FileObject">> } }

\* ExpenseClaim and its items.
ClaimReferences ==
  { Reference("ExpenseClaim", "employee", "Employee", "Restrict") }
  \cup { Reference("ExpenseClaim", r[1], r[2], "SetNull") :
           r \in { <<"legalEntity", "LegalEntity">>, <<"document", "Document">>,
                   <<"costCenter", "CostCenter">>, <<"project", "Project">>,
                   <<"vendor", "Vendor">>, <<"receiptFile", "FileObject">> } }

\* Vendor, CostCenter and Project; JournalEntry and its lines.
FinanceReferences ==
  { Reference(k, "legalEntity", "LegalEntity", "SetNull") :
      k \in {"Vendor", "CostCenter", "Project", "JournalEntry"} }
  \cup { Reference("JournalEntry", "accounts", "Account", "Restrict") }
  \cup { Reference("JournalEntry", r[1], r[2], "SetNull") :
           r \in { <<"expenseClaim", "ExpenseClaim">>, <<"vendor", "Vendor">>,
                   <<"costCenter", "CostCenter">>, <<"project", "Project">> } }

JobReferences == { Reference("ImportJob", "sourceFile", "FileObject", "SetNull") }

PolicyReferences == { Reference("ShiftPolicy", "businessSite", "BusinessSite", "SetNull") }

References ==
  OrganisationReferences \cup DocumentReferences \cup RequestReferences \cup ClaimReferences
  \cup FinanceReferences \cup JobReferences \cup PolicyReferences

\* The @@unique constraints and the @unique columns, kind by kind.
UniqueColumns(kind) ==
  CASE kind = "Company" -> {"code"}
    [] kind \in {"LegalEntity", "BusinessSite", "Department", "Position", "JobTitle",
                 "Vendor", "CostCenter", "Project"} -> {"company", "code"}
    [] kind = "Employee" -> {"company", "employeeNumber"}
    [] kind = "CompanyMembership" -> {"company", "user"}
    [] kind = "DocumentVersion" -> {"document", "versionNo"}
    [] kind = "JournalEntry" -> {"company", "number"}
    [] kind = "ShiftPolicy" -> {"company", "code", "version"}
    [] OTHER -> {}

\* The columns of a row that are never NULL, where a handler relies on it.
NotNull(kind) ==
  {"kind", "company"}
  \cup CASE kind = "Document" -> {"currentVersionNo"}
         [] kind = "DocumentVersion" -> {"document", "versionNo", "pdfFile"}
         [] OTHER -> {}

\* A column a row was written without is NULL.
Referred(row, column) == IF column \in DOMAIN row THEN row[column] ELSE {}

ReferencesFrom == [k \in {r.kind : r \in References} |-> {r \in References : r.kind = k}]

ReferencesOf(row) ==
  IF row.kind \in DOMAIN ReferencesFrom THEN ReferencesFrom[row.kind] ELSE {}

\* No foreign key of the row points nowhere, or to a row of another table.
Intact(db, row) ==
  \A r \in ReferencesOf(row) :
    \A i \in Referred(row, r.column) : i \in DOMAIN db /\ db[i].kind = r.to

Clashes(db, id, row) ==
  /\ UniqueColumns(row.kind) # {}
  /\ \E i \in DOMAIN db \ {id} :
       /\ db[i].kind = row.kind
       /\ \A c \in UniqueColumns(row.kind) : db[i][c] = row[c]

Storable(db, id, row) == Intact(db, row) /\ ~Clashes(db, id, row)

Stored(db, id, row) == [i \in DOMAIN db \cup {id} |-> IF i = id THEN row ELSE db[i]]

\* The row with the given columns in place of its own.
Over(columns, row) ==
  [c \in DOMAIN columns \cup DOMAIN row |-> IF c \in DOMAIN columns THEN columns[c] ELSE row[c]]

\* The tables a column of this name leads to.
TablesOf(column) == {r.to : r \in {s \in References : s.column = column}}

Referring(db, id, onDelete) ==
  {i \in DOMAIN db : \E r \in ReferencesOf(db[i]) :
                       r.onDelete = onDelete /\ id \in Referred(db[i], r.column)}

Deletable(db, id) == Referring(db, id, "Restrict") = {}

\* Mutant: ON DELETE SET NULL is forgotten (BackOfficeTypeOK).
WithoutKeeping(db, id) ==
  [i \in DOMAIN db \ ({id} \cup Referring(db, id, "Cascade")) |-> db[i]]

\* Nothing refers by Restrict, or in turn by Cascade, to the rows that go with a
\* department or an employee; these are the only rows with a handler that deletes them.
Without(db, id) ==
  LET columns(row) == {r.column : r \in ReferencesOf(row)}
      forget(row) == [c \in DOMAIN row |->
                        IF c \in columns(row) THEN row[c] \ {id} ELSE row[c]]
  IN  [i \in DOMAIN db \ ({id} \cup Referring(db, id, "Cascade")) |-> forget(db[i])]

OfKind(db, kind) == {i \in DOMAIN db : i[3] = kind}

\* Rows are of the kind their id says, and no reference leads nowhere.
WellFormed(db) ==
  \A i \in DOMAIN db : /\ db[i].kind = i[3] /\ NotNull(i[3]) \subseteq DOMAIN db[i]
                       /\ Intact(db, db[i])

\* The columns whose rows the handlers look for in the company of the row.  The legal
\* entity of a claim is not among them: it may be its employee's, which nobody checks.
ScopedColumns ==
  [Vendor |-> {"legalEntity"}, CostCenter |-> {"legalEntity"}, Project |-> {"legalEntity"},
   LeaveRequest |-> {"employee", "leavePolicy", "document"},
   AttendanceCorrection |-> {"employee", "document"},
   ExpenseClaim |->
     {"employee", "costCenter", "project", "document", "vendor", "receiptFile"},
   JournalEntry |->
     {"legalEntity", "expenseClaim", "accounts", "vendor", "costCenter", "project"},
   SignatureAsset |-> {"file"}, ImportJob |-> {"sourceFile"}, ShiftPolicy |-> {"businessSite"},
   Document |-> {"ownerEmployee"},
   DocumentVersion |-> {"document", "pdfFile", "attachments"}]

StayInCompany(db) ==
  \A i \in DOMAIN db :
    i[3] \in DOMAIN ScopedColumns =>
      \A c \in ScopedColumns[i[3]] :
        \A j \in Referred(db[i], c) : db[j].company = db[i].company

\* The versions of a document are numbered from one to the current one.
Numbered(db) ==
  \A d \in OfKind(db, "Document") :
    LET versions == {v \in OfKind(db, "DocumentVersion") : db[v].document = {d}}
    IN  /\ {db[v].versionNo : v \in versions} = 1..db[d].currentVersionNo
        /\ Cardinality(versions) = db[d].currentVersionNo
=============================================================================
