-------------------------- MODULE BackOfficePromiseProofs --------------------------
(***************************************************************************)
(* Proofs about BackOffice, on top of the invariants of BackOfficeProofs:  *)
(* versions are numbered without gaps (VersionsOK), files show what they   *)
(* were made of (FilesOK), the audit log tells of every row (AuditOK), a   *)
(* default signature is not lost (DefaultsOK), and a form that goes away   *)
(* once it is stored is not stored twice (OnceOK).                         *)
(***************************************************************************)
EXTENDS BackOfficeProofs

(***************************************************************************)
(* The versions of the documents.                                          *)
(***************************************************************************)
\* CompleteFor: the versions of the document are numbered from one to the current one.
VersionsIn(db, d) == {v \in OfKind(db, "DocumentVersion") : db[v].document = {d}}

CompleteFor(db, d) ==
  /\ {db[v].versionNo : v \in VersionsIn(db, d)} = 1..db[d].currentVersionNo
  /\ Cardinality(VersionsIn(db, d)) = db[d].currentVersionNo

\* A version belongs to one document, and its number to no other of the document's.
VersionsApart(db) ==
  /\ \A v \in OfKind(db, "DocumentVersion") :
       \E d \in OfKind(db, "Document") : db[v].document = {d}
  /\ \A v, w \in OfKind(db, "DocumentVersion") :
       db[v].document = db[w].document /\ db[v].versionNo = db[w].versionNo => v = w

\* A handler that adds a version goes on from the current one it has read, or an earlier one.
NumberMeant(q) ==
  LET r == request[q]
  IN  r.phase = "running" /\ r.op = "addVersion" /\ r.at >= 3 =>
        r.no \in Nat \ {0} /\ r.no <= rows[TargetOf(q)].currentVersionNo + 1

\* The inductive invariant of the versions.
VersionsOK ==
  /\ IsFiniteSet(DOMAIN rows)
  /\ \A d \in Of("Document") : rows[d].currentVersionNo \in Nat /\ CompleteFor(rows, d)
  /\ VersionsApart(rows)
  /\ \A q \in RequestIds : NumberMeant(q)

LEMMA VersionsInit == Init => VersionsOK
  <1> SUFFICES ASSUME Init PROVE VersionsOK
    OBVIOUS
  <1>1. PICK desk \in Desks :
          /\ rows = desk.rows
          /\ request = [q \in UNION {{f} \X (1..FormOf[f].requests) : f \in desk.forms} |-> Idle]
    BY DEF Init
  <1>2. ASSUME NEW q \in RequestIds
        PROVE  NumberMeant(q)
    <2>1. request[q] = Idle
      BY <1>1 DEF RequestIds
    <2> QED
      BY <2>1, IdleFields DEF NumberMeant
  <1>3. IsFiniteSet(DOMAIN rows) /\ WellFormed(rows)
    BY <1>1, DesksAssumption
  <1>4. ASSUME NEW d \in Of("Document")
        PROVE  rows[d].currentVersionNo \in Nat /\ CompleteFor(rows, d)
    <2>0. Numbered(rows)
      BY <1>1, DesksAssumption
    <2>1. CompleteFor(rows, d)
      BY <2>0 DEF Numbered, CompleteFor, VersionsIn, Of
    <2>2. VersionsIn(rows, d) \subseteq DOMAIN rows
      BY DEF VersionsIn, OfKind
    <2>3. Cardinality(VersionsIn(rows, d)) \in Nat
      BY <1>3, <2>2, FS_Subset, FS_CardinalityType
    <2> QED
      BY <2>1, <2>3 DEF CompleteFor
  <1>5. ASSUME NEW v \in Of("DocumentVersion"), NEW w \in Of("DocumentVersion"),
               rows[v].document = rows[w].document, rows[v].versionNo = rows[w].versionNo
        PROVE  v = w
    <2>1. ~Clashes(rows, v, rows[v]) /\ rows[v].kind = "DocumentVersion"
          /\ rows[w].kind = "DocumentVersion" /\ w \in DOMAIN rows
      BY <1>1, <1>3, DesksAssumption DEF Of, OfKind, WellFormed
    <2>2. UniqueColumns("DocumentVersion") = {"document", "versionNo"}
      BY DEF UniqueColumns
    <2> QED
      BY <1>5, <2>1, <2>2 DEF Clashes
  <1>6. \A v \in Of("DocumentVersion") : \E d \in Of("Document") : rows[v].document = {d}
    BY <1>1, DesksAssumption DEF Of
  <1> QED
    BY <1>2, <1>3, <1>4, <1>5, <1>6 DEF VersionsOK, VersionsApart, Of

\* A step that leaves the documents and their versions alone.
Quiet ==
  /\ OfKind(rows', "Document") = OfKind(rows, "Document")
  /\ OfKind(rows', "DocumentVersion") = OfKind(rows, "DocumentVersion")
  /\ \A d \in OfKind(rows, "Document") :
       rows'[d].currentVersionNo = rows[d].currentVersionNo
  /\ \A v \in OfKind(rows, "DocumentVersion") :
       rows'[v].document = rows[v].document /\ rows'[v].versionNo = rows[v].versionNo

Drafts(q) ==
  /\ request[q].op \in Drafting /\ request[q].at = 3 /\ Draft(q) /\ Goes(q)
  /\ NewId(q, "Document") \notin DOMAIN rows /\ NewId(q, "DocumentVersion") \notin DOMAIN rows
  /\ rows' = Stored(Stored(rows, NewId(q, "Document"), DocumentRow(q)),
                    NewId(q, "DocumentVersion"), VersionRow(q, NewId(q, "Document"), 1))

Adds(q) ==
  /\ request[q].op = "addVersion" /\ request[q].at = 3 /\ Version(q)
  /\ NewId(q, "DocumentVersion") \notin DOMAIN rows /\ TargetOf(q) \in Of("Document")
  /\ ~Clashes(rows, NewId(q, "DocumentVersion"), VersionRow(q, TargetOf(q), request[q].no))
  /\ rows' = WithVersion(q)

LEMMA KeptVersionColumns ==
  ASSUME Life, RowsOK, Fresh, [Next]_vars, NEW v \in OfKind(rows, "DocumentVersion"),
         \E d \in Of("Document") : rows[v].document = {d}
  PROVE  rows'[v].document = rows[v].document /\ rows'[v].versionNo = rows[v].versionNo
  <1>1. RowsGoOn /\ Of("Document") \subseteq Of("Document")'
    BY RowsGoingOn, KeptRows DEF ErasableKinds
  <1>2. v \in DOMAIN rows /\ v \in DOMAIN rows' /\ v[3] = "DocumentVersion"
    BY <1>1 DEF OfKind, RowsGoOn, ErasableKinds
  <1>3. OldRowKept(v)
    BY <1>2, RowsOverTime
  <1>4. {"document", "versionNo"} \subseteq DOMAIN rows[v]
    BY <1>2 DEF RowsOK, WellFormed, NotNull
  <1>5. ColumnKept(v, "document") /\ ColumnKept(v, "versionNo")
    BY <1>2, <1>3, <1>4 DEF OldRowKept
  <1>6. rows'[v].versionNo = rows[v].versionNo
    BY <1>2, <1>5, ReferenceFacts DEF ColumnKept
  <1>7. rows'[v].document = rows[v].document
    <2>1. PICK d \in Of("Document") : rows[v].document = {d}
      OBVIOUS
    <2>2. d \in DOMAIN rows'
      BY <1>1 DEF Of, OfKind
    <2> QED
      BY <1>2, <1>5, <2>1, <2>2 DEF ColumnKept
  <1> QED
    BY <1>6, <1>7

LEMMA VersionSteps ==
  ASSUME Life, RowsOK, Fresh, VersionsOK, [Next]_vars
  PROVE  Quiet \/ \E q \in Running : Drafts(q) \/ Adds(q)
  <1>1. RowsGoOn
    BY RowsGoingOn
  <1>2. \A kind \in {"Document", "DocumentVersion"} :
          OfKind(rows, kind) \subseteq OfKind(rows', kind)
    BY <1>1 DEF RowsGoOn, ErasableKinds, OfKind
  <1>3. ASSUME NEW q \in Running, Draft(q), rows' # rows
        PROVE  Drafts(q)
    <2>1. /\ request[q].op \in Drafting /\ request[q].at = 3
          /\ Does(request[q].op)[request[q].at] = "draft"
      BY <1>3, RunningFacts DEF Draft, At, HandlerOf, Does, StatementAt
    <2>2. NewId(q, "Document") \notin DOMAIN rows /\ NewId(q, "DocumentVersion") \notin DOMAIN rows
      BY <2>1, FreeIds DEF Creates
    <2>3. Statement(q) /\ ~Ends(q)
      <3>1. Statement(q)
        BY <1>3 DEF Statement
      <3>2. ASSUME Ends(q) PROVE FALSE
        <4>1. Proceed(q, [request[q] EXCEPT !.row = NewId(q, "Document")])
          BY <1>3 DEF Draft
        <4>2. Len(Does(request[q].op)) # 3
          BY <2>1, RunningFacts DEF TableEntry
        <4>3. [request[q] EXCEPT !.row = NewId(q, "Document")].at = 3
          BY <2>1, RunningFacts DEF RequestOK, Idle
        <4>4. request'[q] = [[request[q] EXCEPT !.row = NewId(q, "Document")] EXCEPT !.at = @ + 1]
          BY <4>1, <4>2, <4>3, RunningFacts DEF Proceed, HandlerOf, Does, RequestIds
        <4>5. request'[q].phase = "running"
          BY <4>4, RunningFacts DEF RequestOK, Idle
        <4> QED
          BY <3>2, <4>5 DEF Ends
      <3> QED
        BY <3>1, <3>2
    <2>4. Goes(q)
      BY <2>3, StatementMoves
    <2> QED
      BY <1>3, <2>1, <2>2, <2>4 DEF Drafts, Draft, DocumentRow
  <1>4. ASSUME NEW q \in Running, Version(q), rows' # rows
        PROVE  Adds(q)
    <2>1. /\ request[q].op = "addVersion" /\ request[q].at = 3 /\ request[q].phase = "running"
          /\ Does(request[q].op)[request[q].at] = "version" /\ q \in RequestIds
      BY <1>4, RunningFacts DEF Version, At, HandlerOf, Does, StatementAt
    <2>2. NewId(q, "DocumentVersion") \notin DOMAIN rows /\ TargetOf(q) \in Of("Document")
      BY <2>1, FreeIds DEF Creates, RowsOK, Knows
    <2> QED
      BY <1>4, <2>1, <2>2 DEF Adds, Version
  <1>5. ASSUME NEW i \in DOMAIN rows', i \notin DOMAIN rows,
               i[3] \in {"Document", "DocumentVersion"}
        PROVE  \E q \in Running : Drafts(q) \/ Adds(q)
    <2>1. PICK q \in Running : /\ Statement(q) /\ Creates(request[q].op, request[q].at, i[3])
      BY <1>5, NewRowsBy
    <2> DEFINE s == Does(request[q].op)[request[q].at]
    <2>2. s # "insert" \/ i[3] # Handlers[request[q].op].kind
      BY <1>5, <2>1, RunningFacts DEF StatementAt
    <2>3. s \in {"draft", "version"}
      BY <1>5, <2>1, <2>2 DEF Creates
    <2>4. Draft(q) \/ Version(q)
      BY <2>1, <2>3, WhichStatement
    <2> QED
      BY <1>3, <1>4, <1>5, <2>4
  <1>6. ASSUME \A kind \in {"Document", "DocumentVersion"} :
                   OfKind(rows', kind) = OfKind(rows, kind),
               ~\E q \in Running : Drafts(q) \/ Adds(q)
        PROVE  Quiet
    <2>1. ASSUME NEW v \in OfKind(rows, "DocumentVersion")
          PROVE  rows'[v].document = rows[v].document /\ rows'[v].versionNo = rows[v].versionNo
      <3>1. \E d \in Of("Document") : rows[v].document = {d}
        BY DEF VersionsOK, VersionsApart, Of
      <3> QED
        BY <3>1, KeptVersionColumns
    <2>2. ASSUME NEW d \in OfKind(rows, "Document")
          PROVE  rows'[d].currentVersionNo = rows[d].currentVersionNo
      <3>1. d \in DOMAIN rows /\ d \in DOMAIN rows' /\ d[3] = "Document"
        BY <1>6 DEF OfKind
      <3>2. "currentVersionNo" \in DOMAIN rows[d]
        BY <3>1 DEF RowsOK, WellFormed, NotNull
      <3>3. ColumnKept(d, "currentVersionNo")
        BY <3>1, <3>2, RowsOverTime DEF OldRowKept
      <3>4. ASSUME NEW q \in Running, Version(q)
            PROVE  rows' = rows
        BY <1>4, <1>6, <3>4
      <3> QED
        BY <3>1, <3>3, <3>4, ReferenceFacts DEF ColumnKept
    <2> QED
      BY <1>6, <2>1, <2>2 DEF Quiet
  <1>7. CASE \A kind \in {"Document", "DocumentVersion"} : OfKind(rows', kind) = OfKind(rows, kind)
    BY <1>6, <1>7
  <1>8. CASE \E kind \in {"Document", "DocumentVersion"} : OfKind(rows', kind) # OfKind(rows, kind)
    <2>1. \E i \in DOMAIN rows' : i \notin DOMAIN rows /\ i[3] \in {"Document", "DocumentVersion"}
      BY <1>2, <1>8 DEF OfKind
    <2> QED
      BY <1>5, <2>1
  <1> QED
    BY <1>7, <1>8

\* What VersionsOK says of a database.
Complete(db) ==
  /\ \A d \in OfKind(db, "Document") : db[d].currentVersionNo \in Nat /\ CompleteFor(db, d)
  /\ VersionsApart(db)

LEMMA QuietVersions ==
  ASSUME Complete(rows), Quiet
  PROVE  Complete(rows')
  <1>1. ASSUME NEW d \in OfKind(rows', "Document")
        PROVE  rows'[d].currentVersionNo \in Nat /\ CompleteFor(rows', d)
    <2>1. VersionsIn(rows', d) = VersionsIn(rows, d)
      BY DEF Quiet, VersionsIn
    <2>2. {rows'[v].versionNo : v \in VersionsIn(rows', d)}
            = {rows[v].versionNo : v \in VersionsIn(rows, d)}
      BY <2>1 DEF Quiet, VersionsIn
    <2>3. /\ rows'[d].currentVersionNo = rows[d].currentVersionNo
          /\ rows[d].currentVersionNo \in Nat /\ CompleteFor(rows, d)
      BY <1>1 DEF Quiet, Complete
    <2> QED
      BY <2>1, <2>2, <2>3 DEF CompleteFor
  <1>2. VersionsApart(rows')
    BY DEF Quiet, Complete, VersionsApart
  <1> QED
    BY <1>1, <1>2 DEF Complete

LEMMA DraftedVersions ==
  ASSUME Complete(rows), NEW q, Drafts(q)
  PROVE  Complete(rows')
  <1> DEFINE new == NewId(q, "Document")
             first == NewId(q, "DocumentVersion")
  <1>1. /\ DOMAIN rows' = DOMAIN rows \cup {new, first}
        /\ rows'[first] = VersionRow(q, new, 1)
        /\ new # first => rows'[new] = DocumentRow(q)
        /\ \A i \in DOMAIN rows : rows'[i] = rows[i]
        /\ new \notin DOMAIN rows /\ first \notin DOMAIN rows
    BY DEF Drafts, Stored
  <1>2. new[3] = "Document" /\ first[3] = "DocumentVersion"
    BY DEF NewId
  <1>3. /\ rows'[first].document = {new} /\ rows'[first].versionNo = 1
        /\ rows'[new].currentVersionNo = 1
    BY <1>1, <1>2 DEF VersionRow, DocumentRow
  <1>4. /\ OfKind(rows', "Document") = OfKind(rows, "Document") \cup {new}
        /\ OfKind(rows', "DocumentVersion") = OfKind(rows, "DocumentVersion") \cup {first}
        /\ new \notin OfKind(rows, "Document")
        /\ \A i \in OfKind(rows, "Document") \cup OfKind(rows, "DocumentVersion") :
             rows'[i] = rows[i]
    BY <1>1, <1>2 DEF OfKind
  <1>5. \A v \in OfKind(rows, "DocumentVersion") : \E d \in OfKind(rows, "Document") :
          rows[v].document = {d}
    BY DEF Complete, VersionsApart
  <1> HIDE DEF new, first
  <1>6. ASSUME NEW d \in OfKind(rows, "Document")
        PROVE  rows'[d].currentVersionNo \in Nat /\ CompleteFor(rows', d)
    <2>1. VersionsIn(rows', d) = VersionsIn(rows, d)
      BY <1>3, <1>4 DEF VersionsIn
    <2>2. {rows'[v].versionNo : v \in VersionsIn(rows', d)}
            = {rows[v].versionNo : v \in VersionsIn(rows, d)}
      BY <1>4, <2>1 DEF VersionsIn
    <2>3. rows'[d] = rows[d] /\ rows[d].currentVersionNo \in Nat /\ CompleteFor(rows, d)
      BY <1>4 DEF Complete
    <2> QED
      BY <2>1, <2>2, <2>3 DEF CompleteFor
  <1>7. rows'[new].currentVersionNo \in Nat /\ CompleteFor(rows', new)
    <2>1. VersionsIn(rows', new) = {first}
      BY <1>3, <1>4, <1>5 DEF VersionsIn
    <2>2. {rows'[v].versionNo : v \in VersionsIn(rows', new)} = {1}
      BY <1>3, <2>1
    <2>3. Cardinality(VersionsIn(rows', new)) = 1
      BY <2>1, FS_Singleton
    <2>4. 1..1 = {1}
      OBVIOUS
    <2> QED
      BY <1>3, <2>2, <2>3, <2>4 DEF CompleteFor
  <1>8. VersionsApart(rows')
    <2>1. ASSUME NEW v \in OfKind(rows, "DocumentVersion")
          PROVE  rows'[v].document # rows'[first].document
      BY <1>3, <1>4, <1>5
    <2>2. \A v \in OfKind(rows', "DocumentVersion") : \E d \in OfKind(rows', "Document") :
            rows'[v].document = {d}
      BY <1>3, <1>4, <1>5
    <2> QED
      BY <1>4, <2>1, <2>2 DEF Complete, VersionsApart
  <1> QED
    BY <1>4, <1>6, <1>7, <1>8 DEF Complete

\* The number a version is given is the next one, or another request has taken it.
LEMMA NextNumber ==
  ASSUME Complete(rows), RowsOK, NEW q \in Running, Adds(q), NumberMeant(q)
  PROVE  request[q].no = rows[TargetOf(q)].currentVersionNo + 1
  <1> DEFINE d == TargetOf(q)
             no == request[q].no
             current == rows[d].currentVersionNo
             new == NewId(q, "DocumentVersion")
  <1>1. no \in Nat \ {0} /\ no <= current + 1 /\ current \in Nat /\ CompleteFor(rows, d)
    BY DEF NumberMeant, Adds, Running, Complete, Of
  <1>2. ASSUME NEW v \in VersionsIn(rows, d), rows[v].versionNo = no
        PROVE  FALSE
    <2>1. UniqueColumns("DocumentVersion") = {"document", "versionNo"}
      BY DEF UniqueColumns
    <2>2. /\ v \in DOMAIN rows \ {new} /\ rows[v].kind = "DocumentVersion"
          /\ rows[v].document = {d}
      BY <1>2 DEF VersionsIn, OfKind, Adds, RowsOK, WellFormed
    <2>3. /\ VersionRow(q, d, no).kind = "DocumentVersion"
          /\ VersionRow(q, d, no).document = {d} /\ VersionRow(q, d, no).versionNo = no
      BY DEF VersionRow
    <2>4. Clashes(rows, new, VersionRow(q, d, no))
      BY <1>2, <2>1, <2>2, <2>3 DEF Clashes
    <2> QED
      BY <2>4 DEF Adds
  <1>3. no \notin 1..current
    BY <1>1, <1>2 DEF CompleteFor
  <1> QED
    BY <1>1, <1>3

LEMMA AddedVersions ==
  ASSUME Complete(rows), RowsOK, IsFiniteSet(DOMAIN rows), NEW q \in Running, Adds(q),
         NumberMeant(q)
  PROVE  Complete(rows') /\ rows'[TargetOf(q)].currentVersionNo = request[q].no
  <1> DEFINE t == TargetOf(q)
             no == request[q].no
             new == NewId(q, "DocumentVersion")
  <1>0. no = rows[t].currentVersionNo + 1 /\ rows[t].currentVersionNo \in Nat
        /\ t \in OfKind(rows, "Document") /\ CompleteFor(rows, t)
    BY NextNumber DEF Adds, Complete, Of
  <1>1. new[3] = "DocumentVersion" /\ new \notin DOMAIN rows /\ t[3] = "Document"
        /\ t \in DOMAIN rows /\ "currentVersionNo" \in DOMAIN rows[t] /\ new # t
    BY <1>0 DEF NewId, Adds, OfKind, RowsOK, WellFormed, NotNull
  <1>2. /\ DOMAIN rows' = DOMAIN rows \cup {new}
        /\ rows'[new] = VersionRow(q, t, no)
        /\ \A i \in DOMAIN rows \ {t} : rows'[i] = rows[i]
        /\ rows'[t] = [rows[t] EXCEPT !.currentVersionNo = no]
    BY <1>1 DEF Adds, WithVersion, Stored
  <1>3. /\ rows'[new].document = {t} /\ rows'[new].versionNo = no
        /\ rows'[t].currentVersionNo = no
    BY <1>1, <1>2 DEF VersionRow
  <1>4. /\ OfKind(rows', "Document") = OfKind(rows, "Document")
        /\ OfKind(rows', "DocumentVersion") = OfKind(rows, "DocumentVersion") \cup {new}
        /\ new \notin OfKind(rows, "DocumentVersion")
        /\ \A i \in OfKind(rows, "Document") \ {t} : rows'[i] = rows[i]
        /\ \A i \in OfKind(rows, "DocumentVersion") : rows'[i] = rows[i]
    BY <1>1, <1>2 DEF OfKind
  <1>5. VersionsIn(rows, t) \subseteq DOMAIN rows
    BY DEF VersionsIn, OfKind
  <1>6. IsFiniteSet(VersionsIn(rows, t))
    BY <1>5, FS_Subset
  <1> HIDE DEF t, no, new
  <1>7. ASSUME NEW d \in OfKind(rows, "Document"), d # t
        PROVE  rows'[d].currentVersionNo \in Nat /\ CompleteFor(rows', d)
    <2>1. VersionsIn(rows', d) = VersionsIn(rows, d)
      BY <1>3, <1>4, <1>7 DEF VersionsIn
    <2>2. {rows'[v].versionNo : v \in VersionsIn(rows', d)}
            = {rows[v].versionNo : v \in VersionsIn(rows, d)}
      BY <1>4, <2>1 DEF VersionsIn
    <2>3. rows'[d] = rows[d] /\ rows[d].currentVersionNo \in Nat /\ CompleteFor(rows, d)
      BY <1>4, <1>7 DEF Complete
    <2> QED
      BY <2>1, <2>2, <2>3 DEF CompleteFor
  <1>8. rows'[t].currentVersionNo \in Nat /\ CompleteFor(rows', t)
    <2> DEFINE old == VersionsIn(rows, t)
    <2>1. VersionsIn(rows', t) = old \cup {new} /\ new \notin old
      BY <1>3, <1>4 DEF VersionsIn
    <2>2. {rows'[v].versionNo : v \in VersionsIn(rows', t)}
            = {rows[v].versionNo : v \in old} \cup {no}
      BY <1>3, <1>4, <2>1 DEF VersionsIn
    <2>3. {rows[v].versionNo : v \in old} = 1..rows[t].currentVersionNo
          /\ Cardinality(old) = rows[t].currentVersionNo
      BY <1>0 DEF CompleteFor
    <2>4. Cardinality(VersionsIn(rows', t)) = no
      BY <1>0, <1>6, <2>1, <2>3, FS_AddElement
    <2>5. (1..rows[t].currentVersionNo) \cup {no} = 1..no /\ no \in Nat
      BY <1>0
    <2> QED
      BY <1>3, <2>2, <2>3, <2>4, <2>5 DEF CompleteFor
  <1>9. VersionsApart(rows')
    <2>1. ASSUME NEW v \in OfKind(rows, "DocumentVersion"),
                 rows[v].document = {t}, rows[v].versionNo = no
          PROVE  FALSE
      <3>1. v \in VersionsIn(rows, t)
        BY <2>1 DEF VersionsIn
      <3>2. no \in 1..rows[t].currentVersionNo
        BY <1>0, <2>1, <3>1 DEF CompleteFor
      <3> QED
        BY <1>0, <3>2
    <2>2. \A v \in OfKind(rows', "DocumentVersion") : \E d \in OfKind(rows', "Document") :
            rows'[v].document = {d}
      BY <1>0, <1>3, <1>4 DEF Complete, VersionsApart
    <2> QED
      BY <1>3, <1>4, <2>1, <2>2 DEF Complete, VersionsApart
  <1> QED
    BY <1>3, <1>4, <1>7, <1>8, <1>9 DEF Complete, t, no

\* A step adds finitely many rows.
LEMMA RowsFinite ==
  ASSUME Life, IsFiniteSet(DOMAIN rows), [Next]_vars
  PROVE  IsFiniteSet(DOMAIN rows')
  <1>1. ASSUME NEW q \in Running, Statement(q), Writes(q)
        PROVE  IsFiniteSet(DOMAIN rows')
    <2> DEFINE a == NewId(q, Handlers[request[q].op].kind)
               b == NewId(q, "CompanyMembership")
               c == NewId(q, "Document")
               d == NewId(q, "DocumentVersion")
               e == NewId(q, "FileObject")
    <2>1. DOMAIN rows' \subseteq DOMAIN rows \cup {a} \cup {b} \cup {c} \cup {d} \cup {e}
      BY <1>1, CreatedBy DEF Creates
    <2> HIDE DEF a, b, c, d, e
    <2>2. IsFiniteSet(DOMAIN rows \cup {a})
      BY FS_AddElement
    <2>3. IsFiniteSet(DOMAIN rows \cup {a} \cup {b})
      BY <2>2, FS_AddElement
    <2>4. IsFiniteSet(DOMAIN rows \cup {a} \cup {b} \cup {c})
      BY <2>3, FS_AddElement
    <2>5. IsFiniteSet(DOMAIN rows \cup {a} \cup {b} \cup {c} \cup {d})
      BY <2>4, FS_AddElement
    <2>6. IsFiniteSet(DOMAIN rows \cup {a} \cup {b} \cup {c} \cup {d} \cup {e})
      BY <2>5, FS_AddElement
    <2> QED
      BY <2>1, <2>6, FS_Subset
  <1>2. \A session : Expire(session) => DOMAIN rows' = DOMAIN rows
    BY DEF Expire
  <1> QED
    BY <1>1, <1>2, RowsMove

\* The current version of a document only goes up.
LEMMA CurrentGrows ==
  ASSUME Life, RowsOK, Fresh, VersionsOK, [Next]_vars, NEW d \in Of("Document")
  PROVE  /\ rows[d].currentVersionNo \in Nat /\ rows'[d].currentVersionNo \in Nat
         /\ rows[d].currentVersionNo <= rows'[d].currentVersionNo
  <1>0. rows[d].currentVersionNo \in Nat /\ Complete(rows)
    BY DEF VersionsOK, Complete, Of
  <1>1. CASE Quiet
    BY <1>0, <1>1 DEF Quiet, Of
  <1>2. ASSUME NEW q \in Running, Drafts(q)
        PROVE  rows'[d] = rows[d]
    BY <1>2 DEF Drafts, Stored, Of, OfKind
  <1>3. ASSUME NEW q \in Running, Adds(q)
        PROVE  /\ rows'[d].currentVersionNo \in Nat
               /\ rows[d].currentVersionNo <= rows'[d].currentVersionNo
    <2>1. NumberMeant(q)
      BY DEF Running, VersionsOK
    <2>2. CASE d = TargetOf(q)
      <3>1. rows'[d].currentVersionNo = rows[d].currentVersionNo + 1
        BY <1>0, <1>3, <2>1, <2>2, NextNumber, AddedVersions DEF VersionsOK
      <3> QED
        BY <1>0, <3>1
    <2>3. CASE d # TargetOf(q)
      <3>1. rows'[d] = rows[d]
        BY <1>3, <2>3 DEF Adds, WithVersion, Stored, Of, OfKind
      <3> QED
        BY <1>0, <3>1
    <2> QED
      BY <2>2, <2>3
  <1> QED
    BY <1>0, <1>1, <1>2, <1>3, VersionSteps

LEMMA NumberMeantAfter ==
  ASSUME Life, RowsOK, Fresh, VersionsOK, [Next]_vars, NEW q \in RequestIds
  PROVE  NumberMeant(q)'
  <1>0. Move(q) /\ RequestOK(q) /\ NumberMeant(q) /\ Knows(q)
    BY Moves DEF Life, VersionsOK, RowsOK
  <1>1. CASE Stays(q)
    <2>1. ASSUME request[q].phase = "running", request[q].op = "addVersion", request[q].at >= 3
          PROVE  NumberMeant(q)'
      <3>1. TargetOf(q) \in Of("Document")
        BY <1>0, <2>1 DEF Knows
      <3>2. /\ rows[TargetOf(q)].currentVersionNo \in Nat
            /\ rows'[TargetOf(q)].currentVersionNo \in Nat
            /\ rows[TargetOf(q)].currentVersionNo <= rows'[TargetOf(q)].currentVersionNo
        BY <3>1, CurrentGrows
      <3>3. /\ request[q].no \in Nat \ {0}
            /\ request[q].no <= rows[TargetOf(q)].currentVersionNo + 1
        BY <1>0, <2>1 DEF NumberMeant
      <3>4. request[q].no <= rows'[TargetOf(q)].currentVersionNo + 1
        BY <3>2, <3>3
      <3>5. TargetOf(q)' = TargetOf(q)
        BY DEF TargetOf, FormFor
      <3> QED
        BY <1>1, <3>3, <3>4, <3>5 DEF NumberMeant, Stays
    <2> QED
      BY <1>1, <2>1 DEF NumberMeant, Stays
  <1>2. CASE Starts(q)
    BY <1>2 DEF Starts, NumberMeant
  <1>3. CASE Ends(q)
    BY <1>3 DEF Ends, NumberMeant
  <1>4. CASE Goes(q)
    <2> SUFFICES ASSUME request'[q].op = "addVersion", request'[q].at >= 3
                 PROVE  NumberMeant(q)'
      BY <1>4 DEF Goes, NumberMeant
    <2>1. /\ request[q].op = "addVersion" /\ request[q].phase = "running"
          /\ request'[q].at = request[q].at + 1
          /\ request[q].at \in 1..8 /\ StatementAt(request[q].op, request[q].at)
      BY <1>0, <1>4, GoingOnFields DEF Goes
    <2>2. TargetOf(q)' = TargetOf(q)
      BY DEF TargetOf, FormFor
    <2>3. CASE Does(request[q].op)[request[q].at] = "check"
      <3>1. /\ request'[q].no = VersionMeant(q) /\ UNCHANGED rows /\ AccessGranted(q)
        BY <1>4, <2>3, CheckPassed
      <3>2. TargetOf(q) \in Of("Document")
        <4>1. TableEntry("addVersion")
          BY <1>0, <1>4, <2>1, GoingOnFields
        <4> QED
          BY <2>1, <3>1, <4>1 DEF AccessGranted, TableOf, HandlerOf, TableEntry
      <3>3. VersionMeant(q) = rows[TargetOf(q)].currentVersionNo + 1
        BY <2>1 DEF VersionMeant
      <3>4. rows[TargetOf(q)].currentVersionNo \in Nat
        BY <3>2 DEF VersionsOK
      <3> QED
        BY <2>2, <3>1, <3>3, <3>4 DEF NumberMeant
    <2>4. CASE Does(request[q].op)[request[q].at] # "check"
      <3>1. request[q].at >= 3 /\ Does(request[q].op)[request[q].at] # "number"
        <4>1. request[q].at # 1
          BY <2>1
        <4>2. request[q].at # 2
          BY <2>1, <2>4 DEF StatementAt, Unchecked, InsertPlace, FilePlace, Filing, Drafting
        <4>3. Does(request[q].op)[request[q].at] # "number"
          BY <2>1 DEF StatementAt
        <4> QED
          BY <2>1, <4>1, <4>2, <4>3
      <3>2. request'[q].no = request[q].no
        BY <1>0, <1>4, <2>4, <3>1, GoingOnFields
      <3>3. TargetOf(q) \in Of("Document")
        BY <1>0, <2>1, <3>1 DEF Knows
      <3>4. /\ rows[TargetOf(q)].currentVersionNo \in Nat
            /\ rows'[TargetOf(q)].currentVersionNo \in Nat
            /\ rows[TargetOf(q)].currentVersionNo <= rows'[TargetOf(q)].currentVersionNo
        BY <3>3, CurrentGrows
      <3>5. /\ request[q].no \in Nat \ {0}
            /\ request[q].no <= rows[TargetOf(q)].currentVersionNo + 1
        BY <1>0, <2>1, <3>1 DEF NumberMeant
      <3>6. request[q].no <= rows'[TargetOf(q)].currentVersionNo + 1
        BY <3>4, <3>5
      <3> QED
        BY <2>2, <3>2, <3>5, <3>6 DEF NumberMeant
    <2> QED
      BY <2>3, <2>4
  <1> QED
    BY <1>0, <1>1, <1>2, <1>3, <1>4 DEF Move

LEMMA VersionsStep ==
  ASSUME Life, RowsOK, Fresh, VersionsOK, [Next]_vars
  PROVE  VersionsOK'
  <1>1. Complete(rows) /\ IsFiniteSet(DOMAIN rows)
    BY DEF VersionsOK, Complete, Of
  <1>2. ASSUME NEW q \in Running, Adds(q)
        PROVE  Complete(rows')
    <2>1. NumberMeant(q)
      BY DEF Running, VersionsOK
    <2> QED
      BY <1>1, <1>2, <2>1, AddedVersions
  <1>3. Complete(rows')
    BY <1>1, <1>2, QuietVersions, DraftedVersions, VersionSteps
  <1>4. IsFiniteSet(DOMAIN rows')
    BY <1>1, RowsFinite
  <1>5. \A q \in RequestIds' : NumberMeant(q)'
    BY Moves, NumberMeantAfter DEF RequestIds
  <1> QED
    BY <1>3, <1>4, <1>5 DEF VersionsOK, Complete, Of

\* The versions of every document are numbered from one to the current one, however many
\* requests add versions at once: each takes the next number as it read it, and the unique
\* index on the document and the number refuses all but the first (DocumentsService.addVersion).
THEOREM VersionsComplete == Spec => []VersionsAreComplete
  <1> DEFINE Inv == Life /\ RowsOK /\ Fresh /\ VersionsOK
  <1>1. Init => Inv
    BY LifeInit, RowsInit, FreshInit, VersionsInit
  <1>2. Inv /\ [Next]_vars => Inv'
    BY LifeStep, RowsStep, FreshStep, VersionsStep
  <1>3. Inv => VersionsAreComplete
    <2> SUFFICES ASSUME VersionsOK PROVE Numbered(rows)
      BY DEF VersionsAreComplete
    <2>1. \A d \in OfKind(rows, "Document") : CompleteFor(rows, d)
      BY DEF VersionsOK, Of
    <2> QED
      BY <2>1 DEF Numbered, CompleteFor, VersionsIn
  <1> QED
    BY <1>1, <1>2, <1>3, PTL DEF Spec

(***************************************************************************)
(* The files and what their objects show.                                  *)
(***************************************************************************)
\* A request that stores a file has put its object before the row, and a PDF is of the
\* version the request has read.
FileMeant(q) ==
  LET r == request[q]
      file == NewId(q, "FileObject")
  IN  r.phase = "running" =>
        /\ r.op \in Filing /\ r.at >= FilePlace(r.op) => file \in DOMAIN objects
        /\ r.op = "renderPdf" /\ r.at >= 4 => r.content \in VersionsOf(TargetOf(q), r.no)
        /\ r.op = "renderPdf" /\ r.at >= 5 => objects[file] = r.content

\* The inductive invariant of the files.
FilesOK ==
  /\ \A i \in Of("FileObject") : i \in DOMAIN objects
  /\ \A v \in Of("DocumentVersion") : \A i \in rows[v].pdfFile : objects[i] = v
  /\ \A q \in RequestIds : FileMeant(q)

LEMMA FilesInit == Init => FilesOK
  <1> SUFFICES ASSUME Init PROVE FilesOK
    OBVIOUS
  <1>1. PICK desk \in Desks :
          /\ rows = desk.rows
          /\ objects = [i \in {j \in DOMAIN desk.rows : j[3] = "FileObject"} |-> i]
          /\ request = [q \in UNION {{f} \X (1..FormOf[f].requests) : f \in desk.forms} |-> Idle]
    BY DEF Init
  <1>2. ASSUME NEW q \in RequestIds
        PROVE  FileMeant(q)
    <2>1. request[q] = Idle
      BY <1>1 DEF RequestIds
    <2> QED
      BY <2>1, IdleFields DEF FileMeant
  <1>3. \A v \in Of("DocumentVersion") : rows[v].pdfFile = {}
    BY <1>1, DesksAssumption DEF Of
  <1>4. \A i \in Of("FileObject") : i \in DOMAIN objects
    BY <1>1 DEF Of, OfKind
  <1> QED
    BY <1>2, <1>3, <1>4 DEF FilesOK

LEMMA ObjectsOfStatement ==
  ASSUME NEW q, Statement(q)
  PROVE  UNCHANGED objects \/ Put(q)
  BY DEF OnlyRequests, OnlyRows, Statement, Authenticate, Admit, TurnAway, Check, Number,
         Insert, Join, Update, Delete, EndSession, Clear, Draft, Version, Render, File, Write,
         Link, LinkTo, Audit, Answer, stored

LEMMA ObjectsMove ==
  ASSUME [Next]_vars
  PROVE  UNCHANGED objects \/ \E q \in Running : Put(q) /\ Statement(q)
  <1>1. ASSUME NEW f \in Forms, Press(f)
        PROVE  UNCHANGED objects
    BY <1>1 DEF Press, stored
  <1>2. ASSUME NEW f \in Forms, NEW n \in page[f].awaits,
               SendNext(f, n) \/ Succeed(f, n) \/ ShowError(f, n) \/ TimeOut(f, n)
        PROVE  UNCHANGED objects
    BY <1>2 DEF SendNext, Succeed, ShowError, TimeOut, stored
  <1>3. ASSUME NEW q \in Running, Statement(q) \/ Fail(q)
        PROVE  UNCHANGED objects \/ (Put(q) /\ Statement(q))
    BY <1>3, ObjectsOfStatement DEF Fail, stored
  <1>4. ASSUME NEW session, Expire(session)
        PROVE  UNCHANGED objects
    BY <1>4 DEF Expire
  <1>5. CASE Stop \/ UNCHANGED vars
    BY <1>5 DEF Stop, vars, stored
  <1> QED
    BY <1>1, <1>2, <1>3, <1>4, <1>5 DEF Next

LEMMA PutFacts ==
  ASSUME Life, Fresh, NEW q \in Running, Put(q)
  PROVE  LET file == NewId(q, "FileObject")
         IN  /\ request[q].op \in Filing /\ request[q].at = FilePlace(request[q].op) - 1
             /\ file \notin DOMAIN rows
             /\ DOMAIN objects' = DOMAIN objects \cup {file} /\ objects'[file] = ContentOf(q)
             /\ \A i \in DOMAIN objects \ {file} : objects'[i] = objects[i]
             /\ rows' = rows
  <1>0. /\ q \in RequestIds /\ request[q].phase = "running" /\ TableEntry(request[q].op)
        /\ StatementAt(request[q].op, request[q].at) /\ request[q].at \in 1..8
        /\ request[q].at \in 1..Len(Does(request[q].op))
    BY RunningFacts
  <1>1. request[q].op \in Filing /\ request[q].at = FilePlace(request[q].op) - 1
    <2>1. Does(request[q].op)[request[q].at] = "put"
      BY DEF Put, At, HandlerOf, Does
    <2> QED
      BY <1>0, <2>1 DEF StatementAt
  <1>2. Creates(request[q].op, request[q].at + 1, "FileObject")
    <2>1. Does(request[q].op)[FilePlace(request[q].op)] = "file"
      BY <1>0, <1>1 DEF TableEntry
    <2>2. request[q].at + 1 = FilePlace(request[q].op)
      BY <1>1 DEF FilePlace
    <2> QED
      BY <2>1, <2>2 DEF Creates
  <1>3. request[q].at + 1 \in request[q].at..Len(Does(request[q].op))
    <2>1. request[q].at # Len(Does(request[q].op))
      BY <1>0 DEF TableEntry, Put, At, HandlerOf, Does
    <2>2. \A m \in 2..8 : \A n \in 1..m : n # m => n + 1 \in n..m
      OBVIOUS
    <2> QED
      BY <1>0, <2>1, <2>2 DEF TableEntry
  <1>4. ToCome(q, "FileObject")
    BY <1>0, <1>2, <1>3 DEF ToCome
  <1>5. NewId(q, "FileObject") \notin DOMAIN rows
    BY <1>0, <1>4, NewIds, RequestPairs DEF Fresh, Settled
  <1>6. objects' = Stored(objects, NewId(q, "FileObject"), ContentOf(q)) /\ rows' = rows
    BY DEF Put
  <1> QED
    BY <1>1, <1>5, <1>6 DEF Stored

\* The object of a file row, and of a file another request stores, stays as it is.
LEMMA ObjectKept ==
  ASSUME Life, Fresh, [Next]_vars, NEW i \in DOMAIN objects,
         i \in DOMAIN rows \/ \A q \in Running : Put(q) => i # NewId(q, "FileObject")
  PROVE  i \in DOMAIN objects' /\ objects'[i] = objects[i]
  <1>1. ASSUME NEW q \in Running, Put(q)
        PROVE  i \in DOMAIN objects' /\ objects'[i] = objects[i]
    BY <1>1, PutFacts
  <1> QED
    BY <1>1, ObjectsMove

\* The versions of a document with this number, after a step.
VersionsNext(d, no) ==
  {v \in OfKind(rows', "DocumentVersion") : rows'[v].document = {d} /\ rows'[v].versionNo = no}

LEMMA VersionsStay ==
  ASSUME Life, RowsOK, Fresh, VersionsOK, [Next]_vars, NEW d, NEW no,
         NEW v \in VersionsOf(d, no)
  PROVE  v \in VersionsNext(d, no)
  <1>1. v \in Of("DocumentVersion") /\ rows[v].document = {d} /\ rows[v].versionNo = no
    BY DEF VersionsOf
  <1>2. \E e \in Of("Document") : rows[v].document = {e}
    BY <1>1 DEF VersionsOK, VersionsApart, Of
  <1>3. rows'[v].document = {d} /\ rows'[v].versionNo = no
    BY <1>1, <1>2, KeptVersionColumns DEF Of
  <1>4. v \in Of("DocumentVersion")'
    BY <1>1, RowsGoingOn, KeptRows DEF ErasableKinds
  <1> QED
    BY <1>3, <1>4 DEF VersionsNext, Of

\* What a request knows of its file stays true until it goes on.
LEMMA FileMeantStays ==
  ASSUME Life, RowsOK, Fresh, VersionsOK, FilesOK, [Next]_vars, NEW q \in RequestIds,
         request[q].phase = "running", ~Put(q)
  PROVE  LET r == request[q]
             file == NewId(q, "FileObject")
         IN  /\ r.op \in Filing /\ r.at >= FilePlace(r.op) => file \in DOMAIN objects'
             /\ r.op = "renderPdf" /\ r.at >= 4 =>
                  r.content \in VersionsNext(TargetOf(q), r.no)
             /\ r.op = "renderPdf" /\ r.at >= 5 => objects'[file] = r.content
  <1> DEFINE file == NewId(q, "FileObject")
  <1>1. \A p \in Running : Put(p) => file # NewId(p, "FileObject")
    <2>1. ASSUME NEW p \in Running, Put(p), file = NewId(p, "FileObject")
          PROVE  FALSE
      <3>1. p \in RequestIds /\ p # q
        BY <2>1 DEF Running
      <3>2. p = <<p[1], p[2]>> /\ q = <<q[1], q[2]>>
        BY <3>1, RequestPairs
      <3> QED
        BY <2>1, <3>1, <3>2 DEF NewId
    <2> QED
      BY <2>1
  <1>2. file \in DOMAIN objects => file \in DOMAIN objects' /\ objects'[file] = objects[file]
    BY <1>1, ObjectKept
  <1>3. FileMeant(q)
    BY DEF FilesOK
  <1>4. VersionsOf(TargetOf(q), request[q].no) \subseteq VersionsNext(TargetOf(q), request[q].no)
    BY VersionsStay
  <1>5. request[q].op = "renderPdf" /\ request[q].at >= 5 =>
          request[q].op \in Filing /\ request[q].at >= FilePlace(request[q].op)
    BY DEF Filing, FilePlace
  <1> QED
    BY <1>2, <1>3, <1>4, <1>5 DEF FileMeant

LEMMA FileMeantAfter ==
  ASSUME Life, RowsOK, Fresh, VersionsOK, FilesOK, [Next]_vars, NEW q \in RequestIds
  PROVE  FileMeant(q)'
  <1> DEFINE file == NewId(q, "FileObject")
             Kept == FileMeant(q)'
  <1>0. Move(q) /\ RequestOK(q) /\ FileMeant(q)
    BY Moves DEF Life, FilesOK
  <1>1. /\ TargetOf(q)' = TargetOf(q) /\ NewId(q, "FileObject")' = NewId(q, "FileObject")
    BY DEF TargetOf, FormFor, NewId
  <1>2. \/ ~(request'[q].phase = "running")
        \/ /\ request'[q].op \in Filing /\ request'[q].at >= FilePlace(request'[q].op) =>
                file \in DOMAIN objects'
           /\ request'[q].op = "renderPdf" /\ request'[q].at >= 4 =>
                request'[q].content \in VersionsNext(TargetOf(q), request'[q].no)
           /\ request'[q].op = "renderPdf" /\ request'[q].at >= 5 =>
                objects'[file] = request'[q].content
        => Kept
    BY <1>1 DEF FileMeant, VersionsOf, VersionsNext, Of, TargetOf, FormFor, NewId
  <1>3. ASSUME Stays(q) PROVE Kept
    <2>1. CASE request[q].phase = "running" /\ ~Put(q)
      BY <1>3, <1>2, <2>1, FileMeantStays DEF Stays
    <2>2. CASE request[q].phase # "running"
      BY <1>3, <1>2, <2>2 DEF Stays
    <2>3. CASE request[q].phase = "running" /\ Put(q)
      <3>1. q \in Running /\ Statement(q)
        BY <2>3 DEF Running, Statement
      <3>2. Goes(q) \/ Ends(q)
        BY <3>1, StatementMoves
      <3>3. request'[q] # request[q]
        <4>1. CASE Goes(q)
          <5>1. request'[q].at = request[q].at + 1 /\ request[q].at \in 1..8
            BY <1>0, <4>1, GoingOnFields
          <5> QED
            BY <5>1
        <4>2. CASE Ends(q)
          BY <4>2 DEF Ends
        <4> QED
          BY <3>2, <4>1, <4>2
      <3> QED
        BY <1>3, <3>3 DEF Stays
    <2> QED
      BY <2>1, <2>2, <2>3
  <1>4. ASSUME Starts(q) PROVE Kept
    <2>1. request'[q].at = 1 /\ \A op : FilePlace(op) >= 3
      BY <1>4 DEF Starts, FilePlace
    <2>2. ~(request'[q].at >= FilePlace(request'[q].op)) /\ ~(request'[q].at >= 4)
      BY <2>1 DEF FilePlace
    <2>3. ~(request'[q].at >= 5)
      BY <2>1
    <2> QED
      BY <1>2, <2>2, <2>3
  <1>5. ASSUME Ends(q) PROVE Kept
    BY <1>5, <1>2 DEF Ends
  <1>6. ASSUME Goes(q) PROVE Kept
    <2> DEFINE r == request[q]
               s == Does(r.op)[r.at]
    <2>0. /\ request'[q].phase = "running" /\ request'[q].op = r.op
          /\ request'[q].at = r.at + 1 /\ r.phase = "running" /\ r.at \in 1..8
          /\ TableEntry(r.op) /\ StatementAt(r.op, r.at) /\ q \in Running
      BY <1>0, <1>6, GoingOnFields DEF Goes, Running
    <2>1. CASE s = "put"
      <3>1. Put(q)
        BY <1>6, <2>1, WhichStatement DEF Goes
      <3>2. /\ r.op \in Filing /\ r.at = FilePlace(r.op) - 1
            /\ file \in DOMAIN objects' /\ objects'[file] = ContentOf(q) /\ rows' = rows
        BY <2>0, <3>1, PutFacts
      <3>3. request'[q].content = r.content /\ request'[q].no = r.no
        BY <1>0, <1>6, <2>1, GoingOnFields
      <3>4. r.op = "renderPdf" => r.at >= 4 /\ ContentOf(q) = r.content
        BY <3>2 DEF FilePlace, ContentOf
      <3>5. r.op = "renderPdf" => r.content \in VersionsNext(TargetOf(q), r.no)
        BY <1>0, <2>0, <3>2, <3>4 DEF FileMeant, VersionsOf, VersionsNext, Of
      <3> QED
        BY <1>2, <2>0, <3>2, <3>3, <3>4, <3>5
    <2>2. CASE s = "render"
      <3>1. Render(q) /\ r.op = "renderPdf" /\ r.at = 3
        BY <1>6, <2>0, <2>2, WhichStatement DEF Goes, StatementAt
      <3>2. PICK v \in VersionsOf(TargetOf(q), r.no) : Proceed(q, [r EXCEPT !.content = v])
        BY <3>1 DEF Render
      <3>3. request'[q] = [[r EXCEPT !.content = v] EXCEPT !.at = @ + 1]
        <4>1. [r EXCEPT !.content = v].at = r.at
          BY <1>0 DEF RequestOK, Idle
        <4> QED
          BY <1>6, <3>2, <4>1, GoingOn
      <3>4. request'[q].content = v /\ request'[q].no = r.no
        BY <1>0, <3>3 DEF RequestOK, Idle
      <3>5. v \in VersionsNext(TargetOf(q), r.no)
        BY <3>2, VersionsStay
      <3>6. request'[q].at = 4
        BY <2>0, <3>1
      <3>7. ~(request'[q].at >= FilePlace("renderPdf")) /\ ~(request'[q].at >= 5)
        BY <3>6 DEF FilePlace
      <3> QED
        BY <1>2, <2>0, <3>1, <3>4, <3>5, <3>7
    <2>3. CASE s \notin {"put", "render"}
      <3>1. ~Put(q)
        BY <2>3 DEF Put, At, HandlerOf, Does
      <3>2. r.op \in Filing /\ r.at + 1 >= FilePlace(r.op) => r.at >= FilePlace(r.op)
        BY <2>0, <2>3 DEF TableEntry, FilePlace, Filing
      <3>3. /\ r.op = "renderPdf" /\ r.at + 1 >= 4 => r.at >= 4
            /\ r.op = "renderPdf" /\ r.at + 1 >= 5 => r.at >= 5
        BY <2>0, <2>3 DEF TableEntry, FilePlace, Filing
      <3>4. r.op = "renderPdf" /\ r.at >= 4 => s \notin {"check", "number"}
        BY <2>0 DEF StatementAt
      <3>5. /\ request'[q].content = r.content
            /\ s \notin {"check", "number"} => request'[q].no = r.no
        BY <1>0, <1>6, <2>3, GoingOnFields
      <3> QED
        BY <1>2, <2>0, <3>1, <3>2, <3>3, <3>4, <3>5, FileMeantStays
    <2> QED
      BY <2>1, <2>2, <2>3
  <1> QED
    BY <1>0, <1>3, <1>4, <1>5, <1>6 DEF Move

\* What a version's PDF shows: a new version has none, and a link is to the version read.
LEMMA PdfKept ==
  ASSUME Life, RowsOK, Fresh, VersionsOK, FilesOK, [Next]_vars,
         NEW v \in OfKind(rows', "DocumentVersion"), NEW i \in rows'[v].pdfFile
  PROVE  objects'[i] = v
  <1>1. CASE v \in DOMAIN rows
    <2>1. v \in OfKind(rows, "DocumentVersion") /\ v \in DOMAIN rows'
      BY <1>1 DEF OfKind
    <2>2. "pdfFile" \in DOMAIN rows[v] /\ rows[v].kind = "DocumentVersion"
      BY <2>1 DEF RowsOK, WellFormed, NotNull, OfKind
    <2>3. ColumnKept(v, "pdfFile")
      BY <1>1, <2>1, <2>2, RowsOverTime DEF OldRowKept, OfKind
    <2>4. CASE i \in rows[v].pdfFile
      <3>1. i \in DOMAIN rows /\ rows[i].kind = "FileObject"
        <4>1. Reference("DocumentVersion", "pdfFile", "FileObject", "SetNull") \in References
          BY DEF References, DocumentReferences
        <4>2. Reference("DocumentVersion", "pdfFile", "FileObject", "SetNull")
                = [kind |-> "DocumentVersion", column |-> "pdfFile", to |-> "FileObject",
                   onDelete |-> "SetNull"]
          BY DEF Reference
        <4>3. Intact(rows, rows[v])
          BY <2>1 DEF RowsOK, WellFormed, OfKind
        <4>4. i \in Referred(rows[v], "pdfFile")
          BY <2>2, <2>4 DEF Referred
        <4>5. [kind |-> "DocumentVersion", column |-> "pdfFile", to |-> "FileObject",
               onDelete |-> "SetNull"] \in ReferencesOf(rows[v])
          BY <2>2, <4>1, <4>2, ReferencesOfRow
        <4> QED
          BY <4>3, <4>4, <4>5 DEF Intact
      <3>2. i \in Of("FileObject")
        BY <3>1 DEF Of, OfKind, RowsOK, WellFormed
      <3>3. i \in DOMAIN objects /\ objects[i] = v
        BY <2>1, <2>4, <3>2 DEF FilesOK, Of
      <3> QED
        BY <3>1, <3>3, ObjectKept
    <2>5. CASE i \notin rows[v].pdfFile
      <3>1. PICK q \in Running : /\ Link(q) /\ rows'[v].pdfFile = {request[q].row}
                                 /\ v \in VersionsOf(TargetOf(q), request[q].no)
        <4>1. v[3] = "DocumentVersion"
          BY <2>1 DEF OfKind
        <4> QED
          BY <2>3, <2>5, <4>1 DEF ColumnKept
      <3>2. /\ q \in RequestIds /\ request[q].phase = "running" /\ request[q].op = "renderPdf"
            /\ request[q].at = 7
        BY <3>1, RunningFacts DEF Link, LinkTo, At, HandlerOf, Does, StatementAt
      <3>3. /\ request[q].row = NewId(q, "FileObject") /\ request[q].row \in DOMAIN rows
        BY <3>2 DEF RowsOK, Knows, Filing, FilePlace
      <3>4. /\ objects[request[q].row] = request[q].content
            /\ request[q].row \in DOMAIN objects
            /\ request[q].content \in VersionsOf(TargetOf(q), request[q].no)
        BY <3>2, <3>3 DEF FilesOK, FileMeant, Filing, FilePlace
      <3>5. request[q].content = v
        BY <3>1, <3>4 DEF VersionsOK, VersionsApart, VersionsOf, Of
      <3>6. objects'[request[q].row] = objects[request[q].row]
        BY <3>3, <3>4, ObjectKept
      <3> QED
        BY <3>1, <3>4, <3>5, <3>6
    <2> QED
      BY <2>4, <2>5
  <1>2. CASE v \notin DOMAIN rows
    <2>1. ~Quiet
      BY <1>2 DEF Quiet, OfKind
    <2>2. PICK q \in Running : Drafts(q) \/ Adds(q)
      BY <2>1, VersionSteps
    <2>3. v[3] = "DocumentVersion" /\ v \in DOMAIN rows'
      BY DEF OfKind
    <2>4. CASE Drafts(q)
      <3>1. v = NewId(q, "DocumentVersion")
        BY <1>2, <2>3, <2>4, NewIds DEF Drafts, Stored
      <3>2. rows'[v] = VersionRow(q, NewId(q, "Document"), 1)
        BY <2>4, <3>1 DEF Drafts, Stored
      <3> QED
        BY <3>2 DEF VersionRow
    <2>5. CASE Adds(q)
      <3>1. v = NewId(q, "DocumentVersion")
        BY <1>2, <2>3, <2>5 DEF Adds, WithVersion, Stored
      <3>2. rows'[v] = VersionRow(q, TargetOf(q), request[q].no)
        BY <2>5, <3>1 DEF Adds, WithVersion, Stored
      <3> QED
        BY <3>2 DEF VersionRow
    <2> QED
      BY <2>2, <2>4, <2>5
  <1> QED
    BY <1>1, <1>2

LEMMA FilesStep ==
  ASSUME Life, RowsOK, Fresh, VersionsOK, FilesOK, [Next]_vars
  PROVE  FilesOK'
  <1>1. ASSUME NEW i \in Of("FileObject")'
        PROVE  i \in DOMAIN objects'
    <2>0. i \in DOMAIN rows' /\ i[3] = "FileObject"
      BY DEF Of, OfKind
    <2>1. CASE i \in DOMAIN rows
      BY <2>0, <2>1, ObjectKept DEF FilesOK, Of, OfKind
    <2>2. CASE i \notin DOMAIN rows
      <3>1. PICK q \in Running : /\ Statement(q) /\ i = NewId(q, "FileObject")
                                 /\ Creates(request[q].op, request[q].at, "FileObject")
        BY <2>0, <2>2, NewRowsBy
      <3>2. q \in RequestIds /\ request[q].phase = "running"
            /\ StatementAt(request[q].op, request[q].at)
        BY RunningFacts
      <3>3. Does(request[q].op)[request[q].at] = "file"
        BY <3>1, <3>2 DEF Creates, StatementAt
      <3>4. request[q].op \in Filing /\ request[q].at = FilePlace(request[q].op)
        BY <3>2, <3>3 DEF StatementAt
      <3>5. request[q].at >= FilePlace(request[q].op)
        BY <3>4 DEF FilePlace
      <3>6. ~Put(q)
        BY <3>3 DEF Put, At, HandlerOf, Does
      <3> QED
        BY <3>1, <3>2, <3>4, <3>5, <3>6, FileMeantStays
    <2> QED
      BY <2>1, <2>2
  <1>2. \A v \in Of("DocumentVersion")' : \A i \in rows'[v].pdfFile : objects'[i] = v
    BY PdfKept DEF Of
  <1>3. \A q \in RequestIds' : FileMeant(q)'
    BY Moves, FileMeantAfter DEF RequestIds
  <1> QED
    BY <1>1, <1>2, <1>3 DEF FilesOK

\* Every file row has its object in the storage, and the PDF of a version shows that version,
\* also when another version becomes current while the PDF is rendered: the object is stored
\* before the row, and the link goes to the version that was read (DocumentRenderService).
THEOREM FilesShow == Spec => []FilesShowTheirSource
  <1> DEFINE Inv == Life /\ RowsOK /\ Fresh /\ VersionsOK /\ FilesOK
  <1>1. Init => Inv
    BY LifeInit, RowsInit, FreshInit, VersionsInit, FilesInit
  <1>2. Inv /\ [Next]_vars => Inv'
    BY LifeStep, RowsStep, FreshStep, VersionsStep, FilesStep
  <1>3. Inv => FilesShowTheirSource
    BY DEF FilesOK, FilesShowTheirSource
  <1> QED
    BY <1>1, <1>2, <1>3, PTL DEF Spec

(***************************************************************************)
(* The audit log.                                                          *)
(***************************************************************************)
Auditing == {"audit", "auditFile", "auditDraft"}

RowsBy(q) == {i \in DOMAIN rows : <<i[1], i[2]>> = q}

TruthTold(q) == \E entry \in Reported(q) : entry.statement = "audit"

\* An entry may be about nothing, a row, or a row that was deleted.
Mentionable(i) == i = <<>> \/ i \in DOMAIN rows \/ i[3] \in ErasableKinds

\* What a request has created is reported, or about to be.
AuditMeant(q) ==
  LET r == request[q]
      does == Does(r.op)
  IN  /\ r.phase = "running" =>
           /\ RowsBy(q) # {} => Reported(q) # {} \/ does[r.at] \in Reporting
           /\ \A k \in 1..(r.at - 1) : does[k] = "audit" => TruthTold(q)
           /\ r.op = "createCompany" /\ r.at = 4 => r.row = NewId(q, "Company")
           /\ Mentionable(r.row)
      /\ r.phase = "ok" => TruthTold(q)
      /\ r.phase = "error" /\ ~r.cut /\ RowsBy(q) # {} => Reported(q) # {}

\* A user is a member of a company that was there at first, or created it.
Membership(m) ==
  \/ rows[m].company = NoCompany \/ rows[m].company[2] = 0
  \/ rows[m].company = <<m[1], m[2], "Company">>

\* The inductive invariant of the audit log.
AuditOK ==
  /\ \A m \in Of("CompanyMembership") : Membership(m)
  /\ \A q \in RequestIds : AuditMeant(q)
  /\ \A e \in Entities : Mentionable(e)

LEMMA AuditInit == Init => AuditOK
  <1> SUFFICES ASSUME Init PROVE AuditOK
    OBVIOUS
  <1>1. PICK desk \in Desks :
          /\ rows = desk.rows
          /\ request = [q \in UNION {{f} \X (1..FormOf[f].requests) : f \in desk.forms} |-> Idle]
    BY DEF Init
  <1>2. ASSUME NEW q \in RequestIds
        PROVE  AuditMeant(q)
    <2>1. request[q] = Idle
      BY <1>1 DEF RequestIds
    <2> QED
      BY <2>1, IdleFields DEF AuditMeant
  <1>3. ASSUME NEW m \in Of("CompanyMembership")
        PROVE  Membership(m)
    <2>1. rows[m].company \in {NoCompany} \cup DOMAIN rows
      BY <1>1, DesksAssumption DEF Of, OfKind
    <2>2. \A i \in DOMAIN rows : i = <<i[1], 0, i[3]>>
      BY <1>1, DesksAssumption
    <2>3. \A i \in DOMAIN rows : i[2] = 0
      BY <2>2
    <2> QED
      BY <2>1, <2>3 DEF Membership
  <1>4. Entities = {}
    BY DEF Init, Entities
  <1> QED
    BY <1>2, <1>3, <1>4 DEF AuditOK

LEMMA NotRefused ==
  ASSUME NEW q \in RequestIds, NEW r, DOMAIN r = DOMAIN Idle, r.phase = "running",
         r.at = request[q].at, Proceed(q, r)
  PROVE  /\ request'[q].phase # "error"
         /\ request[q].at # Len(Does(request[q].op)) => request'[q].phase = "running"
  <1>1. CASE r.at = Len(HandlerOf(q).does)
    <2>1. request'[q] = Ended(r, "ok")
      BY <1>1 DEF Proceed, RequestIds
    <2> QED
      BY <1>1, <2>1, EndedFields DEF HandlerOf, Does
  <1>2. CASE r.at # Len(HandlerOf(q).does)
    <2>1. request'[q] = [r EXCEPT !.at = @ + 1]
      BY <1>2 DEF Proceed, RequestIds
    <2>2. request'[q].phase = "running"
      BY <2>1 DEF Idle
    <2> QED
      BY <2>2
  <1> QED
    BY <1>1, <1>2

\* A request that creates a row goes on.
LEMMA CreatingGoesOn ==
  ASSUME Life, NEW q \in Running, Statement(q), rows' # rows, NEW kind,
         Creates(request[q].op, request[q].at, kind)
  PROVE  Goes(q) /\ Does(request[q].op)[request[q].at + 1] \in Reporting
  <1>0. /\ q \in RequestIds /\ TableEntry(request[q].op)
        /\ request[q].at \in 1..Len(Does(request[q].op)) /\ request[q].at \in 1..8
        /\ request[q].phase = "running" /\ DOMAIN request[q] = DOMAIN Idle
    BY RunningFacts DEF RequestOK
  <1>1. /\ request[q].at < Len(Does(request[q].op))
        /\ Does(request[q].op)[request[q].at + 1] \in Reporting
    BY <1>0 DEF TableEntry
  <1>2. request[q].at # Len(Does(request[q].op))
    <2>1. \A m \in 2..8 : \A n \in 1..8 : n < m => n # m
      OBVIOUS
    <2> QED
      BY <1>0, <1>1, <2>1 DEF TableEntry
  <1>3. Proceed(q, request[q]) \/ \E x : Proceed(q, [request[q] EXCEPT !.row = x])
    <2> DEFINE s == Does(request[q].op)[request[q].at]
    <2>1. s \in {"insert", "join", "draft", "version", "file"}
      BY DEF Creates
    <2>2. CASE Insert(q)
      BY <2>2 DEF Insert, Write
    <2>3. CASE Join(q)
      BY <2>3 DEF Join, Write
    <2>4. CASE Draft(q)
      BY <2>4 DEF Draft
    <2>5. CASE Version(q)
      BY <2>5 DEF Version
    <2>6. CASE File(q)
      BY <2>6 DEF File, Write
    <2> QED
      BY <2>1, <2>2, <2>3, <2>4, <2>5, <2>6, WhichStatement
  <1>4. request'[q].phase = "running"
    <2>1. CASE Proceed(q, request[q])
      BY <1>0, <1>2, <2>1, NotRefused
    <2>2. ASSUME NEW x, Proceed(q, [request[q] EXCEPT !.row = x])
          PROVE  request'[q].phase = "running"
      <3> DEFINE new == [request[q] EXCEPT !.row = x]
      <3>1. DOMAIN new = DOMAIN Idle /\ new.phase = "running" /\ new.at = request[q].at
        BY <1>0 DEF Idle
      <3> HIDE DEF new
      <3>2. Proceed(q, new)
        BY <2>2 DEF new
      <3> QED
        BY <1>0, <1>2, <3>1, <3>2, NotRefused
    <2> QED
      BY <1>3, <2>1, <2>2
  <1>5. ~Ends(q)
    BY <1>4 DEF Ends
  <1> QED
    BY <1>1, <1>5, StatementMoves

RowsByNext(q) == {i \in DOMAIN rows' : <<i[1], i[2]>> = q}

\* The rows of a request are those it has created.
LEMMA RowsByAfter ==
  ASSUME Life, [Next]_vars, NEW q \in RequestIds
  PROVE  \/ RowsByNext(q) \subseteq RowsBy(q)
         \/ /\ q \in Running /\ Statement(q) /\ Goes(q)
            /\ Does(request[q].op)[request[q].at + 1] \in Reporting
            /\ Does(request[q].op)[request[q].at] \in {"insert", "join", "draft", "version", "file"}
  <1> SUFFICES ASSUME NEW i \in DOMAIN rows', <<i[1], i[2]>> = q, i \notin DOMAIN rows
               PROVE  /\ q \in Running /\ Statement(q) /\ Goes(q)
                      /\ Does(request[q].op)[request[q].at + 1] \in Reporting
                      /\ Does(request[q].op)[request[q].at]
                           \in {"insert", "join", "draft", "version", "file"}
    BY DEF RowsBy, RowsByNext
  <1>1. PICK p \in Running : /\ Statement(p) /\ i = NewId(p, i[3])
                             /\ Creates(request[p].op, request[p].at, i[3])
    BY NewRowsBy
  <1>2. p = q
    BY <1>1, NewIds, RequestPairs, RunningFacts
  <1>3. rows' # rows
    OBVIOUS
  <1>4. Goes(q) /\ Does(request[q].op)[request[q].at + 1] \in Reporting
    BY <1>1, <1>2, <1>3, CreatingGoesOn
  <1> QED
    BY <1>1, <1>2, <1>4 DEF Creates

LEMMA AuditOfStatement ==
  ASSUME NEW q, Statement(q)
  PROVE  UNCHANGED audit \/ Audit(q) \/ Authenticate(q)
  BY DEF OnlyRequests, OnlyRows, Statement, Admit, TurnAway, Check, Number, Put,
         Insert, Join, Update, Delete, EndSession, Clear, Draft, Version, Render, File, Write,
         Link, LinkTo, Answer, stored

LEMMA AuditMoves ==
  ASSUME [Next]_vars
  PROVE  UNCHANGED audit \/ \E q \in Running : (Audit(q) \/ Authenticate(q)) /\ Statement(q)
  <1>1. ASSUME NEW f \in Forms, Press(f)
        PROVE  UNCHANGED audit
    BY <1>1 DEF Press, stored
  <1>2. ASSUME NEW f \in Forms, NEW n \in page[f].awaits,
               SendNext(f, n) \/ Succeed(f, n) \/ ShowError(f, n) \/ TimeOut(f, n)
        PROVE  UNCHANGED audit
    BY <1>2 DEF SendNext, Succeed, ShowError, TimeOut, stored
  <1>3. ASSUME NEW q \in Running, Statement(q) \/ Fail(q)
        PROVE  UNCHANGED audit \/ ((Audit(q) \/ Authenticate(q)) /\ Statement(q))
    BY <1>3, AuditOfStatement DEF Fail, stored
  <1>4. ASSUME NEW session, Expire(session)
        PROVE  UNCHANGED audit
    BY <1>4 DEF Expire
  <1>5. CASE Stop \/ UNCHANGED vars
    BY <1>5 DEF Stop, vars, stored
  <1> QED
    BY <1>1, <1>2, <1>3, <1>4, <1>5 DEF Next

\* Nothing is taken out of the log.
LEMMA AuditGrows ==
  ASSUME [Next]_vars
  PROVE  audit \subseteq audit'
  BY AuditMoves DEF Audit, Authenticate

ReportedNext(q) == {entry \in audit' : entry.by = q}
TruthToldNext(q) == \E entry \in ReportedNext(q) : entry.statement = "audit"
MentionableNext(i) == i = <<>> \/ i \in DOMAIN rows' \/ i[3] \in ErasableKinds

LEMMA StillReported ==
  ASSUME [Next]_vars, NEW q
  PROVE  /\ Reported(q) \subseteq ReportedNext(q)
         /\ TruthTold(q) => TruthToldNext(q)
  BY AuditGrows DEF Reported, ReportedNext, TruthTold, TruthToldNext

LEMMA StillMentionable ==
  ASSUME RowsGoOn, NEW i, Mentionable(i)
  PROVE  MentionableNext(i)
  BY DEF RowsGoOn, Mentionable, MentionableNext

\* The entry of an audit statement.
LEMMA AuditDone ==
  ASSUME Life, NEW q \in Running, Audit(q)
  PROVE  /\ Does(request[q].op)[request[q].at] \in Auditing
         /\ ReportedNext(q) # {}
         /\ Does(request[q].op)[request[q].at] = "audit" => TruthToldNext(q)
         /\ request'[q].phase # "error"
  <1> DEFINE entry == [by |-> q, statement |-> Does(request[q].op)[request[q].at],
                       entity |-> Subject(q)]
  <1>0. q \in RequestIds /\ DOMAIN request[q] = DOMAIN Idle /\ request[q].phase = "running"
    BY RunningFacts DEF RequestOK
  <1>1. /\ Does(request[q].op)[request[q].at] \in Auditing /\ entry \in audit'
        /\ Proceed(q, request[q])
    BY DEF Audit, Auditing, HandlerOf, Does
  <1>2. entry \in ReportedNext(q)
    BY <1>1 DEF ReportedNext
  <1>3. entry.statement = Does(request[q].op)[request[q].at]
    OBVIOUS
  <1>4. request'[q].phase # "error"
    BY <1>0, <1>1, NotRefused
  <1> QED
    BY <1>1, <1>2, <1>3, <1>4 DEF TruthToldNext

LEMMA RowSet ==
  ASSUME Life, NEW q \in RequestIds, Goes(q), NEW x, Proceed(q, [request[q] EXCEPT !.row = x])
  PROVE  request'[q].row = x
  <1> DEFINE new == [request[q] EXCEPT !.row = x]
  <1>1. DOMAIN request[q] = DOMAIN Idle
    BY DEF Life, RequestOK
  <1>2. DOMAIN new = DOMAIN Idle /\ new.at = request[q].at /\ new.row = x
    BY <1>1 DEF Idle
  <1>3. Proceed(q, new)
    OBVIOUS
  <1> HIDE DEF new
  <1>4. request'[q] = [new EXCEPT !.at = @ + 1]
    BY <1>2, <1>3, GoingOn
  <1> QED
    BY <1>2, <1>4 DEF Idle

\* What a request that has inserted its row knows.
LEMMA InsertPassed ==
  ASSUME Life, NEW q \in RequestIds, Goes(q), Does(request[q].op)[request[q].at] = "insert"
  PROVE  LET id == NewId(q, HandlerOf(q).kind)
         IN  request'[q].row = id /\ rows' = Stored(rows, id, NewRow(q))
  <1>1. Insert(q) /\ ~Refuse(q)
    BY WhichStatement, GoingOn DEF Goes
  <1>2. /\ rows' = Stored(rows, NewId(q, HandlerOf(q).kind), NewRow(q))
        /\ Proceed(q, [request[q] EXCEPT !.row = NewId(q, HandlerOf(q).kind)])
    BY <1>1 DEF Insert, Write
  <1> QED
    BY <1>2, RowSet

LEMMA RowLearned ==
  ASSUME Life, RowsOK, RowsGoOn, NEW q \in RequestIds, Goes(q), Mentionable(request[q].row)
  PROVE  MentionableNext(request'[q].row)
  <1> DEFINE s == Does(request[q].op)[request[q].at]
  <1>0. /\ q \in Running /\ TableEntry(request[q].op) /\ RequestOK(q)
        /\ StatementAt(request[q].op, request[q].at) /\ Knows(q)
    BY RunningFacts DEF Goes, Running, RowsOK
  <1>1. ~Refuse(q)
    BY GoingOn
  <1>2. CASE s = "insert"
    BY <1>2, InsertPassed DEF MentionableNext, Stored
  <1>3. CASE s = "update"
    <2>1. Update(q)
      BY <1>3, WhichStatement DEF Goes
    <2>2. /\ TargetOf(q) \in DOMAIN rows'
          /\ Proceed(q, [request[q] EXCEPT !.row = TargetOf(q)])
      BY <1>1, <2>1 DEF Update, Write, Stored
    <2> QED
      BY <2>2, RowSet DEF MentionableNext
  <1>4. CASE s = "delete"
    <2>1. Delete(q)
      BY <1>4, WhichStatement DEF Goes
    <2>2. Proceed(q, [request[q] EXCEPT !.row = TargetOf(q)])
      BY <1>1, <2>1 DEF Delete
    <2>3. TargetOf(q)[3] \in {"Department", "Employee"}
      <3>1. request[q].op \in Removing /\ request[q].at >= 3 /\ request[q].phase = "running"
        BY <1>0, <1>4 DEF StatementAt, Goes
      <3>2. TargetOf(q)[3] = Handlers[request[q].op].kind
        BY <1>0, <3>1 DEF Knows
      <3> QED
        BY <1>0, <3>1, <3>2 DEF TableEntry
    <2> QED
      BY <2>2, <2>3, RowSet DEF MentionableNext, ErasableKinds
  <1>5. CASE s = "endSession"
    <2>1. EndSession(q)
      BY <1>5, WhichStatement DEF Goes
    <2>2. Proceed(q, [request[q] EXCEPT !.row = request[q].session])
      BY <1>1, <2>1 DEF EndSession
    <2> QED
      BY <1>0, <2>2, RowSet DEF MentionableNext, ErasableKinds, RequestOK, NoSession
  <1>6. CASE s = "draft"
    <2>1. Draft(q)
      BY <1>6, WhichStatement DEF Goes
    <2>2. /\ NewId(q, "Document") \in DOMAIN rows'
          /\ Proceed(q, [request[q] EXCEPT !.row = NewId(q, "Document")])
      BY <1>1, <2>1 DEF Draft, Stored
    <2> QED
      BY <2>2, RowSet DEF MentionableNext
  <1>7. CASE s = "version"
    <2>1. Version(q) /\ request[q].phase = "running"
      BY <1>7, WhichStatement DEF Goes
    <2>2. /\ rows' = WithVersion(q)
          /\ Proceed(q, [request[q] EXCEPT !.row = TargetOf(q)])
      BY <1>1, <2>1 DEF Version
    <2>3. TargetOf(q) \in DOMAIN rows
      BY <1>0, <1>7, <2>1 DEF StatementAt, Knows, Of, OfKind
    <2>4. TargetOf(q) \in DOMAIN rows'
      BY <2>2, <2>3 DEF WithVersion, Stored
    <2> QED
      BY <2>2, <2>4, RowSet DEF MentionableNext
  <1>8. CASE s = "file"
    BY <1>8, FilePassed DEF MentionableNext, Stored
  <1>9. CASE s \notin {"insert", "update", "delete", "endSession", "draft", "version", "file"}
    <2>1. request'[q].row = request[q].row
      BY <1>0, <1>9, GoingOnFields
    <2> QED
      BY <2>1, StillMentionable
  <1> QED
    BY <1>2, <1>3, <1>4, <1>5, <1>6, <1>7, <1>8, <1>9

\* The first member of a company is never refused: the company is new.
LEMMA JoinGoesThrough ==
  ASSUME Life, RowsOK, AuditOK, NEW q \in Running, Join(q)
  PROVE  request'[q].phase # "error"
  <1> DEFINE id == NewId(q, "CompanyMembership")
             row == [kind |-> "CompanyMembership", company |-> request[q].row,
                     user |-> request[q].user, role |-> "SUPER_ADMIN"]
  <1>0. /\ q \in RequestIds /\ request[q].phase = "running" /\ request[q].op = "createCompany"
        /\ request[q].at = 4 /\ DOMAIN request[q] = DOMAIN Idle
    BY RunningFacts DEF Join, At, HandlerOf, Does, StatementAt, RequestOK
  <1>1. request[q].row = NewId(q, "Company")
    BY <1>0 DEF AuditOK, AuditMeant
  <1>2. q = <<q[1], q[2]>> /\ q[2] # 0
    <2>1. PICK f \in Forms : \E n \in 1..FormOf[f].requests : q = <<f, n>>
      BY <1>0 DEF Life
    <2>2. FormOf[f].requests \in Nat
      BY OpsOfPages DEF Life
    <2> QED
      BY <2>1, <2>2
  <1>3. Intact(rows, row)
    <2>1. \A r \in References : r.kind # "CompanyMembership"
      BY DEF References, OrganisationReferences, DocumentReferences, RequestReferences,
             ClaimReferences, FinanceReferences, JobReferences, PolicyReferences,
         Reference
    <2>2. row.kind = "CompanyMembership"
      OBVIOUS
    <2>3. ReferencesOf(row) = {}
      BY <2>1, <2>2, ReferencesOfRow
    <2> QED
      BY <2>3 DEF Intact
  <1>4. ASSUME Clashes(rows, id, row) PROVE FALSE
    <2>1. UniqueColumns("CompanyMembership") = {"company", "user"}
      BY DEF UniqueColumns
    <2>2. row.kind = "CompanyMembership" /\ row.company = NewId(q, "Company")
      BY <1>1
    <2>3. PICK i \in DOMAIN rows \ {id} :
            rows[i].kind = "CompanyMembership" /\ rows[i].company = NewId(q, "Company")
      BY <1>4, <2>1, <2>2 DEF Clashes
    <2>4. i = <<i[1], i[2], i[3]>> /\ i[3] = "CompanyMembership" /\ Membership(i)
      BY <2>3 DEF RowsOK, WellFormed, AuditOK, Of, OfKind
    <2>5. NewId(q, "Company") = <<q[1], q[2], "Company">> /\ NewId(q, "Company")[2] # 0
      BY <1>2 DEF NewId
    <2>6. NewId(q, "Company") # NoCompany
      BY <2>5 DEF NoCompany
    <2>7. <<i[1], i[2], "Company">> = <<q[1], q[2], "Company">>
      BY <2>3, <2>4, <2>5, <2>6 DEF Membership
    <2>8. i = id
      BY <2>4, <2>7 DEF NewId
    <2> QED
      BY <2>3, <2>8
  <1>5. Storable(rows, id, row)
    BY <1>3, <1>4 DEF Storable
  <1>6. Write(q, id, row, request[q])
    BY DEF Join
  <1>7. Proceed(q, request[q])
    BY <1>5, <1>6 DEF Write
  <1> QED
    BY <1>0, <1>7, NotRefused

LEMMA MembershipsStep ==
  ASSUME Life, RowsOK, Fresh, AuditOK, [Next]_vars, NEW m \in OfKind(rows', "CompanyMembership")
  PROVE  \/ rows'[m].company = NoCompany \/ rows'[m].company[2] = 0
         \/ rows'[m].company = <<m[1], m[2], "Company">>
  <1>0. m \in DOMAIN rows' /\ m[3] = "CompanyMembership"
    BY DEF OfKind
  <1>1. CASE m \in DOMAIN rows
    <2>1. Membership(m) /\ rows'[m].company = rows[m].company
      BY <1>0, <1>1, RowsOverTime DEF AuditOK, Of, OfKind, OldRowKept
    <2> QED
      BY <2>1 DEF Membership
  <1>2. CASE m \notin DOMAIN rows
    <2>1. PICK q \in Running : /\ Statement(q) /\ m = NewId(q, "CompanyMembership")
                               /\ Creates(request[q].op, request[q].at, "CompanyMembership")
      BY <1>0, <1>2, NewRowsBy
    <2>2. /\ q \in RequestIds /\ StatementAt(request[q].op, request[q].at)
          /\ request[q].phase = "running"
      BY RunningFacts
    <2>3. Does(request[q].op)[request[q].at] = "join"
      BY <2>1, <2>2 DEF Creates, StatementAt
    <2>4. Join(q) /\ request[q].op = "createCompany" /\ request[q].at = 4
      BY <2>1, <2>2, <2>3, WhichStatement DEF StatementAt
    <2>5. request[q].row = NewId(q, "Company")
      BY <2>2, <2>4 DEF AuditOK, AuditMeant
    <2>6. rows'[m] = [kind |-> "CompanyMembership", company |-> request[q].row,
                      user |-> request[q].user, role |-> "SUPER_ADMIN"]
      BY <1>0, <1>2, <2>1, <2>4 DEF Join, Write, Stored
    <2>7. rows'[m].company = NewId(q, "Company")
      BY <2>5, <2>6
    <2> QED
      BY <2>1, <2>7 DEF NewId
  <1> QED
    BY <1>1, <1>2

LEMMA EntitiesStep ==
  ASSUME Life, RowsOK, AuditOK, RowsGoOn, [Next]_vars, NEW entry \in audit'
  PROVE  MentionableNext(entry.entity)
  <1>1. CASE entry \in audit
    BY <1>1, StillMentionable DEF AuditOK, Entities
  <1>2. ASSUME NEW q \in Running, Authenticate(q), entry \notin audit
        PROVE  MentionableNext(entry.entity)
    <2>1. entry = [by |-> q, statement |-> "failed", entity |-> <<>>]
      BY <1>2 DEF Authenticate
    <2> QED
      BY <2>1 DEF MentionableNext
  <1>3. ASSUME NEW q \in Running, Audit(q), entry \notin audit
        PROVE  MentionableNext(entry.entity)
    <2>0. /\ q \in RequestIds /\ TableEntry(request[q].op) /\ request[q].phase = "running"
          /\ StatementAt(request[q].op, request[q].at) /\ request[q].at \in 1..8
      BY RunningFacts
    <2>1. entry.entity = Subject(q)
      BY <1>3 DEF Audit
    <2>2. CASE HandlerOf(q).scope = "own"
      <3>1. request[q].op \in {"addVersion", "renderPdf"}
        BY <2>0, <2>2 DEF TableEntry, HandlerOf
      <3>2. request[q].at >= 3
        BY <1>3, <2>0 DEF Audit, HandlerOf, Does, StatementAt
      <3>3. TargetOf(q) \in Of("Document")
        BY <2>0, <3>1, <3>2 DEF RowsOK, Knows
      <3>4. Mentionable(TargetOf(q))
        BY <3>3 DEF Mentionable, Of, OfKind
      <3> QED
        BY <2>1, <2>2, <3>4, StillMentionable DEF Subject
    <2>3. CASE HandlerOf(q).scope # "own"
      <3>1. entry.entity = request[q].row /\ Mentionable(request[q].row)
        BY <2>0, <2>1, <2>3 DEF Subject, AuditOK, AuditMeant
      <3> QED
        BY <3>1, StillMentionable
    <2> QED
      BY <2>2, <2>3
  <1> QED
    BY <1>1, <1>2, <1>3, AuditMoves

\* What AuditMeant says after a step.
AuditMeantNext(q) ==
  LET r == request'[q]
      does == Does(r.op)
  IN  /\ r.phase = "running" =>
           /\ RowsByNext(q) # {} => ReportedNext(q) # {} \/ does[r.at] \in Reporting
           /\ \A k \in 1..(r.at - 1) : does[k] = "audit" => TruthToldNext(q)
           /\ r.op = "createCompany" /\ r.at = 4 => r.row = NewId(q, "Company")
           /\ MentionableNext(r.row)
      /\ r.phase = "ok" => TruthToldNext(q)
      /\ r.phase = "error" /\ ~r.cut /\ RowsByNext(q) # {} => ReportedNext(q) # {}

LEMMA AuditMeantBridge ==
  ASSUME NEW q, AuditMeantNext(q)
  PROVE  AuditMeant(q)'
  BY DEF AuditMeantNext, AuditMeant, RowsBy, RowsByNext, Reported, ReportedNext, TruthTold,
         TruthToldNext, Mentionable, MentionableNext, NewId

\* The rows of a request that does not run are those it had.
LEMMA RowsByOthers ==
  ASSUME Life, [Next]_vars, NEW q \in RequestIds, ~Goes(q)
  PROVE  RowsByNext(q) \subseteq RowsBy(q)
  BY RowsByAfter

LEMMA AuditMeantGoes ==
  ASSUME Life, RowsOK, AuditOK, RowsGoOn, [Next]_vars, NEW q \in RequestIds, Goes(q)
  PROVE  AuditMeantNext(q)
  <1> DEFINE r == request[q]
             new == request'[q]
             s == Does(r.op)[r.at]
  <1>0. /\ new.phase = "running" /\ new.op = r.op /\ new.at = r.at + 1 /\ r.phase = "running"
        /\ r.at \in 1..8 /\ TableEntry(r.op) /\ StatementAt(r.op, r.at) /\ q \in Running
        /\ AuditMeant(q) /\ RequestOK(q) /\ Statement(q)
    BY GoingOnFields DEF Goes, Running, Life, AuditOK
  <1>1. s \in Auditing => ReportedNext(q) # {} /\ (s = "audit" => TruthToldNext(q))
    BY <1>0, WhichStatement, AuditDone DEF Auditing
  <1>2. ASSUME RowsByNext(q) # {}
        PROVE  ReportedNext(q) # {} \/ Does(new.op)[new.at] \in Reporting
    <2>1. CASE Does(r.op)[r.at + 1] \in Reporting
      BY <1>0, <2>1
    <2>2. CASE RowsByNext(q) \subseteq RowsBy(q)
      <3>1. Reported(q) # {} \/ s \in Reporting
        BY <1>0, <1>2, <2>2 DEF AuditMeant
      <3>2. CASE Reported(q) # {}
        BY <3>2, StillReported
      <3>3. CASE s \in Auditing
        BY <1>1, <3>3
      <3>4. CASE s = "join"
        <4>1. Creates(r.op, r.at, "CompanyMembership")
          BY <3>4 DEF Creates
        <4>2. r.at \in 1..Len(Does(r.op))
          BY <1>0 DEF RequestOK
        <4>3. Does(r.op)[r.at + 1] \in Reporting
          BY <1>0, <4>1, <4>2 DEF TableEntry
        <4> QED
          BY <1>0, <4>3
      <3> QED
        BY <3>1, <3>2, <3>3, <3>4 DEF Reporting, Auditing
    <2> QED
      BY <2>1, <2>2, RowsByAfter
  <1>3. ASSUME NEW k \in 1..(new.at - 1), Does(new.op)[k] = "audit"
        PROVE  TruthToldNext(q)
    <2>1. k = r.at \/ k \in 1..(r.at - 1)
      <3>1. \A n \in 1..8 : \A l \in 1..((n + 1) - 1) : l = n \/ l \in 1..(n - 1)
        OBVIOUS
      <3> QED
        BY <1>0, <1>3, <3>1
    <2>2. CASE k = r.at
      BY <1>0, <1>1, <1>3, <2>2 DEF Auditing
    <2>3. CASE k \in 1..(r.at - 1)
      <3>1. TruthTold(q)
        BY <1>0, <1>3, <2>3 DEF AuditMeant
      <3> QED
        BY <3>1, StillReported
    <2> QED
      BY <2>1, <2>2, <2>3
  <1>4. ASSUME new.op = "createCompany", new.at = 4
        PROVE  new.row = NewId(q, "Company")
    <2>1. r.op = "createCompany" /\ r.at = 3
      BY <1>0, <1>4
    <2>2. s = "insert" /\ HandlerOf(q).kind = "Company"
      BY <1>0, <2>1 DEF TableEntry, HandlerOf
    <2> QED
      BY <2>2, InsertPassed
  <1>5. MentionableNext(new.row)
    BY <1>0, RowLearned DEF AuditMeant
  <1> QED
    BY <1>0, <1>2, <1>3, <1>4, <1>5 DEF AuditMeantNext

LEMMA AuditMeantEnds ==
  ASSUME Life, RowsOK, AuditOK, [Next]_vars, NEW q \in RequestIds, Ends(q)
  PROVE  AuditMeantNext(q)
  <1> DEFINE r == request[q]
             new == request'[q]
             s == Does(r.op)[r.at]
  <1>0. /\ new.phase \in {"ok", "error"} /\ r.phase = "running" /\ q \in Running
        /\ AuditMeant(q) /\ RequestOK(q) /\ RowsByNext(q) \subseteq RowsBy(q)
    <2>1. ~Goes(q)
      BY DEF Goes, Ends
    <2> QED
      BY <2>1, RowsByOthers DEF Ends, Running, Life, AuditOK
  <1>00. TableEntry(r.op) /\ r.at \in 1..8 /\ r.at \in 1..Len(Does(r.op))
    BY <1>0, RunningFacts
  <1>1. ASSUME new.phase = "ok"
        PROVE  TruthToldNext(q)
    <2>1. r.at = Len(Does(r.op)) /\ Statement(q)
      BY <1>1 DEF Ends
    <2>2. CASE s = "audit"
      BY <1>0, <2>1, <2>2, WhichStatement, AuditDone
    <2>3. CASE Does(r.op)[r.at - 1] = "audit" /\ s # "audit"
      <3>1. \A n \in 2..8 : n - 1 \in 1..(n - 1)
        OBVIOUS
      <3>2. r.at \in 2..8
        BY <1>00, <2>1 DEF TableEntry
      <3>3. TruthTold(q)
        BY <1>0, <2>3, <3>1, <3>2 DEF AuditMeant
      <3> QED
        BY <3>3, StillReported
    <2>4. s = "audit" \/ Does(r.op)[r.at - 1] = "audit"
      BY <1>00, <2>1 DEF TableEntry
    <2> QED
      BY <2>2, <2>3, <2>4
  <1>2. ASSUME new.phase = "error", ~new.cut, RowsByNext(q) # {}
        PROVE  ReportedNext(q) # {}
    <2>1. Statement(q)
      BY <1>2 DEF Ends
    <2>2. Reported(q) # {} \/ s \in Reporting
      BY <1>0, <1>2 DEF AuditMeant
    <2>3. CASE Reported(q) # {}
      BY <2>3, StillReported
    <2>4. s \notin Auditing
      BY <1>0, <1>2, <2>1, WhichStatement, AuditDone DEF Auditing
    <2>5. s # "join"
      BY <1>0, <1>2, <2>1, WhichStatement, JoinGoesThrough
    <2> QED
      BY <2>2, <2>3, <2>4, <2>5 DEF Reporting, Auditing
  <1> QED
    BY <1>0, <1>1, <1>2 DEF AuditMeantNext

LEMMA AuditMeantAfter ==
  ASSUME Life, RowsOK, Fresh, AuditOK, RowsGoOn, [Next]_vars, NEW q \in RequestIds
  PROVE  AuditMeantNext(q)
  <1>0. Move(q) /\ AuditMeant(q)
    BY Moves DEF AuditOK
  <1>1. CASE Stays(q)
    <2>1. ~Goes(q)
      <3>1. ASSUME Goes(q) PROVE FALSE
        <4>1. request'[q].at = request[q].at + 1 /\ request[q].at \in 1..8
          BY <3>1, GoingOnFields DEF Life
        <4> QED
          BY <1>1, <4>1 DEF Stays
      <3> QED
        BY <3>1
    <2>2. RowsByNext(q) \subseteq RowsBy(q)
      BY <2>1, RowsByOthers
    <2>3. /\ Reported(q) \subseteq ReportedNext(q)
          /\ TruthTold(q) => TruthToldNext(q)
      BY StillReported
    <2>4. Mentionable(request[q].row) => MentionableNext(request[q].row)
      BY StillMentionable
    <2> QED
      BY <1>0, <1>1, <2>2, <2>3, <2>4 DEF AuditMeant, AuditMeantNext, Stays
  <1>2. CASE Starts(q)
    <2>1. request[q].phase = "none" /\ ~Goes(q)
      BY <1>2 DEF Starts, Goes
    <2>2. RowsBy(q) = {}
      BY <2>1 DEF RowsBy, Fresh, Settled, ToCome
    <2>3. RowsByNext(q) = {}
      BY <2>1, <2>2, RowsByOthers
    <2>4. /\ request'[q].phase = "running" /\ request'[q].at = 1 /\ request'[q].row = <<>>
      BY <1>2 DEF Starts
    <2>5. 1..(request'[q].at - 1) = {}
      BY <2>4
    <2> QED
      BY <2>3, <2>4, <2>5 DEF AuditMeantNext, MentionableNext
  <1>3. CASE Goes(q)
    BY <1>3, AuditMeantGoes
  <1>4. CASE Ends(q)
    BY <1>4, AuditMeantEnds
  <1> QED
    BY <1>0, <1>1, <1>2, <1>3, <1>4 DEF Move

LEMMA AuditStep ==
  ASSUME Life, RowsOK, Fresh, AuditOK, [Next]_vars
  PROVE  AuditOK'
  <1>0. RowsGoOn
    BY RowsGoingOn
  <1>1. \A m \in Of("CompanyMembership")' : Membership(m)'
    BY MembershipsStep DEF Membership, Of
  <1>2. ASSUME NEW q \in RequestIds'
        PROVE  AuditMeant(q)'
    <2>1. q \in RequestIds
      BY Moves DEF RequestIds
    <2> QED
      BY <1>0, <2>1, AuditMeantAfter, AuditMeantBridge
  <1>3. \A e \in Entities' : Mentionable(e)'
    BY <1>0, EntitiesStep DEF Entities, Mentionable, MentionableNext
  <1> QED
    BY <1>1, <1>2, <1>3 DEF AuditOK

\* Whatever a request has created is in the audit log once the request is over, unless a
\* failure cut it, and no entry is about a row that never was: a handler reports its row in
\* the statement after the one that writes it, and nothing between the two is ever refused.
THEOREM AuditIsTrue == Spec => []AuditTellsTruth
  <1> DEFINE Inv == Life /\ RowsOK /\ Fresh /\ AuditOK
  <1>1. Init => Inv
    BY LifeInit, RowsInit, FreshInit, AuditInit
  <1>2. Inv /\ [Next]_vars => Inv'
    BY LifeStep, RowsStep, FreshStep, AuditStep
  <1>3. Inv => AuditTellsTruth
    <2> SUFFICES ASSUME AuditOK PROVE AuditTellsTruth
      OBVIOUS
    <2>1. ASSUME NEW i \in DOMAIN rows, <<i[1], i[2]>> \in RequestIds,
                 request[<<i[1], i[2]>>].phase \in {"ok", "error"},
                 ~request[<<i[1], i[2]>>].cut
          PROVE  \E entry \in Reported(<<i[1], i[2]>>) :
                   entry.statement = "audit" \/ request[<<i[1], i[2]>>].phase = "error"
      <3>1. RowsBy(<<i[1], i[2]>>) # {}
        BY DEF RowsBy
      <3> QED
        BY <2>1, <3>1 DEF AuditOK, AuditMeant, TruthTold
    <2>2. \A e \in Entities : e = <<>> \/ e \in DOMAIN rows \/ e[3] \in ErasableKinds
      BY DEF AuditOK, Mentionable
    <2> QED
      BY <2>1, <2>2 DEF AuditTellsTruth
  <1> QED
    BY <1>1, <1>2, <1>3, PTL DEF Spec

(***************************************************************************)
(* The default signature.                                                  *)
(***************************************************************************)
\* A request is sent with the columns of its form; only the file of a job comes later.
AsFilledIn(q) ==
  LET sent == request'[q].columns
      columns == FormOf[q[1]].columns
  IN  /\ q[1] \in DOMAIN FormOf
      /\ \E s \in 1..Len(Sends(q[1])) : request'[q].op = Sends(q[1])[s]
      /\ \A c \in DOMAIN columns \ {"sourceFile"} : c \in DOMAIN sent /\ sent[c] = columns[c]

LEMMA SentColumns ==
  ASSUME Life, NEW f \in Forms, NEW n, NEW step, NEW columns, SentBy(f, n, step, columns),
         columns = FormOf[f].columns
           \/ \E file : columns = Over([sourceFile |-> file], FormOf[f].columns),
         NEW q \in RequestIds, Starts(q)
  PROVE  AsFilledIn(q)
  <1>1. q = <<f, n>>
    BY DEF SentBy, Starts, Stays
  <1>2. /\ request'[q].columns = columns /\ request'[q].op = Sends(f)[step]
        /\ step \in 1..Len(Sends(f)) /\ f \in DOMAIN FormOf /\ q[1] = f
    <2>1. PICK session :
            request'[q] = [Idle EXCEPT !.phase = "running", !.op = Sends(f)[step],
                                       !.columns = columns, !.session = session]
      BY <1>1 DEF SentBy, Sent, RequestIds
    <2>2. request'[q].columns = columns /\ request'[q].op = Sends(f)[step]
      BY <2>1 DEF Idle
    <2> QED
      BY <1>1, <2>2 DEF SentBy, Life
  <1>3. \A c \in DOMAIN FormOf[f].columns \ {"sourceFile"} :
          c \in DOMAIN columns /\ columns[c] = FormOf[f].columns[c]
    BY DEF Over
  <1> QED
    BY <1>2, <1>3 DEF AsFilledIn

LEMMA StartedAsFilledIn ==
  ASSUME Life, [Next]_vars, NEW q \in RequestIds, Starts(q)
  PROVE  AsFilledIn(q)
  <1>1. ASSUME NEW f \in Forms, Press(f)
        PROVE  AsFilledIn(q)
    BY <1>1, PressSends, SentColumns
  <1>2. ASSUME NEW f \in Forms, NEW n \in page[f].awaits, SendNext(f, n)
        PROVE  AsFilledIn(q)
    BY <1>2, NextSends, SentColumns
  <1>3. ASSUME NEW f \in Forms, NEW n \in page[f].awaits,
               Succeed(f, n) \/ ShowError(f, n) \/ TimeOut(f, n)
        PROVE  FALSE
    BY <1>3 DEF Succeed, ShowError, TimeOut, Starts
  <1>4. ASSUME NEW p \in Running, Statement(p)
        PROVE  FALSE
    BY <1>4, StatementMoves DEF Starts, Stays, Goes, Ends
  <1>5. ASSUME NEW p \in Running, Fail(p)
        PROVE  FALSE
    <2>1. p # q => request'[q] = request[q]
      BY <1>5 DEF Fail, RequestIds
    <2> QED
      BY <1>5, <2>1 DEF Fail, Starts
  <1>6. ASSUME NEW session, Expire(session)
        PROVE  FALSE
    BY <1>6 DEF Expire, Starts
  <1>7. ASSUME Stop
        PROVE  FALSE
    BY <1>7 DEF Stop, Running, Starts
  <1>8. ASSUME UNCHANGED vars
        PROVE  FALSE
    BY <1>8 DEF vars, Starts
  <1> QED
    BY <1>1, <1>2, <1>3, <1>4, <1>5, <1>6, <1>7, <1>8 DEF Next

\* The request that is to store a new signature carries the choice of its form, and has
\* found the file of the signature.
SignatureMeant(q) ==
  LET r == request[q]
  IN  r.phase = "running" /\ r.op = "createSignature" =>
        /\ "isDefault" \in DOMAIN r.columns
        /\ r.columns.isDefault = FormOf[q[1]].columns.isDefault
        /\ r.at >= 3 => Referred(r.columns, "file") \subseteq Of("FileObject")

\* The user has a default, or will have: one is about to be stored, or a failure came first.
DefaultOf(user) ==
  \E t \in Of("SignatureAsset") :
    {"owner", "isDefault"} \subseteq DOMAIN rows[t] /\ rows[t].owner = user /\ rows[t].isDefault

ComesTo(user) ==
  \E q \in RequestIds :
    /\ request[q].phase = "running" /\ request[q].op = "createSignature" /\ request[q].at = 4
    /\ request[q].columns.isDefault /\ request[q].user = user

SomeCut == \E q \in RequestIds : request[q].cut

Chosen(s) == s[2] # 0 /\ FormOf[s[1]].columns.isDefault

\* The inductive invariant of the signatures.
DefaultsOK ==
  /\ \A q \in RequestIds : SignatureMeant(q) /\ (request[q].cut => request[q].phase = "error")
  /\ \A s \in Of("SignatureAsset") :
       Chosen(s) =>
         /\ "owner" \in DOMAIN rows[s]
         /\ DefaultOf(rows[s].owner) \/ ComesTo(rows[s].owner) \/ SomeCut

LEMMA DefaultsInit == Init => DefaultsOK
  <1> SUFFICES ASSUME Init PROVE DefaultsOK
    OBVIOUS
  <1>1. PICK desk \in Desks :
          /\ rows = desk.rows
          /\ request = [q \in UNION {{f} \X (1..FormOf[f].requests) : f \in desk.forms} |-> Idle]
    BY DEF Init
  <1>2. ASSUME NEW q \in RequestIds
        PROVE  SignatureMeant(q) /\ ~request[q].cut
    <2>1. request[q] = Idle
      BY <1>1 DEF RequestIds
    <2> QED
      BY <2>1, IdleFields DEF SignatureMeant
  <1>3. ASSUME NEW s \in Of("SignatureAsset")
        PROVE  ~Chosen(s)
    <2>1. s = <<s[1], 0, s[3]>>
      BY <1>1, DesksAssumption DEF Of, OfKind
    <2>2. s[2] = 0
      BY <2>1
    <2> QED
      BY <2>2 DEF Chosen
  <1> QED
    BY <1>2, <1>3 DEF DefaultsOK

\* Once a failure has cut a request, it stays cut.
LEMMA CutStays ==
  ASSUME Life, DefaultsOK, [Next]_vars, NEW q \in RequestIds
  PROVE  /\ request'[q].cut => request'[q].phase = "error"
         /\ request[q].cut => request'[q].cut
  <1>0. Move(q) /\ RequestOK(q) /\ (request[q].cut => request[q].phase = "error")
    BY Moves DEF Life, DefaultsOK
  <1>1. CASE Stays(q)
    BY <1>0, <1>1 DEF Stays
  <1>2. CASE Starts(q)
    BY <1>0, <1>2 DEF Starts
  <1>3. CASE Goes(q)
    <2>1. request'[q].cut = request[q].cut /\ request[q].phase = "running"
      BY <1>0, <1>3, GoingOnFields DEF Goes
    <2> QED
      BY <1>0, <2>1
  <1>4. CASE Ends(q)
    BY <1>0, <1>4 DEF Ends
  <1> QED
    BY <1>0, <1>1, <1>2, <1>3, <1>4 DEF Move

LEMMA SignatureTables ==
  /\ TablesOf("file") \subseteq {"FileObject"}
  /\ \A r \in References : r.kind = "SignatureAsset" => r.column = "file" /\ r.to = "FileObject"
  <1>1. \A r \in References : r.kind = "SignatureAsset" => r.column = "file" /\ r.to = "FileObject"
    BY DEF References, OrganisationReferences, DocumentReferences, RequestReferences,
           ClaimReferences, FinanceReferences, JobReferences, PolicyReferences,
         Reference
  <1>2. \A r \in References : r.column = "file" => r.to = "FileObject"
    BY DEF References, OrganisationReferences, DocumentReferences, RequestReferences,
           ClaimReferences, FinanceReferences, JobReferences, PolicyReferences,
         Reference
  <1> QED
    BY <1>1, <1>2 DEF TablesOf

LEMMA SignatureHandler ==
  ASSUME NEW q, request[q].op = "createSignature", TableEntry(request[q].op)
  PROVE  "file" \in HandlerOf(q).checks /\ HandlerOf(q).kind = "SignatureAsset"
  <1>1. HandlerOf(q).kind = "SignatureAsset" /\ HandlerOf(q).kind \in ScopedKinds
    BY DEF TableEntry, HandlerOf, ScopedKinds
  <1>2. ScopedColumns["SignatureAsset"] \subseteq
          (HandlerOf(q).checks \ Loose(request[q].op)) \cup Own(request[q].op)
    BY <1>1 DEF TableEntry, HandlerOf
  <1>3. Own("createSignature") = {} /\ "file" \in ScopedColumns["SignatureAsset"]
    BY DEF Own, Drafting, ScopedColumns
  <1> QED
    BY <1>1, <1>2, <1>3

LEMMA SignatureMeantAfter ==
  ASSUME Life, RowsOK, RowsGoOn, DefaultsOK, [Next]_vars, NEW q \in RequestIds
  PROVE  SignatureMeant(q)'
  <1> DEFINE new == request'[q]
  <1>0. Move(q) /\ RequestOK(q) /\ SignatureMeant(q) /\ Of("FileObject") \subseteq Of("FileObject")'
    BY Moves, KeptRows DEF Life, DefaultsOK, ErasableKinds
  <1> SUFFICES ASSUME new.phase = "running", new.op = "createSignature"
               PROVE  /\ "isDefault" \in DOMAIN new.columns
                      /\ new.columns.isDefault = FormOf[q[1]].columns.isDefault
                      /\ new.at >= 3 => Referred(new.columns, "file") \subseteq Of("FileObject")'
    BY DEF SignatureMeant, Referred
  <1>1. CASE Stays(q)
    BY <1>0, <1>1 DEF Stays, SignatureMeant
  <1>2. CASE Starts(q)
    <2>1. AsFilledIn(q)
      BY <1>2, StartedAsFilledIn
    <2>2. "isDefault" \in DOMAIN FormOf[q[1]].columns
      <3>1. PICK s \in 1..Len(Sends(q[1])) : new.op = Sends(q[1])[s]
        BY <2>1 DEF AsFilledIn
      <3>2. s \in DOMAIN Sends(q[1]) /\ q[1] \in DOMAIN FormOf
        BY <2>1, CatalogueAssumption DEF AsFilledIn, Sends
      <3> QED
        BY <3>1, <3>2, CatalogueAssumption DEF Sends
    <2> QED
      BY <1>2, <2>1, <2>2 DEF AsFilledIn, Starts
  <1>3. CASE Goes(q)
    <2>0. /\ request[q].phase = "running" /\ request[q].op = "createSignature"
          /\ new.at = request[q].at + 1 /\ request[q].at \in 1..8
          /\ TableEntry(request[q].op) /\ StatementAt(request[q].op, request[q].at)
      BY <1>0, <1>3, GoingOnFields DEF Goes
    <2>1. CASE Does(request[q].op)[request[q].at] = "check"
      <3>1. new.columns = Completed(q) /\ ReferencesValid(q)
        BY <1>3, <2>1, CheckPassed
      <3>2. Completed(q) = request[q].columns
        BY <2>0 DEF Completed
      <3>3. \A i \in Referred(request[q].columns, "file") : i \in Of("FileObject")
        BY <2>0, <3>1, SignatureHandler, SignatureTables DEF ReferencesValid, Of, OfKind
      <3> QED
        BY <1>0, <2>0, <3>1, <3>2, <3>3 DEF SignatureMeant
    <2>2. CASE Does(request[q].op)[request[q].at] # "check"
      <3>1. new.columns = request[q].columns
        BY <1>0, <1>3, <2>2, GoingOnFields
      <3>2. new.at >= 3 => request[q].at >= 3
        BY <2>0, <2>2 DEF StatementAt, Unchecked, InsertPlace, FilePlace, Filing, Drafting
      <3> QED
        BY <1>0, <2>0, <3>1, <3>2 DEF SignatureMeant
    <2> QED
      BY <2>1, <2>2
  <1>4. CASE Ends(q)
    BY <1>4 DEF Ends
  <1> QED
    BY <1>0, <1>1, <1>2, <1>3, <1>4 DEF Move

DefaultOfNext(user) ==
  \E t \in OfKind(rows', "SignatureAsset") :
    {"owner", "isDefault"} \subseteq DOMAIN rows'[t] /\ rows'[t].owner = user
      /\ rows'[t].isDefault

ComesToNext(user) ==
  \E q \in RequestIds :
    /\ request'[q].phase = "running" /\ request'[q].op = "createSignature"
    /\ request'[q].at = 4 /\ request'[q].columns.isDefault /\ request'[q].user = user

SomeCutNext == \E q \in RequestIds : request'[q].cut

LEMMA ClearPassed ==
  ASSUME Life, NEW q \in Running, Clear(q)
  PROVE  /\ q \in RequestIds
         /\ request'[q].phase = "running" /\ request'[q].op = "createSignature"
         /\ request'[q].at = 4 /\ request'[q].columns = request[q].columns
         /\ request'[q].user = request[q].user
  <1>0. /\ q \in RequestIds /\ request[q].op = "createSignature" /\ request[q].at = 3
        /\ TableEntry(request[q].op) /\ DOMAIN request[q] = DOMAIN Idle
        /\ Does(request[q].op)[request[q].at] = "clear" /\ RequestOK(q)
        /\ request[q].phase = "running"
    BY RunningFacts DEF Clear, At, HandlerOf, Does, StatementAt, RequestOK
  <1>1. Len(Does(request[q].op)) # request[q].at
    BY <1>0 DEF TableEntry
  <1>2. Proceed(q, request[q]) /\ Statement(q)
    BY DEF Clear, Statement
  <1>3. request'[q].phase = "running"
    BY <1>0, <1>1, <1>2, NotRefused
  <1>4. Goes(q)
    BY <1>2, <1>3, StatementMoves DEF Ends
  <1> QED
    BY <1>0, <1>4, GoingOnFields

\* What becomes of a signature row.
LEMMA SignatureKept ==
  ASSUME Life, RowsOK, Fresh, RowsGoOn, [Next]_vars, NEW t \in OfKind(rows, "SignatureAsset")
  PROVE  /\ t \in OfKind(rows', "SignatureAsset") /\ DOMAIN rows'[t] = DOMAIN rows[t]
         /\ "owner" \in DOMAIN rows[t] => rows'[t].owner = rows[t].owner
         /\ "isDefault" \in DOMAIN rows[t] =>
              \/ rows'[t].isDefault = rows[t].isDefault
              \/ \E q \in Running : Clear(q)
  <1>1. t \in DOMAIN rows /\ t \in DOMAIN rows' /\ t[3] = "SignatureAsset"
    BY DEF OfKind, RowsGoOn, ErasableKinds
  <1>2. /\ DOMAIN rows'[t] = DOMAIN rows[t]
        /\ \A c \in DOMAIN rows[t] : ColumnKept(t, c)
    BY <1>1, RowsOverTime DEF OldRowKept
  <1>3. ASSUME "owner" \in DOMAIN rows[t]
        PROVE  rows'[t].owner = rows[t].owner
    BY <1>1, <1>2, <1>3, SignatureTables DEF ColumnKept
  <1>4. ASSUME "isDefault" \in DOMAIN rows[t]
        PROVE  rows'[t].isDefault = rows[t].isDefault \/ \E q \in Running : Clear(q)
    BY <1>1, <1>2, <1>4, SignatureTables DEF ColumnKept
  <1> QED
    BY <1>1, <1>2, <1>3, <1>4 DEF OfKind

LEMMA DefaultKept ==
  ASSUME Life, RowsOK, Fresh, RowsGoOn, [Next]_vars, NEW user, DefaultOf(user)
  PROVE  DefaultOfNext(user) \/ ComesToNext(user)
  <1>1. PICK t \in OfKind(rows, "SignatureAsset") :
          /\ {"owner", "isDefault"} \subseteq DOMAIN rows[t]
          /\ rows[t].owner = user /\ rows[t].isDefault
    BY DEF DefaultOf, Of
  <1>2. /\ t \in OfKind(rows', "SignatureAsset")
        /\ {"owner", "isDefault"} \subseteq DOMAIN rows'[t] /\ rows'[t].owner = user
        /\ rows'[t].isDefault = rows[t].isDefault \/ \E q \in Running : Clear(q)
    BY <1>1, SignatureKept
  <1>3. CASE rows'[t].isDefault = rows[t].isDefault
    BY <1>1, <1>2, <1>3 DEF DefaultOfNext
  <1>4. ASSUME NEW q \in Running, Clear(q)
        PROVE  DefaultOfNext(user) \/ ComesToNext(user)
    <2>1. CASE rows'[t] = rows[t]
      BY <1>1, <1>2, <2>1 DEF DefaultOfNext
    <2>2. CASE rows'[t] # rows[t]
      <3>1. request[q].columns.isDefault /\ rows[t].owner = request[q].user
        BY <1>1, <1>4, <2>2 DEF Clear, OfKind
      <3>2. /\ q \in RequestIds /\ request'[q].phase = "running"
            /\ request'[q].op = "createSignature" /\ request'[q].at = 4
            /\ request'[q].columns = request[q].columns /\ request'[q].user = request[q].user
        BY <1>4, ClearPassed
      <3> QED
        BY <1>1, <3>1, <3>2 DEF ComesToNext
    <2> QED
      BY <2>1, <2>2
  <1> QED
    BY <1>2, <1>3, <1>4

\* The row of a new signature.
LEMMA SignatureRow ==
  ASSUME NEW q, HandlerOf(q).kind = "SignatureAsset", "isDefault" \in DOMAIN request[q].columns
  PROVE  /\ {"owner", "isDefault"} \subseteq DOMAIN NewRow(q) /\ NewRow(q).owner = request[q].user
         /\ NewRow(q).isDefault = request[q].columns.isDefault
         /\ NewRow(q).kind = "SignatureAsset"
         /\ Referred(NewRow(q), "file") = Referred(request[q].columns, "file")
  <1> DEFINE kept == [c \in DOMAIN request[q].columns \ {"attachments"} |-> request[q].columns[c]]
             common == Over([kind |-> "SignatureAsset", company |-> request[q].company], kept)
             more == [owner |-> request[q].user]
  <1>1. NewRow(q) = Over(more, common)
    BY DEF NewRow
  <1>2. /\ "isDefault" \in DOMAIN common /\ common.kind = "SignatureAsset"
        /\ "kind" \in DOMAIN common
        /\ common.isDefault = request[q].columns.isDefault
        /\ Referred(common, "file") = Referred(request[q].columns, "file")
    BY DEF Over, Referred
  <1>3. DOMAIN more = {"owner"} /\ more.owner = request[q].user
    OBVIOUS
  <1> HIDE DEF common, more
  <1>4. /\ DOMAIN Over(more, common) = {"owner"} \cup DOMAIN common
        /\ Over(more, common).owner = request[q].user
        /\ \A c \in DOMAIN common \ {"owner"} : Over(more, common)[c] = common[c]
    BY <1>3 DEF Over
  <1>5. Over(more, common).isDefault = common.isDefault /\ Over(more, common).kind = common.kind
    BY <1>2, <1>4
  <1>6. Referred(Over(more, common), "file") = Referred(common, "file")
    BY <1>4 DEF Referred
  <1> QED
    BY <1>1, <1>2, <1>4, <1>5, <1>6

\* Nothing stands in the way of a new signature.
LEMMA SignatureStorable ==
  ASSUME RowsOK, NEW q, NEW id, HandlerOf(q).kind = "SignatureAsset",
         "isDefault" \in DOMAIN request[q].columns,
         Referred(request[q].columns, "file") \subseteq Of("FileObject")
  PROVE  Storable(rows, id, NewRow(q))
  <1>1. /\ NewRow(q).kind = "SignatureAsset"
        /\ Referred(NewRow(q), "file") \subseteq Of("FileObject")
    BY SignatureRow
  <1>2. \A i \in Of("FileObject") : i \in DOMAIN rows /\ rows[i].kind = "FileObject"
    BY DEF Of, OfKind, RowsOK, WellFormed
  <1>3. \A r \in ReferencesOf(NewRow(q)) : r.column = "file" /\ r.to = "FileObject"
    BY <1>1, ReferencesOfRow, SignatureTables
  <1>4. Intact(rows, NewRow(q))
    BY <1>1, <1>2, <1>3 DEF Intact
  <1>5. UniqueColumns("SignatureAsset") = {}
    BY DEF UniqueColumns
  <1> QED
    BY <1>1, <1>4, <1>5 DEF Storable, Clashes

LEMMA ComesKept ==
  ASSUME Life, RowsOK, DefaultsOK, [Next]_vars, NEW user, ComesTo(user)
  PROVE  DefaultOfNext(user) \/ ComesToNext(user) \/ SomeCutNext
  <1>1. PICK q \in RequestIds :
          /\ request[q].phase = "running" /\ request[q].op = "createSignature"
          /\ request[q].at = 4 /\ request[q].columns.isDefault /\ request[q].user = user
    BY DEF ComesTo
  <1>2. Move(q) /\ RequestOK(q) /\ q \in Running /\ SignatureMeant(q)
    BY <1>1, Moves DEF Life, Running, DefaultsOK
  <1>3. TableEntry(request[q].op) /\ Does(request[q].op)[request[q].at] = "insert"
        /\ request[q].at # Len(Does(request[q].op))
    <2>1. TableEntry(request[q].op)
      BY <1>2, RunningFacts
    <2>2. Does(request[q].op)[4] = "insert"
      BY <1>1, <2>1 DEF TableEntry
    <2>3. 4 # Len(Does(request[q].op))
      BY <2>1, <2>2 DEF TableEntry
    <2> QED
      BY <1>1, <2>1, <2>2, <2>3
  <1>4. HandlerOf(q).kind = "SignatureAsset"
    BY <1>1, <1>3, SignatureHandler
  <1>5. /\ {"owner", "isDefault"} \subseteq DOMAIN NewRow(q) /\ NewRow(q).owner = user
        /\ NewRow(q).isDefault = request[q].columns.isDefault
    BY <1>1, <1>2, <1>4, SignatureRow DEF SignatureMeant
  <1>6. CASE Stays(q)
    BY <1>1, <1>6 DEF Stays, ComesToNext
  <1>7. CASE Goes(q)
    <2> DEFINE id == NewId(q, "SignatureAsset")
    <2>1. rows' = Stored(rows, id, NewRow(q))
      BY <1>3, <1>4, <1>7, InsertPassed
    <2>2. id \in OfKind(rows', "SignatureAsset") /\ rows'[id] = NewRow(q)
      BY <2>1 DEF Stored, OfKind, NewId
    <2> HIDE DEF id
    <2> QED
      BY <1>1, <1>5, <2>2 DEF DefaultOfNext
  <1>8. CASE Ends(q)
    <2>1. CASE request'[q].cut
      BY <2>1 DEF SomeCutNext
    <2>2. CASE ~request'[q].cut
      <3>1. Insert(q)
        BY <1>3, <1>8, <2>2, WhichStatement DEF Ends
      <3>2. Storable(rows, NewId(q, "SignatureAsset"), NewRow(q))
        BY <1>1, <1>2, <1>4, SignatureStorable DEF SignatureMeant
      <3> DEFINE new == [request[q] EXCEPT !.row = NewId(q, HandlerOf(q).kind)]
      <3>3. Proceed(q, new)
        BY <1>4, <3>1, <3>2 DEF Insert, Write
      <3>4. DOMAIN new = DOMAIN Idle /\ new.phase = "running" /\ new.at = request[q].at
        BY <1>1, <1>2 DEF Idle, RequestOK
      <3> HIDE DEF new
      <3>5. request'[q].phase = "running"
        BY <1>3, <3>3, <3>4, NotRefused
      <3> QED
        BY <1>8, <3>5 DEF Ends
    <2> QED
      BY <2>1, <2>2
  <1> QED
    BY <1>1, <1>2, <1>6, <1>7, <1>8 DEF Move, Starts

\* A new signature is what its form asks for.
LEMMA NewSignature ==
  ASSUME Life, RowsOK, DefaultsOK, [Next]_vars, NEW s \in OfKind(rows', "SignatureAsset"),
         s \notin DOMAIN rows
  PROVE  /\ {"owner", "isDefault"} \subseteq DOMAIN rows'[s]
         /\ rows'[s].isDefault = FormOf[s[1]].columns.isDefault
  <1>0. s \in DOMAIN rows' /\ s[3] = "SignatureAsset" /\ rows' # rows
    BY DEF OfKind
  <1>1. PICK q \in Running : /\ Statement(q) /\ s = NewId(q, "SignatureAsset")
                             /\ Creates(request[q].op, request[q].at, "SignatureAsset")
    BY <1>0, NewRowsBy
  <1>2. /\ q \in RequestIds /\ TableEntry(request[q].op) /\ request[q].phase = "running"
    BY RunningFacts
  <1>3. Does(request[q].op)[request[q].at] = "insert" /\ HandlerOf(q).kind = "SignatureAsset"
    BY <1>1 DEF Creates, HandlerOf
  <1>4. request[q].op = "createSignature"
    BY <1>2, <1>3 DEF TableEntry, HandlerOf
  <1>5. Goes(q)
    BY <1>0, <1>1, CreatingGoesOn
  <1>6. rows' = Stored(rows, s, NewRow(q))
    BY <1>1, <1>2, <1>3, <1>5, InsertPassed
  <1>7. rows'[s] = NewRow(q) /\ s[1] = q[1]
    BY <1>1, <1>6 DEF Stored, NewId
  <1>8. /\ "isDefault" \in DOMAIN request[q].columns
        /\ request[q].columns.isDefault = FormOf[q[1]].columns.isDefault
    BY <1>2, <1>4 DEF DefaultsOK, SignatureMeant
  <1> QED
    BY <1>3, <1>7, <1>8, SignatureRow

LEMMA ChosenAfter ==
  ASSUME Life, RowsOK, Fresh, RowsGoOn, DefaultsOK, [Next]_vars,
         NEW s \in OfKind(rows', "SignatureAsset"), Chosen(s)
  PROVE  /\ "owner" \in DOMAIN rows'[s]
         /\ DefaultOfNext(rows'[s].owner) \/ ComesToNext(rows'[s].owner) \/ SomeCutNext
  <1>1. CASE s \in DOMAIN rows
    <2>1. s \in OfKind(rows, "SignatureAsset")
      BY <1>1 DEF OfKind
    <2>2. /\ "owner" \in DOMAIN rows[s]
          /\ DefaultOf(rows[s].owner) \/ ComesTo(rows[s].owner) \/ SomeCut
      BY <2>1 DEF DefaultsOK, Of
    <2>3. "owner" \in DOMAIN rows'[s] /\ rows'[s].owner = rows[s].owner
      BY <2>1, <2>2, SignatureKept
    <2>4. SomeCut => SomeCutNext
      BY CutStays DEF SomeCut, SomeCutNext
    <2> QED
      BY <2>2, <2>3, <2>4, DefaultKept, ComesKept
  <1>2. CASE s \notin DOMAIN rows
    <2>1. /\ {"owner", "isDefault"} \subseteq DOMAIN rows'[s]
          /\ rows'[s].isDefault = FormOf[s[1]].columns.isDefault
      BY <1>2, NewSignature
    <2>2. rows'[s].isDefault
      BY <2>1 DEF Chosen
    <2> QED
      BY <2>1, <2>2 DEF DefaultOfNext
  <1> QED
    BY <1>1, <1>2

LEMMA DefaultsStep ==
  ASSUME Life, RowsOK, Fresh, DefaultsOK, [Next]_vars
  PROVE  DefaultsOK'
  <1>0. RowsGoOn /\ RequestIds' = RequestIds
    BY RowsGoingOn, Moves DEF RequestIds
  <1>1. ASSUME NEW q \in RequestIds'
        PROVE  SignatureMeant(q)' /\ (request'[q].cut => request'[q].phase = "error")
    BY <1>0, SignatureMeantAfter, CutStays
  <1>2. ASSUME NEW s \in Of("SignatureAsset")', Chosen(s)'
        PROVE  /\ "owner" \in DOMAIN rows'[s]
               /\ (DefaultOf(rows[s].owner) \/ ComesTo(rows[s].owner) \/ SomeCut)'
    <2>1. s \in OfKind(rows', "SignatureAsset") /\ Chosen(s)
      BY <1>2 DEF Of, Chosen
    <2>2. /\ "owner" \in DOMAIN rows'[s]
          /\ DefaultOfNext(rows'[s].owner) \/ ComesToNext(rows'[s].owner) \/ SomeCutNext
      BY <1>0, <2>1, ChosenAfter
    <2> QED
      BY <1>0, <2>2 DEF DefaultOf, DefaultOfNext, ComesTo, ComesToNext, SomeCut, SomeCutNext, Of
  <1> QED
    BY <1>1, <1>2 DEF DefaultsOK

\* A user who chose a default signature has one when nothing runs and no failure cut a
\* request, whatever the order in which the requests of the user's store theirs: each clears
\* the others' mark before it stores its own (SignaturesService.create).
THEOREM DefaultStays == Spec => []DefaultSurvives
  <1> DEFINE Inv == Life /\ RowsOK /\ Fresh /\ DefaultsOK
  <1>1. Init => Inv
    BY LifeInit, RowsInit, FreshInit, DefaultsInit
  <1>2. Inv /\ [Next]_vars => Inv'
    BY LifeStep, RowsStep, FreshStep, DefaultsStep
  <1>3. Inv => DefaultSurvives
    <2> SUFFICES ASSUME DefaultsOK,
                        \A q \in RequestIds : request[q].phase # "running" /\ ~request[q].cut,
                        NEW s \in Of("SignatureAsset"), Chosen(s)
                 PROVE  \E t \in Of("SignatureAsset") :
                          rows[t].owner = rows[s].owner /\ rows[t].isDefault
      BY DEF DefaultSurvives, Chosen
    <2>1. DefaultOf(rows[s].owner)
      BY DEF DefaultsOK, ComesTo, SomeCut
    <2> QED
      BY <2>1 DEF DefaultOf
  <1> QED
    BY <1>1, <1>2, <1>3, PTL DEF Spec

(***************************************************************************)
(* Forms that go away once they are stored.                                *)
(***************************************************************************)
\* The kinds of rows the operations of the page are about.
Kinds(f) == {Handlers[Sends(f)[s]].kind : s \in 1..Len(Sends(f))}

\* A row of the kind comes of the operation.
Makes(op, kind) == \E k \in 1..Len(Does(op)) : Creates(op, k, kind)

\* The page waits for an answer before it sends again, and does each thing once.
Locked(f) ==
  /\ FormOf[f].page.locks
  /\ \A s, t \in 1..Len(Sends(f)) :
       Sends(f)[s] = Sends(f)[t] \/ Makes(Sends(f)[t], Handlers[Sends(f)[s]].kind) => s = t

\* The operations that store a unique code or number.
NamedCreations ==
  {"createCompany", "createLegalEntity", "createBusinessSite", "createDepartment",
   "createEmployee"}

\* The column that the database keeps unique in a company (of companies, everywhere).
NameOf(op) == IF op = "createEmployee" THEN "employeeNumber" ELSE "code"

\* The page creates one row, and asks for its unique code or number.
Named(f) ==
  /\ Len(Sends(f)) = 1 /\ Sends(f)[1] \in NamedCreations
  /\ NameOf(Sends(f)[1]) \in DOMAIN FormOf[f].columns

\* The page changes or removes what is there.
Barren(f) == \A s \in 1..Len(Sends(f)) : \A kind \in Kinds(f) : ~Makes(Sends(f)[s], kind)

\* A page whose form goes away locks its button, or sends a code, or creates nothing.
PagesGuard ==
  \A f \in DOMAIN FormOf : FormOf[f].page.empties => Locked(f) \/ Named(f) \/ Barren(f)

\* Nobody renames, between two presses of a form, the row that the first press created.
EditsAreOfOldRows ==
  \A f \in DOMAIN FormOf : \A s \in 1..Len(Sends(f)) :
    Sends(f)[s] \in Changing => FormOf[f].target = <<>> \/ FormOf[f].target[2] = 0

\* A request runs an operation of its page, and carries the code that was filled in.
OpMeant(q) ==
  request[q].phase # "none" => \E s \in 1..Len(Sends(q[1])) : request[q].op = Sends(q[1])[s]

NameMeant(q) ==
  LET r == request[q]
      name == NameOf(r.op)
  IN  r.phase = "running" /\ Named(q[1]) =>
        /\ name \in DOMAIN r.columns /\ r.columns[name] = FormFor(q).columns[name]
        /\ r.op # "createCompany" /\ r.at >= 3 => r.company = FormFor(q).into

\* A row that was not there at first is of a request that creates such rows.
Made(i) ==
  LET q == <<i[1], i[2]>>
  IN  i[2] # 0 =>
        q \in RequestIds /\ request[q].phase # "none" /\ Makes(request[q].op, i[3])

\* The row has the code of the form, in the company of the form.
Titled(f, row) ==
  LET name == NameOf(Sends(f)[1])
  IN  /\ name \in DOMAIN row /\ row[name] = FormOf[f].columns[name]
      /\ Sends(f)[1] # "createCompany" => row.company = FormOf[f].into

\* The rows the form has stored, all with its code and so all the same.
RowsOfForm(f) == {i \in DOMAIN rows : i[3] \in Kinds(f) /\ i[1] = f /\ i[2] # 0}

NamedOnce(f) ==
  /\ \A i \in RowsOfForm(f) : Titled(f, rows[i])
  /\ \A i, j \in RowsOfForm(f) : i = j

\* The requests sent for a step of the page: each but the last was answered by an error.
SentFor(f, s) == {n \in 1..page[f].sent : request[<<f, n>>].op = Sends(f)[s]}

\* The last one may be on its way, or have succeeded.
Underway(f, s) ==
  IF ~page[f].filled \/ (page[f].awaits # {} /\ page[f].step >= s) THEN 1 ELSE 0

LockedOnce(f) ==
  /\ page[f].awaits \subseteq {page[f].sent}
  /\ page[f].filled \/ page[f].awaits = {}
  /\ \A s \in 1..Len(Sends(f)) : Cardinality(SentFor(f, s)) <= page[f].errors + Underway(f, s)

\* The inductive invariant of the forms.
OnceOK ==
  /\ \A q \in RequestIds : OpMeant(q) /\ NameMeant(q)
  /\ \A i \in DOMAIN rows : Made(i)
  /\ \A f \in Forms : /\ Named(f) => NamedOnce(f)
                      /\ FormOf[f].page.empties /\ Locked(f) => LockedOnce(f)

LEMMA OnceInit == Init => OnceOK
  <1> SUFFICES ASSUME Init PROVE OnceOK
    OBVIOUS
  <1>1. PICK desk \in Desks :
          /\ rows = desk.rows
          /\ page = [f \in desk.forms |-> [filled |-> TRUE, sent |-> 0, step |-> 1,
                                           awaits |-> {}, errors |-> 0]]
          /\ request = [q \in UNION {{f} \X (1..FormOf[f].requests) : f \in desk.forms} |-> Idle]
    BY DEF Init
  <1>2. ASSUME NEW q \in RequestIds
        PROVE  OpMeant(q) /\ NameMeant(q)
    <2>1. request[q] = Idle
      BY <1>1 DEF RequestIds
    <2> QED
      BY <2>1, IdleFields DEF OpMeant, NameMeant
  <1>3. ASSUME NEW i \in DOMAIN rows
        PROVE  i[2] = 0
    <2>1. i = <<i[1], 0, i[3]>>
      BY <1>1, DesksAssumption
    <2> QED
      BY <2>1
  <1>4. ASSUME NEW f \in Forms
        PROVE  LockedOnce(f)
    <2>1. /\ page[f].awaits = {} /\ page[f].filled /\ page[f].sent = 0 /\ page[f].errors = 0
      BY <1>1 DEF Forms
    <2>2. \A s : SentFor(f, s) = {}
      BY <2>1 DEF SentFor
    <2> QED
      BY <2>1, <2>2, FS_EmptySet DEF LockedOnce, Underway
  <1>5. \A f \in Forms : NamedOnce(f)
    BY <1>3 DEF NamedOnce, RowsOfForm
  <1> QED
    BY <1>2, <1>3, <1>4, <1>5 DEF OnceOK, Made

\* A request keeps its operation.
LEMMA OpStays ==
  ASSUME Life, [Next]_vars, NEW q \in RequestIds, request[q].phase # "none"
  PROVE  request'[q].phase # "none" /\ request'[q].op = request[q].op
  <1>1. Move(q) /\ RequestOK(q)
    BY Moves DEF Life
  <1>2. CASE Goes(q)
    BY <1>1, <1>2, GoingOnFields
  <1> QED
    BY <1>1, <1>2 DEF Move, Stays, Starts, Ends

LEMMA OpMeantAfter ==
  ASSUME Life, [Next]_vars, NEW q \in RequestIds, OpMeant(q)
  PROVE  OpMeant(q)'
  <1>1. CASE request[q].phase # "none"
    BY <1>1, OpStays DEF OpMeant
  <1>2. CASE request[q].phase = "none"
    <2>1. Move(q)
      BY Moves
    <2>2. Stays(q) \/ Starts(q)
      BY <1>2, <2>1 DEF Move, Goes, Ends
    <2>3. CASE Starts(q)
      BY <2>3, StartedAsFilledIn DEF AsFilledIn, OpMeant
    <2> QED
      BY <1>2, <2>2, <2>3 DEF Stays, OpMeant
  <1> QED
    BY <1>1, <1>2

\* The handlers that store a code or a number.
LEMMA NamedHandlers ==
  ASSUME NEW op \in NamedCreations
  PROVE  LET kind == Handlers[op].kind
         IN  /\ op \in Ops
             /\ kind \in {"Company", "LegalEntity", "BusinessSite", "Department", "Employee"}
             /\ op = "createCompany" <=> kind = "Company"
             /\ op = "createEmployee" <=> kind = "Employee"
             /\ op # "createCompany" => Handlers[op].scope = "body"
             /\ UniqueColumns(kind) =
                  {NameOf(op)} \cup (IF op = "createCompany" THEN {} ELSE {"company"})
  <1>1. op \in Ops
    BY DEF NamedCreations, Ops, Handlers
  <1> QED
    BY <1>1, HandlersByName
       DEF NamedCreations, CreateCompany, CreateLegalEntity, CreateBusinessSite,
           CreateDepartment, CreateEmployee, Handler, UniqueColumns, NameOf

LEMMA NamedPage ==
  ASSUME NEW f, Named(f)
  PROVE  /\ \A s \in 1..Len(Sends(f)) : Sends(f)[s] = Sends(f)[1]
         /\ 1 \in 1..Len(Sends(f)) /\ Kinds(f) = {Handlers[Sends(f)[1]].kind}
  BY DEF Named, Kinds

LEMMA NameMeantAfter ==
  ASSUME Life, [Next]_vars, NEW q \in RequestIds, OpMeant(q), NameMeant(q)
  PROVE  NameMeant(q)'
  <1> DEFINE new == request'[q]
             name == NameOf(Sends(q[1])[1])
             op == Sends(q[1])[1]
  <1>0. Move(q) /\ RequestOK(q) /\ OpMeant(q)'
    BY Moves, OpMeantAfter DEF Life
  <1> SUFFICES ASSUME new.phase = "running", Named(q[1])
               PROVE  /\ name \in DOMAIN new.columns /\ new.op = op
                      /\ new.columns[name] = FormFor(q).columns[name]
                      /\ new.op # "createCompany" /\ new.at >= 3 => new.company = FormFor(q).into
    BY DEF NameMeant, FormFor
  <1>1. op \in NamedCreations /\ name \in DOMAIN FormOf[q[1]].columns /\ name # "sourceFile"
    BY DEF Named, NameOf
  <1>2. new.op = op
    BY <1>0, NamedPage DEF OpMeant
  <1>3. CASE Stays(q)
    BY <1>2, <1>3 DEF Stays, NameMeant
  <1>4. CASE Starts(q)
    <2>1. AsFilledIn(q)
      BY <1>4, StartedAsFilledIn
    <2> QED
      BY <1>1, <1>2, <1>4, <2>1 DEF AsFilledIn, Starts, FormFor
  <1>5. CASE Goes(q)
    <2>0. /\ request[q].phase = "running" /\ request[q].op = op
          /\ new.at = request[q].at + 1 /\ request[q].at \in 1..8
          /\ TableEntry(request[q].op) /\ StatementAt(request[q].op, request[q].at)
      BY <1>0, <1>2, <1>5, GoingOnFields DEF Goes
    <2>1. /\ name \in DOMAIN request[q].columns
          /\ request[q].columns[name] = FormFor(q).columns[name]
          /\ op # "createCompany" /\ request[q].at >= 3 => request[q].company = FormFor(q).into
      BY <2>0 DEF NameMeant
    <2>2. CASE Does(request[q].op)[request[q].at] = "check"
      <3>1. new.columns = Completed(q) /\ new.company = CompanyFor(q)
        BY <1>5, <2>2, CheckPassed
      <3>2. Completed(q) = request[q].columns
        BY <1>1, <2>0 DEF Completed, NamedCreations
      <3>3. op # "createCompany" => CompanyFor(q) = FormFor(q).into
        BY <1>1, <2>0, NamedHandlers DEF CompanyFor, HandlerOf
      <3> QED
        BY <1>2, <2>1, <3>1, <3>2, <3>3
    <2>3. CASE Does(request[q].op)[request[q].at] # "check"
      <3>1. new.columns = request[q].columns
        BY <1>0, <1>5, <2>3, GoingOnFields
      <3>2. new.at >= 3 => /\ request[q].at >= 3
                           /\ Does(request[q].op)[request[q].at] # "guard"
        BY <1>1, <2>0, <2>3 DEF StatementAt, Unchecked, InsertPlace, FilePlace, Filing, Drafting,
                               NamedCreations
      <3>3. new.at >= 3 => new.company = request[q].company
        BY <1>0, <1>5, <2>3, <3>2, GoingOnFields
      <3> QED
        BY <1>2, <2>1, <3>1, <3>2, <3>3
    <2> QED
      BY <2>2, <2>3
  <1>6. CASE Ends(q)
    BY <1>6 DEF Ends
  <1> QED
    BY <1>0, <1>3, <1>4, <1>5, <1>6 DEF Move

LEMMA MadeAfter ==
  ASSUME Life, OnceOK, [Next]_vars, NEW i \in DOMAIN rows'
  PROVE  Made(i)'
  <1> DEFINE q == <<i[1], i[2]>>
  <1>0. RequestIds' = RequestIds
    BY Moves DEF RequestIds
  <1>1. CASE i \in DOMAIN rows
    <2>1. Made(i)
      BY <1>1 DEF OnceOK
    <2> QED
      BY <1>0, <2>1, OpStays DEF Made
  <1>2. CASE i \notin DOMAIN rows
    <2>1. PICK p \in Running : i = NewId(p, i[3]) /\ Creates(request[p].op, request[p].at, i[3])
      BY <1>2, NewRowsBy
    <2>2. /\ p \in RequestIds /\ request[p].phase = "running"
          /\ request[p].at \in 1..Len(Does(request[p].op))
      BY RunningFacts
    <2>3. p = q
      BY <2>1, <2>2, NewIds, RequestPairs
    <2>4. request'[p].phase # "none" /\ request'[p].op = request[p].op
      BY <2>2, OpStays
    <2>5. Makes(request'[p].op, i[3])
      BY <2>1, <2>2, <2>4 DEF Makes
    <2> HIDE DEF q
    <2> QED
      BY <1>0, <2>2, <2>3, <2>4, <2>5 DEF Made, q
  <1> QED
    BY <1>1, <1>2

\* A new row has the code it was asked for.
LEMMA NamedRow ==
  ASSUME NEW q, request[q].op \in NamedCreations,
         NameOf(request[q].op) \in DOMAIN request[q].columns
  PROVE  LET name == NameOf(request[q].op)
         IN  name \in DOMAIN NewRow(q) /\ NewRow(q)[name] = request[q].columns[name]
  <1> DEFINE name == NameOf(request[q].op)
             kind == HandlerOf(q).kind
             kept == [c \in DOMAIN request[q].columns \ {"attachments"} |-> request[q].columns[c]]
             common == Over([kind |-> kind, company |-> request[q].company], kept)
  <1>1. /\ kind \in {"Company", "LegalEntity", "BusinessSite", "Department", "Employee"}
        /\ kind = "Employee" => name = "employeeNumber"
        /\ kind # "Employee" => name = "code"
    BY NamedHandlers DEF HandlerOf, NameOf
  <1>2. name \in DOMAIN common /\ common[name] = request[q].columns[name]
    BY <1>1 DEF Over
  <1>3. \/ NewRow(q) = common
        \/ kind = "Company" /\ NewRow(q) = Over([company |-> NewId(q, kind)], common)
        \/ /\ kind = "Employee"
           /\ NewRow(q) = Over([user |-> "", employmentStatus |-> "ACTIVE"], common)
    BY <1>1 DEF NewRow
  <1> HIDE DEF common, kind, name
  <1>4. ASSUME NEW more, name \notin DOMAIN more
        PROVE  name \in DOMAIN Over(more, common) /\ Over(more, common)[name] = common[name]
    BY <1>2, <1>4 DEF Over
  <1>5. CASE NewRow(q) = common
    BY <1>2, <1>5 DEF name
  <1>6. CASE kind = "Company" /\ NewRow(q) = Over([company |-> NewId(q, kind)], common)
    BY <1>1, <1>2, <1>4, <1>6 DEF name
  <1>7. CASE /\ kind = "Employee"
             /\ NewRow(q) = Over([user |-> "", employmentStatus |-> "ACTIVE"], common)
    <2>1. name \notin DOMAIN [user |-> "", employmentStatus |-> "ACTIVE"]
      BY <1>1, <1>7
    <2>2. name \in DOMAIN NewRow(q) /\ NewRow(q)[name] = common[name]
      BY <1>4, <1>7, <2>1
    <2> QED
      BY <1>2, <2>2 DEF name
  <1> QED
    BY <1>3, <1>5, <1>6, <1>7

\* No handler and no delete changes a code or a number as it does a reference.
LEMMA NamesAreNoReferences ==
  ASSUME NEW r \in References
  PROVE  r.column \notin {"code", "employeeNumber"}
  BY DEF References, OrganisationReferences, DocumentReferences, RequestReferences,
         ClaimReferences, FinanceReferences, JobReferences, PolicyReferences,
         Reference

\* The rows of the form after the step.
RowsOfFormNext(f) == {i \in DOMAIN rows' : i[3] \in Kinds(f) /\ i[1] = f /\ i[2] # 0}

\* Only an edit could change the code of a row, and no edit is of a row of a form.
LEMMA TitleKept ==
  ASSUME EditsAreOfOldRows, Life, RowsOK, Fresh, OnceOK, [Next]_vars, NEW f, Named(f),
         NEW i \in RowsOfForm(f), i \in DOMAIN rows', Titled(f, rows[i])
  PROVE  Titled(f, rows'[i])
  <1> DEFINE name == NameOf(Sends(f)[1])
  <1>1. /\ i \in DOMAIN rows /\ i[2] # 0 /\ i = <<i[1], i[2], i[3]>>
        /\ i[3] \in {"Company", "LegalEntity", "BusinessSite", "Department", "Employee"}
    BY NamedPage, NamedHandlers DEF RowsOfForm, RowsOK, Named
  <1>2. OldRowKept(i) /\ rows'[i].company = rows[i].company
    BY <1>1, RowsOverTime DEF OldRowKept
  <1>3. ASSUME NEW q \in Running, Update(q), i = TargetOf(q)
        PROVE  FALSE
    <2>1. /\ q \in RequestIds /\ request[q].op \in Ops /\ request[q].phase = "running"
          /\ StatementAt(request[q].op, request[q].at)
      BY RunningFacts
    <2>2. Does(request[q].op)[request[q].at] = "update"
      BY <1>3 DEF Update, At, HandlerOf, Does
    <2>3. request[q].op \in Changing
      BY <2>1, <2>2 DEF StatementAt
    <2>4. PICK s \in 1..Len(Sends(q[1])) : request[q].op = Sends(q[1])[s]
      BY <2>1 DEF OnceOK, OpMeant
    <2>5. q[1] \in DOMAIN FormOf
      BY <2>1, RequestPairs DEF Life
    <2>6. i = <<>> \/ i[2] = 0
      BY <1>3, <2>3, <2>4, <2>5 DEF EditsAreOfOldRows, TargetOf, FormFor
    <2>7. i # <<>>
      BY <1>1
    <2> QED
      BY <1>1, <2>6, <2>7
  <1>4. DOMAIN rows'[i] = DOMAIN rows[i] /\ \A c \in DOMAIN rows[i] : ColumnKept(i, c)
    BY <1>2, <1>3 DEF OldRowKept
  <1>5. name \in DOMAIN rows[i] /\ name \in {"code", "employeeNumber"}
    BY DEF Titled, NameOf
  <1>6. rows'[i][name] = rows[i][name]
    BY <1>1, <1>4, <1>5, NamesAreNoReferences DEF ColumnKept
  <1> QED
    BY <1>2, <1>4, <1>6 DEF Titled

\* A row that is new has the code of its form, and no other row had it.
LEMMA NewTitle ==
  ASSUME Life, RowsOK, Fresh, OnceOK, [Next]_vars, NEW f \in Forms, Named(f),
         NEW i \in RowsOfFormNext(f), i \notin DOMAIN rows
  PROVE  /\ Titled(f, rows'[i]) /\ RowsOfForm(f) = {}
         /\ DOMAIN rows' = DOMAIN rows \cup {i}
  <1> DEFINE op == Sends(f)[1]
             name == NameOf(op)
             kind == Handlers[op].kind
  <1>0. /\ i \in DOMAIN rows' /\ rows' # rows /\ i[3] = kind /\ i[1] = f
        /\ op \in NamedCreations
        /\ kind \in {"Company", "LegalEntity", "BusinessSite", "Department", "Employee"}
    BY NamedPage, NamedHandlers DEF RowsOfFormNext, Named
  <1>1. PICK q \in Running : /\ Statement(q) /\ i = NewId(q, i[3])
                             /\ Creates(request[q].op, request[q].at, i[3])
    BY <1>0, NewRowsBy
  <1>2. /\ q \in RequestIds /\ TableEntry(request[q].op) /\ request[q].phase = "running"
        /\ {"kind", "company"} \cap DOMAIN request[q].columns = {}
        /\ request[q].at \in 1..8 /\ StatementAt(request[q].op, request[q].at)
    BY RunningFacts
  <1>3. q[1] = f /\ request[q].op = op
    <2>1. q[1] = f
      BY <1>0, <1>1, NewIds
    <2> QED
      BY <1>2, <2>1, NamedPage DEF OnceOK, OpMeant
  <1>4. Does(request[q].op)[request[q].at] = "insert" /\ HandlerOf(q).kind = kind
    BY <1>0, <1>1, <1>3 DEF Creates, HandlerOf
  <1>5. Insert(q)
    BY <1>1, <1>4, WhichStatement
  <1>6. Storable(rows, i, NewRow(q)) /\ rows' = Stored(rows, i, NewRow(q))
    BY <1>0, <1>1, <1>4, <1>5 DEF Insert, Write
  <1>7. /\ name \in DOMAIN request[q].columns
        /\ request[q].columns[name] = FormOf[f].columns[name]
        /\ op # "createCompany" => request[q].company = FormOf[f].into
    <2>1. request[q].at >= 3
      BY <1>0, <1>2, <1>3, <1>4 DEF StatementAt, InsertPlace, NamedCreations
    <2> QED
      BY <1>2, <1>3, <2>1 DEF OnceOK, NameMeant, FormFor
  <1>8. /\ name \in DOMAIN NewRow(q) /\ NewRow(q)[name] = FormOf[f].columns[name]
        /\ op # "createCompany" => NewRow(q).company = FormOf[f].into
        /\ NewRow(q).kind = kind
    <2>1. op # "createCompany" => kind \notin {"UserSession", "Company"}
      BY <1>0, NamedHandlers
    <2> QED
      BY <1>0, <1>2, <1>3, <1>4, <1>7, <2>1, NamedRow, NewRows
  <1>9. Titled(f, rows'[i])
    BY <1>6, <1>8 DEF Titled, Stored
  <1>10. ASSUME NEW j \in RowsOfForm(f)
         PROVE  FALSE
    <2>1. j \in DOMAIN rows /\ j # i /\ rows[j].kind = kind
      BY NamedPage DEF RowsOfForm, RowsOK, WellFormed
    <2>2. Titled(f, rows[j])
      BY DEF OnceOK, NamedOnce
    <2>3. UniqueColumns(kind) = {name} \cup (IF op = "createCompany" THEN {} ELSE {"company"})
      BY <1>0, NamedHandlers
    <2>4. \A c \in UniqueColumns(kind) : rows[j][c] = NewRow(q)[c]
      BY <1>8, <2>2, <2>3 DEF Titled
    <2>5. Clashes(rows, i, NewRow(q))
      BY <1>8, <2>1, <2>3, <2>4 DEF Clashes
    <2> QED
      BY <1>6, <2>5 DEF Storable
  <1> QED
    BY <1>6, <1>9, <1>10 DEF Stored

LEMMA NamedOnceAfter ==
  ASSUME EditsAreOfOldRows, Life, RowsOK, Fresh, OnceOK, [Next]_vars, NEW f \in Forms, Named(f)
  PROVE  NamedOnce(f)'
  <1>0. NamedOnce(f)
    BY DEF OnceOK
  <1>1. ASSUME NEW i \in RowsOfFormNext(f), i \in DOMAIN rows
        PROVE  i \in RowsOfForm(f) /\ Titled(f, rows'[i])
    <2>1. i \in RowsOfForm(f) /\ i \in DOMAIN rows'
      BY <1>1 DEF RowsOfForm, RowsOfFormNext
    <2> QED
      BY <1>0, <2>1, TitleKept DEF NamedOnce
  <1>2. \A i \in RowsOfFormNext(f) : Titled(f, rows'[i])
    BY <1>1, NewTitle
  <1>3. ASSUME NEW i \in RowsOfFormNext(f), NEW j \in RowsOfFormNext(f)
        PROVE  i = j
    <2>1. CASE i \in DOMAIN rows /\ j \in DOMAIN rows
      BY <1>0, <1>1, <2>1 DEF NamedOnce
    <2>2. ASSUME i \notin DOMAIN rows
          PROVE  i = j
      <3>1. RowsOfForm(f) = {} /\ DOMAIN rows' = DOMAIN rows \cup {i}
        BY <2>2, NewTitle
      <3> QED
        BY <1>1, <3>1 DEF RowsOfFormNext
    <2>3. ASSUME j \notin DOMAIN rows
          PROVE  i = j
      <3>1. RowsOfForm(f) = {} /\ DOMAIN rows' = DOMAIN rows \cup {j}
        BY <2>3, NewTitle
      <3> QED
        BY <1>1, <3>1 DEF RowsOfFormNext
    <2> QED
      BY <2>1, <2>2, <2>3
  <1> QED
    BY <1>2, <1>3 DEF NamedOnce, RowsOfForm, RowsOfFormNext, Titled

(***************************************************************************)
(* Pages that lock their button.                                           *)
(***************************************************************************)
LEMMA SentForFinite ==
  ASSUME Life, NEW f \in Forms, NEW s
  PROVE  IsFiniteSet(SentFor(f, s)) /\ Cardinality(SentFor(f, s)) \in Nat
  <1>1. page[f].sent \in Nat
    BY DEF Life, PageOK
  <1>2. IsFiniteSet(1..page[f].sent)
    BY <1>1, FS_Interval
  <1>3. SentFor(f, s) \in SUBSET (1..page[f].sent)
    BY DEF SentFor
  <1> QED
    BY <1>2, <1>3, FS_Subset, FS_CardinalityType

LEMMA FormsStay ==
  ASSUME [Next]_vars
  PROVE  Forms' = Forms
  <1>1. \A q : Statement(q) => UNCHANGED page
    BY StatementFrame
  <1>2. ASSUME NEW f \in Forms,
               \/ Press(f)
               \/ \E n \in page[f].awaits :
                    SendNext(f, n) \/ Succeed(f, n) \/ ShowError(f, n) \/ TimeOut(f, n)
        PROVE  Forms' = Forms
    BY <1>2 DEF Press, SendNext, Succeed, ShowError, TimeOut, Shows, Forms
  <1> QED
    BY <1>1, <1>2 DEF Next, Fail, Expire, Stop, vars, Forms

\* What a step may do to the page of a form.
LEMMA PageSteps ==
  ASSUME [Next]_vars, NEW f \in Forms
  PROVE  \/ UNCHANGED page[f] /\ f \in Forms'
         \/ Press(f)
         \/ \E n \in page[f].awaits :
              SendNext(f, n) \/ Succeed(f, n) \/ ShowError(f, n) \/ TimeOut(f, n)
  <1>1. ASSUME NEW g \in Forms \ {f},
               \/ Press(g)
               \/ \E n \in page[g].awaits :
                    SendNext(g, n) \/ Succeed(g, n) \/ ShowError(g, n) \/ TimeOut(g, n)
        PROVE  UNCHANGED page[f] /\ f \in Forms'
    BY <1>1 DEF Press, SendNext, Succeed, ShowError, TimeOut, Shows, Forms
  <1>2. ASSUME NEW q, Statement(q) \/ Fail(q)
        PROVE  UNCHANGED page
    BY <1>2, StatementFrame DEF Fail
  <1>3. ASSUME NEW session, Expire(session)
        PROVE  UNCHANGED page
    BY <1>3 DEF Expire
  <1>4. CASE Stop
    BY <1>4 DEF Stop, Forms
  <1>5. CASE UNCHANGED vars
    BY <1>5 DEF vars, Forms
  <1> QED
    BY <1>1, <1>2, <1>3, <1>4, <1>5 DEF Next, Forms

\* The operations of the requests that were sent before the step.
LEMMA SentOps ==
  ASSUME Life, [Next]_vars, NEW f \in Forms, NEW n \in 1..page[f].sent
  PROVE  request'[<<f, n>>].op = request[<<f, n>>].op
  <1>1. PageOK(f) /\ f \in DOMAIN FormOf
    BY DEF Life
  <1>2. page[f].sent \in Nat /\ FormOf[f].requests \in Nat /\ page[f].sent <= FormOf[f].requests
    BY <1>1, OpsOfPages DEF PageOK
  <1>3. n \in 1..FormOf[f].requests /\ ~(n > page[f].sent)
    BY <1>2
  <1>4. <<f, n>> \in RequestIds /\ request[<<f, n>>].phase # "none"
    BY <1>1, <1>3 DEF Life, PageOK
  <1> QED
    BY <1>4, OpStays

LEMMA SentForKept ==
  ASSUME Life, [Next]_vars, NEW f \in Forms, NEW s, page'[f].sent = page[f].sent
  PROVE  SentFor(f, s)' = SentFor(f, s)
  BY SentOps DEF SentFor

LEMMA SentForGrows ==
  ASSUME Life, [Next]_vars, NEW f \in Forms, NEW s \in 1..Len(Sends(f)),
         NEW t \in 1..Len(Sends(f)), Sends(f)[s] = Sends(f)[t] => s = t,
         page'[f].sent = page[f].sent + 1, request'[<<f, page[f].sent + 1>>].op = Sends(f)[t]
  PROVE  /\ s # t => Cardinality(SentFor(f, s)') = Cardinality(SentFor(f, s))
         /\ Cardinality(SentFor(f, s)') <= Cardinality(SentFor(f, s)) + 1
         /\ Cardinality(SentFor(f, s)') \in Nat
  <1> DEFINE n == page[f].sent + 1
  <1>1. page[f].sent \in Nat
    BY DEF Life, PageOK
  <1>2. 1..n = 1..page[f].sent \cup {n}
    BY <1>1
  <1>3. SentFor(f, s)' = {m \in 1..n : request'[<<f, m>>].op = Sends(f)[s]}
    BY DEF SentFor
  <1>4. /\ request'[<<f, n>>].op = Sends(f)[t]
        /\ \A m \in 1..page[f].sent : request'[<<f, m>>].op = request[<<f, m>>].op
    BY SentOps
  <1> HIDE DEF n
  <1>5. SentFor(f, s)' = SentFor(f, s) \cup (IF s = t THEN {n} ELSE {})
    BY <1>2, <1>3, <1>4 DEF SentFor
  <1>6. IsFiniteSet(SentFor(f, s)) /\ Cardinality(SentFor(f, s)) \in Nat
    BY SentForFinite
  <1>7. CASE s = t
    <2>1. SentFor(f, s)' = SentFor(f, s) \cup {n}
      BY <1>5, <1>7
    <2>2. \/ Cardinality(SentFor(f, s) \cup {n}) = Cardinality(SentFor(f, s))
          \/ Cardinality(SentFor(f, s) \cup {n}) = Cardinality(SentFor(f, s)) + 1
      BY <1>6, FS_AddElement
    <2> QED
      BY <1>6, <1>7, <2>1, <2>2
  <1>8. CASE s # t
    <2>1. SentFor(f, s)' = SentFor(f, s)
      BY <1>5, <1>8
    <2> QED
      BY <1>6, <2>1
  <1> QED
    BY <1>7, <1>8

\* A page that sends a request waits for that one only, for the step it has come to.
LEMMA LockedSends ==
  ASSUME Life, [Next]_vars, NEW f \in Forms, Locked(f), LockedOnce(f), page[f].filled,
         NEW t \in 1..Len(Sends(f)),
         page'[f].filled, page'[f].errors = page[f].errors,
         page'[f].sent = page[f].sent + 1, page'[f].step = t,
         page'[f].awaits = {page[f].sent + 1},
         request'[<<f, page[f].sent + 1>>].op = Sends(f)[t],
         \/ t = 1 /\ page[f].awaits = {}
         \/ t = page[f].step + 1 /\ page[f].awaits # {}
  PROVE  LockedOnce(f)'
  <1>1. page[f].errors \in Nat /\ page[f].step \in Nat /\ Len(Sends(f)) \in Nat
    <2>1. page[f] \in PageRecord /\ f \in DOMAIN FormOf
      BY DEF Life, PageOK, PageRecord
    <2> QED
      BY <2>1, OpsOfPages DEF PageRecord
  <1>2. ASSUME NEW s \in 1..Len(Sends(f))
        PROVE  Cardinality(SentFor(f, s)') <= page'[f].errors + (IF t >= s THEN 1 ELSE 0)
    <2>1. /\ Cardinality(SentFor(f, s)) <= page[f].errors + Underway(f, s)
          /\ Cardinality(SentFor(f, s)) \in Nat
      BY SentForFinite DEF LockedOnce
    <2>2. Sends(f)[s] = Sends(f)[t] => s = t
      BY DEF Locked
    <2>3. /\ s # t => Cardinality(SentFor(f, s)') = Cardinality(SentFor(f, s))
          /\ Cardinality(SentFor(f, s)') <= Cardinality(SentFor(f, s)) + 1
          /\ Cardinality(SentFor(f, s)') \in Nat
      BY <2>2, SentForGrows
    <2>4. Underway(f, s) = IF page[f].awaits # {} /\ page[f].step >= s THEN 1 ELSE 0
      BY DEF Underway
    <2>5. CASE s = t
      <3>1. Underway(f, s) = 0
        BY <1>1, <2>4, <2>5
      <3> QED
        BY <1>1, <2>1, <2>3, <2>5, <3>1
    <2>6. CASE s # t
      <3>1. Underway(f, s) = 1 => t >= s
        BY <1>1, <2>4
      <3>2. Underway(f, s) \in {0, 1}
        BY <2>4
      <3> QED
        BY <1>1, <2>1, <2>3, <2>6, <3>1, <3>2
    <2> QED
      BY <2>5, <2>6
  <1>3. \A s \in 1..Len(Sends(f)) : Underway(f, s)' = IF t >= s THEN 1 ELSE 0
    BY <1>1 DEF Underway
  <1> QED
    BY <1>1, <1>2, <1>3 DEF LockedOnce

LEMMA LockedOnceAfter ==
  ASSUME Life, [Next]_vars, NEW f \in Forms, FormOf[f].page.empties, Locked(f), LockedOnce(f)
  PROVE  LockedOnce(f)'
  <1>0. /\ f \in DOMAIN FormOf /\ f \in DOMAIN page /\ page[f] \in PageRecord
        /\ FormOf[f].page.locks /\ Len(Sends(f)) \in Nat \ {0}
        /\ page[f].step \in 1..Len(Sends(f))
    BY OpsOfPages DEF Life, Forms, PageOK, PageRecord, Locked
  <1>a. ASSUME NEW s
        PROVE  Cardinality(SentFor(f, s)) \in Nat
    BY SentForFinite
  <1>1. CASE UNCHANGED page[f]
    <2>1. \A s : SentFor(f, s)' = SentFor(f, s)
      BY <1>1, SentForKept
    <2> QED
      BY <1>1, <2>1 DEF LockedOnce, Underway
  <1>2. CASE Press(f)
    <2> DEFINE n == page[f].sent + 1
    <2>1. page[f].awaits = {} /\ page[f].filled
      BY <1>0, <1>2 DEF Press
    <2>2. /\ page'[f].filled /\ page'[f].errors = page[f].errors /\ page'[f].sent = n
          /\ page'[f].step = 1 /\ page'[f].awaits = {n}
      <3>1. page'[f] = [page[f] EXCEPT !.sent = n, !.step = 1, !.awaits = {n}]
        BY <1>0, <1>2, <2>1 DEF Press
      <3> QED
        BY <1>0, <2>1, <3>1 DEF PageRecord
    <2>3. request'[<<f, n>>].op = Sends(f)[1]
      <3>1. /\ <<f, n>> \in DOMAIN request
            /\ Sent(f, n, 1, FormOf[f].columns)
        BY <1>2, PressSends DEF SentBy, RequestIds
      <3>2. PICK session \in SessionsAt(f) :
              request' = [request EXCEPT ![<<f, n>>] =
                 [Idle EXCEPT !.phase = "running", !.op = Sends(f)[1],
                              !.columns = FormOf[f].columns, !.session = session]]
        BY <3>1, Zenon DEF Sent
      <3>3. request'[<<f, n>>] = [Idle EXCEPT !.phase = "running", !.op = Sends(f)[1],
                                    !.columns = FormOf[f].columns, !.session = session]
        BY <3>1, <3>2
      <3> QED
        BY <3>3 DEF Idle
    <2>4. 1 \in 1..Len(Sends(f))
      BY <1>0
    <2> QED
      BY <2>1, <2>2, <2>3, <2>4, LockedSends
  <1>3. ASSUME NEW m \in page[f].awaits, SendNext(f, m)
        PROVE  LockedOnce(f)'
    <2> DEFINE n == page[f].sent + 1
               columns == Over([sourceFile |-> {request[<<f, m>>].row}], FormOf[f].columns)
               step == page[f].step + 1
    <2>1. page[f].awaits # {} /\ page[f].filled /\ m = page[f].sent
      BY DEF LockedOnce
    <2>2. /\ page'[f].filled /\ page'[f].errors = page[f].errors /\ page'[f].sent = n
          /\ page'[f].step = step /\ page'[f].awaits = {n}
      <3>1. page'[f] = [page[f] EXCEPT !.sent = n, !.step = step, !.awaits = {n}]
        BY <1>0, <1>3, <2>1 DEF SendNext
      <3> QED
        BY <1>0, <2>1, <3>1 DEF PageRecord
    <2>3. /\ <<f, n>> \in DOMAIN request /\ step \in 1..Len(Sends(f))
          /\ Sent(f, n, step, columns)
      BY <1>3, <2>1, NextSends DEF SentBy, RequestIds
    <2> HIDE DEF columns
    <2>4. request'[<<f, n>>].op = Sends(f)[step]
      BY <2>3 DEF Sent, Idle
    <2> QED
      BY <2>1, <2>2, <2>3, <2>4, LockedSends
  <1>4. ASSUME NEW n \in page[f].awaits, Succeed(f, n)
        PROVE  LockedOnce(f)'
    <2>1. /\ page'[f] = [page[f] EXCEPT !.awaits = @ \ {n},
                                        !.filled = @ /\ ~FormOf[f].page.empties]
          /\ page[f].step = Len(Sends(f))
      BY <1>0, <1>4 DEF Succeed
    <2>a. page[f].awaits \ {n} = {}
      BY DEF LockedOnce
    <2>2. /\ page'[f].sent = page[f].sent /\ page'[f].awaits = {} /\ ~page'[f].filled
          /\ page'[f].errors = page[f].errors /\ page[f].errors \in Nat
      BY <1>0, <2>1, <2>a DEF PageRecord
    <2>3. \A s : SentFor(f, s)' = SentFor(f, s)
      BY <2>2, SentForKept
    <2>4. \A s \in 1..Len(Sends(f)) : Cardinality(SentFor(f, s)) <= page[f].errors + 1
      <3> TAKE s \in 1..Len(Sends(f))
      <3>1. Cardinality(SentFor(f, s)) <= page[f].errors + Underway(f, s)
        BY DEF LockedOnce
      <3>2. Underway(f, s) \in {0, 1} /\ Cardinality(SentFor(f, s)) \in Nat
        BY <1>a DEF Underway
      <3> QED
        BY <2>2, <3>1, <3>2
    <2>5. \A s : Underway(f, s)' = 1
      BY <2>2 DEF Underway
    <2> QED
      BY <2>2, <2>3, <2>4, <2>5 DEF LockedOnce
  <1>5. ASSUME NEW n \in page[f].awaits, ShowError(f, n) \/ TimeOut(f, n)
        PROVE  LockedOnce(f)'
    <2>1. page'[f] = [page[f] EXCEPT !.awaits = @ \ {n}, !.errors = @ + 1]
      BY <1>0, <1>5 DEF ShowError, TimeOut, Shows
    <2>a. page[f].awaits \ {n} = {} /\ page[f].filled
      BY DEF LockedOnce
    <2>2. /\ page'[f].sent = page[f].sent /\ page'[f].awaits = {}
          /\ page'[f].filled = page[f].filled /\ page[f].filled
          /\ page'[f].errors = page[f].errors + 1 /\ page[f].errors \in Nat
      BY <1>0, <2>1, <2>a DEF PageRecord
    <2>3. \A s : SentFor(f, s)' = SentFor(f, s)
      BY <2>2, SentForKept
    <2>4. \A s \in 1..Len(Sends(f)) : Cardinality(SentFor(f, s)) <= page[f].errors + 1
      <3> TAKE s \in 1..Len(Sends(f))
      <3>1. Cardinality(SentFor(f, s)) <= page[f].errors + Underway(f, s)
        BY DEF LockedOnce
      <3>2. Underway(f, s) \in {0, 1} /\ Cardinality(SentFor(f, s)) \in Nat
        BY <1>a DEF Underway
      <3> QED
        BY <2>2, <3>1, <3>2
    <2>5. \A s : Underway(f, s)' = 0
      BY <2>2 DEF Underway
    <2> QED
      BY <2>2, <2>3, <2>4, <2>5 DEF LockedOnce
  <1> QED
    BY <1>1, <1>2, <1>3, <1>4, <1>5, PageSteps

LEMMA OnceStep ==
  ASSUME EditsAreOfOldRows, Life, RowsOK, Fresh, OnceOK, [Next]_vars
  PROVE  OnceOK'
  <1>0. RequestIds' = RequestIds /\ Forms' = Forms
    BY Moves, FormsStay DEF RequestIds
  <1>1. \A q \in RequestIds : OpMeant(q)' /\ NameMeant(q)'
    BY OpMeantAfter, NameMeantAfter DEF OnceOK
  <1>2. \A i \in DOMAIN rows' : Made(i)'
    BY MadeAfter
  <1>3. \A f \in Forms : /\ Named(f) => NamedOnce(f)'
                         /\ FormOf[f].page.empties /\ Locked(f) => LockedOnce(f)'
    BY NamedOnceAfter, LockedOnceAfter DEF OnceOK
  <1> QED
    BY <1>0, <1>1, <1>2, <1>3 DEF OnceOK

\* The rows of a locked page: not more than the requests that were sent for them.
LEMMA RowsOfRequests ==
  ASSUME Life, RowsOK, OnceOK, NEW f \in Forms, Locked(f), NEW s \in 1..Len(Sends(f))
  PROVE  LET R == {i \in Of(Handlers[Sends(f)[s]].kind) : i[1] = f /\ i[2] # 0}
         IN  Cardinality(R) \in Nat /\ Cardinality(R) <= Cardinality(SentFor(f, s))
  <1> DEFINE kind == Handlers[Sends(f)[s]].kind
             R == {i \in Of(kind) : i[1] = f /\ i[2] # 0}
             number == [i \in R |-> i[2]]
  <1>1. ASSUME NEW i \in R
        PROVE  i = <<f, i[2], kind>> /\ i[2] \in SentFor(f, s)
    <2>1. i = <<f, i[2], kind>> /\ i \in DOMAIN rows /\ i[2] # 0 /\ i[3] = kind /\ i[1] = f
      BY DEF Of, OfKind, RowsOK
    <2>2. /\ <<f, i[2]>> \in RequestIds /\ request[<<f, i[2]>>].phase # "none"
          /\ Makes(request[<<f, i[2]>>].op, kind)
      BY <2>1 DEF OnceOK, Made
    <2>3. PICK t \in 1..Len(Sends(f)) : request[<<f, i[2]>>].op = Sends(f)[t]
      BY <2>2 DEF OnceOK, OpMeant
    <2>4. request[<<f, i[2]>>].op = Sends(f)[s]
      BY <2>2, <2>3 DEF Locked
    <2>5. i[2] \in 1..page[f].sent
      <3>1. i[2] \in 1..FormOf[f].requests
        BY <2>2 DEF Life
      <3>2. ~(i[2] > page[f].sent)
        BY <2>2, <3>1 DEF Life, PageOK
      <3>3. page[f].sent \in Nat /\ FormOf[f].requests \in Nat
        BY OpsOfPages DEF Life, PageOK
      <3> QED
        BY <3>1, <3>2, <3>3
    <2> QED
      BY <2>1, <2>4, <2>5 DEF SentFor
  <1> HIDE DEF R
  <1>2. number \in [R -> SentFor(f, s)]
    BY <1>1
  <1>3. IsInjective(number)
    <2> SUFFICES ASSUME NEW i \in R, NEW j \in R, i[2] = j[2]
                 PROVE  i = j
      BY DEF IsInjective
    <2> QED
      BY <1>1
  <1>4. number \in Injection(R, SentFor(f, s))
    BY <1>2, <1>3 DEF Injection
  <1>5. IsFiniteSet(R) /\ Cardinality(R) <= Cardinality(SentFor(f, s))
    BY <1>4, SentForFinite, FS_Injection
  <1> QED
    BY <1>5, FS_CardinalityType DEF R

\* A form that goes away once it is stored is stored once, or once more for each error its user
\* was shown, however fast the button is pressed: the page locks it meanwhile, or the unique
\* index on the code refuses the second row.  This needs that a page has one of the two, as
\* those of the web client have, and that no row is renamed between two presses of its form.
THEOREM FormsAreStoredOnce ==
  ASSUME PagesGuard, EditsAreOfOldRows
  PROVE  Spec => []FormStoredOnce
  <1> DEFINE Inv == Life /\ RowsOK /\ Fresh /\ OnceOK
  <1>1. Init => Inv
    BY LifeInit, RowsInit, FreshInit, OnceInit
  <1>2. Inv /\ [Next]_vars => Inv'
    BY LifeStep, RowsStep, FreshStep, OnceStep
  <1>3. Inv => FormStoredOnce
    <2> SUFFICES ASSUME Life, RowsOK, OnceOK, NEW f \in Forms, FormOf[f].page.empties,
                        NEW s \in DOMAIN Sends(f)
                 PROVE  Cardinality({i \in Of(Handlers[Sends(f)[s]].kind) :
                                       i[1] = f /\ i[2] # 0}) <= 1 + page[f].errors
      BY DEF FormStoredOnce
    <2> DEFINE kind == Handlers[Sends(f)[s]].kind
               R == {i \in Of(kind) : i[1] = f /\ i[2] # 0}
    <2>1. /\ f \in DOMAIN FormOf /\ page[f].errors \in Nat
      BY DEF Life, PageOK
    <2>2. s \in 1..Len(Sends(f))
      BY <2>1, CatalogueAssumption DEF Sends
    <2>3. R = RowsOfForm(f) \cap Of(kind) /\ kind \in Kinds(f)
      BY <2>2 DEF RowsOfForm, Kinds, Of, OfKind
    <2>4. CASE Locked(f)
      <3>1. /\ Cardinality(R) \in Nat /\ Cardinality(R) <= Cardinality(SentFor(f, s))
            /\ Cardinality(SentFor(f, s)) \in Nat
        BY <2>2, <2>4, RowsOfRequests, SentForFinite
      <3>2. Cardinality(SentFor(f, s)) <= page[f].errors + Underway(f, s)
        BY <2>2, <2>4 DEF OnceOK, LockedOnce
      <3>3. Underway(f, s) \in {0, 1}
        BY DEF Underway
      <3> HIDE DEF R
      <3>4. Cardinality(R) <= 1 + page[f].errors
        BY <2>1, <3>1, <3>2, <3>3
      <3> QED
        BY <3>4 DEF R
    <2>5. CASE Named(f)
      <3>1. \A i, j \in R : i = j
        BY <2>3, <2>5 DEF OnceOK, NamedOnce
      <3>2. R = {} \/ \E i : R = {i}
        BY <3>1
      <3>3. Cardinality(R) \in {0, 1}
        BY <3>2, FS_EmptySet, FS_Singleton
      <3> QED
        BY <2>1, <3>3
    <2>6. CASE Barren(f)
      <3>1. ASSUME NEW i \in R
            PROVE  FALSE
        <4>1. i \in DOMAIN rows /\ i[2] # 0 /\ i[3] = kind /\ i[1] = f
          BY DEF Of, OfKind
        <4>2. /\ <<f, i[2]>> \in RequestIds /\ request[<<f, i[2]>>].phase # "none"
              /\ Makes(request[<<f, i[2]>>].op, kind)
          BY <4>1 DEF OnceOK, Made
        <4>3. PICK t \in 1..Len(Sends(f)) : request[<<f, i[2]>>].op = Sends(f)[t]
          BY <4>2 DEF OnceOK, OpMeant
        <4> QED
          BY <2>3, <2>6, <4>2, <4>3 DEF Barren
      <3>2. Cardinality(R) = 0
        BY <3>1, FS_EmptySet
      <3> QED
        BY <2>1, <3>2
    <2> QED
      BY <2>1, <2>4, <2>5, <2>6 DEF PagesGuard
  <1> QED
    BY <1>1, <1>2, <1>3, PTL DEF Spec
====================================================================================
