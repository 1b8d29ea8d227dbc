----------------------------- MODULE ShiftPolicies -----------------------------
(***************************************************************************)
(* The shift policies of AttendanceService.  A policy row is never         *)
(* changed except for its isDefault column: createShiftPolicy and          *)
(* updateShiftPolicy both insert a version.  A request reads the version   *)
(* it counts from, and then runs a transaction that clears the defaults of *)
(* the caller's company, if the new version is to be the default, and      *)
(* inserts the row.  Under READ COMMITTED the clearing statement sees the  *)
(* rows committed before it began and none that another transaction        *)
(* commits before this one does.                                           *)
(*                                                                         *)
(* A shift is its minutes of the day.  Left out: names, the business site, *)
(* rulesJson, the role check and the audit row that follows the            *)
(* transaction.  The callers are members of every company.                 *)
(*                                                                         *)
(* "Mutant:" introduces a slip the code could contain.                     *)
(***************************************************************************)
EXTENDS Integers, FiniteSets, TLC

CONSTANTS
  Companies,
  PolicyCodes,
  Shifts,
  Creates,         \* what requests ask of createShiftPolicy
  Updates,         \* and of updateShiftPolicy
  PolicySlots,     \* slots for the policy requests in flight
  SeededPolicies,  \* the rows the seed leaves
  MaxVersion       \* the highest version a request may ask for or reach

PolicyKeys == Companies \X PolicyCodes \X (1..MaxVersion)
ShiftFields == [start : Int, end : Int, break : Int, grace : Int]
PolicyRows == [shift : Shifts, isDefault : BOOLEAN]

\* version = 0: the request leaves the version out.  asked = "same": the request leaves
\* isDefault out.
CreateInputs == [caller : Companies, code : PolicyCodes, version : 0..MaxVersion,
                 shift : Shifts, isDefault : BOOLEAN]
UpdateInputs == [caller : Companies, key : PolicyKeys, shift : Shifts,
                 asked : {"yes", "no", "same"}]

ASSUME ShiftPoliciesAssumption ==
  /\ MaxVersion \in Nat
  /\ Shifts \subseteq ShiftFields
  /\ Creates \subseteq CreateInputs /\ Updates \subseteq UpdateInputs
  /\ DOMAIN SeededPolicies \subseteq PolicyKeys
  /\ \A k \in DOMAIN SeededPolicies : SeededPolicies[k] \in PolicyRows

VARIABLES
  policies,       \* <<company, code, version>> -> the other columns of the row
  policyRequest   \* the local state of the request in each slot

policyVars == <<policies, policyRequest>>

\* key and row: what the request inserts.  caller: auth.companyId.
\* cleared: the rows its updateMany has found.
NoRequest == [pc |-> "idle"]
RequestAt(pcs) ==
  [pc : pcs, caller : Companies, key : PolicyKeys, row : PolicyRows,
   cleared : SUBSET PolicyKeys]

PolicyInit ==
  /\ policies = SeededPolicies
  /\ policyRequest = [s \in PolicySlots |-> NoRequest]

Versions(company, code) ==
  {v \in 1..MaxVersion : <<company, code, v>> \in DOMAIN policies}

\* The highest of them, or 0, in a set of one.
Latest(company, code) ==
  {v \in Versions(company, code) \cup {0} : \A w \in Versions(company, code) : w <= v}

\* The first statement of the transaction, if the default is to change.
Enter(s, caller, key, shift, clears, isDefault) ==
  policyRequest' = [policyRequest EXCEPT ![s] =
    [pc |-> IF clears THEN "clear" ELSE "insert", caller |-> caller, key |-> key,
     row |-> [shift |-> shift, isDefault |-> isDefault], cleared |-> {}]]

\* Without a version the next after the latest is taken.
BeginCreatePolicy(s, q) ==
  /\ policyRequest[s] = NoRequest
  /\ \E latest \in Latest(q.caller, q.code) :
       LET v == IF q.version = 0 THEN latest + 1 ELSE q.version
       IN  /\ v <= MaxVersion
           /\ Enter(s, q.caller, <<q.caller, q.code, v>>, q.shift, q.isDefault, q.isDefault)
  /\ UNCHANGED policies

\* The request names a row, which gives the new version its code and company, and
\* isDefault if the request leaves it out.
BeginUpdatePolicy(s, q) ==
  /\ policyRequest[s] = NoRequest
  /\ q.key \in DOMAIN policies
  /\ q.key[3] < MaxVersion
  /\ Enter(s, q.caller, <<q.key[1], q.key[2], q.key[3] + 1>>, q.shift, q.asked = "yes",
           IF q.asked = "same" THEN policies[q.key].isDefault ELSE q.asked = "yes")
  /\ UNCHANGED policies

ClearDefaults(s) ==
  /\ policyRequest[s].pc = "clear"
  /\ policyRequest' = [policyRequest EXCEPT ![s].pc = "insert", ![s].cleared =
       {k \in DOMAIN policies : k[1] = policyRequest[s].caller /\ policies[k].isDefault}]
  /\ UNCHANGED policies

WithVersion(r) ==
  [k \in DOMAIN policies \cup {r.key} |->
     IF k = r.key THEN r.row
     ELSE IF k \in r.cleared THEN [policies[k] EXCEPT !.isDefault = FALSE]
     ELSE policies[k]]

\* Mutant: an upsert instead of a create, which overwrites the version another
\* request has inserted (RecordedPolicyExplainsLedger).
UpsertVersion(s) ==
  /\ policyRequest[s].pc = "insert"
  /\ policies' = WithVersion(policyRequest[s])
  /\ policyRequest' = [policyRequest EXCEPT ![s] = NoRequest]

\* The insert and the commit: @@unique([companyId, code, version]) rolls all of it back.
InsertVersion(s) ==
  /\ policyRequest[s].pc = "insert"
  /\ policies' = IF policyRequest[s].key \in DOMAIN policies THEN policies
                 ELSE WithVersion(policyRequest[s])
  /\ policyRequest' = [policyRequest EXCEPT ![s] = NoRequest]

PolicyRequest ==
  \E s \in PolicySlots :
    \/ \E q \in Creates : BeginCreatePolicy(s, q)
    \/ \E q \in Updates : BeginUpdatePolicy(s, q)
    \/ ClearDefaults(s)
    \/ InsertVersion(s)

(***************************************************************************)
(* Properties.                                                             *)
(***************************************************************************)
PoliciesTypeOK ==
  /\ DOMAIN policies \subseteq PolicyKeys
  /\ \A k \in DOMAIN policies : policies[k] \in PolicyRows
  /\ policyRequest \in [PolicySlots -> {NoRequest} \cup RequestAt({"clear", "insert"})]
=============================================================================
