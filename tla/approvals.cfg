CONSTANTS
  member = member
  manager = manager
  admin = admin
  e1 = e1
  e2 = e2
  NoEmployee = NoEmployee
  Users <- MCUsers
  Employees <- MCEmployees
  EmployeeOf <- MCEmployeeOf
  Admins <- MCAdmins
  Orders = {1, 2, 4}
  Types = {"CONSULT", "CC"}
SPECIFICATION Spec
INVARIANTS
  TypeOK
  StepsMatchLine
  ApprovedByEveryApprover
  RequestFollowsLine
  DocumentFollowsLine
  InReviewHasOneInbox
PROPERTIES
  DecisionsStand
  ApprovedRequestRevokedOnlyFromDraft
