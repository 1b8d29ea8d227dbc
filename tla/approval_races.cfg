CONSTANTS
  member = member
  manager = manager
  director = director
  admin = admin
  e1 = e1
  e2 = e2
  e3 = e3
  NoEmployee = NoEmployee
  NoUser = NoUser
  EmployeeOf <- MCEmployeeOf
  Users = {member, manager}
  Employees = {e1, e2}
  Admins = {manager}
  Orders = {1, 2}
  Types = {"APPROVE", "CONSULT"}
  Requests = {r1, r2}
  Ops = {"configure", "submit", "resubmit", "approve", "reject", "cancel"}
  RequestRoutings <- MCTwoRoutings
  OnePerUser = FALSE
  MaxCrashes = 0
SYMMETRY MCSlotSymmetry
SPECIFICATION SubmittedSpec
INVARIANTS
  RequestsTypeOK
PROPERTIES
  LoneSubmitRepairs
  LoneCancelCloses
  AssignedApproverDecides
