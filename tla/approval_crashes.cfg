CONSTANTS
  member = member
  manager = manager
  director = director
  admin = admin
  e1 = e1
  e2 = e2
  e3 = e3
  NoEmployee = NoEmployee
  NoUser = NoUser
  EmployeeOf <- MCEmployeeOf
  Users = {member, manager, admin}
  Employees = {e1, e2}
  Admins = {admin}
  Orders = {1, 2}
  Types = {"APPROVE", "CONSULT", "CC", "RECEIVE"}
  Requests = {r1}
  Ops = {"createDocument", "addVersion", "create", "configure", "submit", "resubmit", "approve", "reject", "cancel"}
  RequestRoutings <- MCThreeRoutings
  OnePerUser = FALSE
  MaxCrashes = 2
SPECIFICATION RequestsSpec
PROPERTIES
  LoneSubmitRepairs
  LoneCancelCloses
