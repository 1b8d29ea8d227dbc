CONSTANTS
  member = member
  manager = manager
  admin = admin
  e1 = e1
  e2 = e2
  NoEmployee = NoEmployee
  NoUser = NoUser
  EmployeeOf <- MCEmployeeOf
  Users = {member, manager, admin}
  Employees = {e1, e2}
  Admins = {admin}
  Orders = {1, 2}
  Types = {"CONSULT", "CC"}
  Requests = {r1}
  Ops = {"createDocument", "addVersion", "create", "configure", "submit", "resubmit", "approve", "reject", "cancel"}
  RequestRoutings <- MCRoutings
  OnePerUser = FALSE
  MaxCrashes = 0
SPECIFICATION SerialSpec
PROPERTIES
  ImplementsAtomicHandlers
