CONSTANTS
  member = member
  manager = manager
  director = director
  admin = admin
  e1 = e1
  e2 = e2
  e3 = e3
  NoEmployee = NoEmployee
  NoUser = NoUser
  EmployeeOf <- MCEmployeeOf
  Users = {member, manager}
  Employees = {e1, e2}
  Admins = {}
  Orders = {1, 2}
  Types = {"APPROVE", "CONSULT"}
  Requests = {r1, r2}
  Ops = {"approve", "reject"}
  RequestRoutings <- MCOneRouting
  OnePerUser = TRUE
  MaxCrashes = 0
SPECIFICATION SubmittedSpec
INVARIANTS
  TerminalOutcomeSynced
CHECK_DEADLOCK FALSE
