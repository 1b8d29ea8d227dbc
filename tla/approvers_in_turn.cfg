CONSTANTS
  member = member
  manager = manager
  director = director
  admin = admin
  e1 = e1
  e2 = e2
  e3 = e3
  NoEmployee = NoEmployee
  NoUser = NoUser
  EmployeeOf <- MCEmployeeOf
  Users = {member, manager, director}
  Employees = {e1, e2, e3}
  Admins = {}
  Orders = {1, 2, 3, 4}
  Types = {"APPROVE", "AGREE", "RECEIVE"}
  Requests = {r1, r2, r3}
  Ops = {"approve", "reject"}
  RequestRoutings <- MCLongRouting
  OnePerUser = TRUE
  MaxCrashes = 0
SPECIFICATION SubmittedSpec
INVARIANTS
  SettledLineCoherent
CHECK_DEADLOCK FALSE
