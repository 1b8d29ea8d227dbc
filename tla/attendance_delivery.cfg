SPECIFICATION MCSpec
CONSTANTS
  FileRows <- MCFileRows
  BatchRows <- MCBatchRows
  UserOf <- MCUserOf
  NumberOf <- MCNumberOf
  NoNumber = ""
  Unmapped = {"whose"}
  Refused = {"bad"}
  Registered = {"7"}
  Slots = {1, 2}
  MaxWrites = 2
  MaxFaults = 3
INVARIANTS
  DeliveryTypeOK
  NothingForgotten
  AcceptedIsStored
PROPERTY
  DeliversUnlessLost
