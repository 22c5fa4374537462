CONSTANTS
  Nodes = {n1}
  Foreign = {f1}
  Trusted = {n1, f1}
  Lifetime = 1
  Networks <- MCNetworks
  MaxNc = 2
SPECIFICATION FairSpec
INVARIANTS
  TypeOK
  AcceptedOnceInOrder
  AcceptedInTime
  RegistrationsGrounded
PROPERTY RequestServed
CHECK_DEADLOCK FALSE
