CONSTANTS
  Peers = {n1, n2}
  Configured = {n1, n2}
  Trusted = {n1}
  Nonces = {x1, x2, x3}
  MaxCommands = 2
  MaxFaults = 1
SPECIFICATION FairSpec
INVARIANTS
  TypeOK
  KeepaliveGrounded
PROPERTY PresenceRestored
CHECK_DEADLOCK FALSE
