CONSTANTS
  Peers = {p1}
  RegisterSlots = {r1}
  RefreshSlots = {f1}
  HeartBeatSlots = {h1}
  MaxThreads = 2
  MaxFaults = 2
SPECIFICATION FairSpec
INVARIANTS
  TypeOK
  SplitExplained
PROPERTY PeersReconcile
