CONSTANTS
  PortRanges <- MCPortRanges
  ConfiguredPorts <- MCConfiguredPorts
  ServerIds = {s1, s2}
  ClientIds = {c1, c2}
  Devices = {d1}
  NoDevice = NoDevice
  NoId = NoId
  MaxCseq = 2
SPECIFICATION Spec
SYMMETRY Symmetry
INVARIANTS
  TypeOK
  PoolPartition
  PortOwnership
  NoOrphanAdapter
  StreamsBacked
PROPERTY ImplementsPortLease
