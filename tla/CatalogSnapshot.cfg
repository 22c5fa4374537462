CONSTANTS
  Peers = {p1}
  Devices = {d1, d2}
  NoPeer = NoPeer
  Faulty = FALSE
  MaxQueries = 1
  MaxEdits = 0
SPECIFICATION CatalogSpec
INVARIANT SnapshotIsWhole
CHECK_DEADLOCK FALSE
