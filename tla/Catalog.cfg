CONSTANTS
  Peers = {p1, p2}
  Devices = {d1, d2}
  NoPeer = NoPeer
  Faulty = TRUE
  MaxQueries = 2
  MaxEdits = 1
SPECIFICATION CatalogSpec
SYMMETRY Symmetry
INVARIANTS
  CatalogTypeOK
  CompleteIsWhole
