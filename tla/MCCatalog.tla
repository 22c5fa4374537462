------------------------------ MODULE MCCatalog ------------------------------
(* One upstream node synchronises the catalogs of two downstream peers.    *)
EXTENDS Catalog, TLC

Symmetry == Permutations(Peers) \cup Permutations(Devices)
==============================================================================
