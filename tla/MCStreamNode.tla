---------------------------- MODULE MCStreamNode ----------------------------
(* A node with a handful of RTP ports, so that the pool runs dry.          *)
EXTENDS StreamNode, SequencesExt, TLC

CONSTANT PortRanges  \* set of <<rtp_port_begin, rtp_port_end>>

\* The queue MediaManager::configure builds from the endpoint ranges.
MCConfiguredPorts ==
  SetToSortSeq(UNION {PortsOfRange(r[1], r[2]) : r \in PortRanges}, <)

\* An odd begin, an inverted range, and an overlap: ports 2, 4 and 6.
MCPortRanges == {<<1, 5>>, <<4, 6>>, <<9, 8>>, <<0, 4>>}

Symmetry == Permutations(ServerIds) \cup Permutations(ClientIds)
=============================================================================
