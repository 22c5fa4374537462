--------------------------- MODULE MCRegistration ---------------------------
(* A media-fabric node and another device register with one upstream node. *)
EXTENDS Registration

\* Everything fails, or nothing does and calls overlap; the node is asked for a
\* Digest, or it is not.
MCNetworks ==
  {[faulty |-> TRUE, digest |-> TRUE, maxTime |-> 1, maxCalls |-> 1, maxNonces |-> 2],
   [faulty |-> TRUE, digest |-> FALSE, maxTime |-> 1, maxCalls |-> 1, maxNonces |-> 1],
   [faulty |-> FALSE, digest |-> TRUE, maxTime |-> 0, maxCalls |-> 2, maxNonces |-> 4],
   [faulty |-> FALSE, digest |-> FALSE, maxTime |-> 0, maxCalls |-> 2, maxNonces |-> 4]}
=============================================================================
