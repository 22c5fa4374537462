---------------------------- MODULE MCRtpStream ----------------------------
(* A stream of four frames in packets of two bytes; the second frame has  *)
(* no PES length.                                                          *)
EXTENDS RtpStream

MCBytes == <<5, 6, 3, 5>>

\* Loss in order, loss with overtaking, refused packets in a network without
\* fault and in one that loses.
MCNetworks == {[lossy |-> TRUE, overtakes |-> FALSE, refusals |-> 0],
               [lossy |-> TRUE, overtakes |-> TRUE, refusals |-> 0],
               [lossy |-> FALSE, overtakes |-> FALSE, refusals |-> 2],
               [lossy |-> TRUE, overtakes |-> FALSE, refusals |-> 1]}
=============================================================================
