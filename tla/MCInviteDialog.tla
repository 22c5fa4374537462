--------------------------- MODULE MCInviteDialog ---------------------------
(* Two calls to one device.                                                *)
EXTENDS InviteDialog

MCDeviceOf == [c \in Calls |-> "camera"]

\* A network without fault, one that answers late, and one with all faults.
MCNetworks == {[lossy |-> FALSE, overtakes |-> FALSE, repeats |-> 0],
               [lossy |-> FALSE, overtakes |-> FALSE, repeats |-> 1],
               [lossy |-> TRUE, overtakes |-> TRUE, repeats |-> 1]}
MCLate == {[lossy |-> FALSE, overtakes |-> FALSE, repeats |-> 1]}
=============================================================================
