------------------------------ MODULE PortLease ------------------------------
(***************************************************************************)
(* What the RTP port pool promises to the code that opens streams, without *)
(* its queue and sets: every port has one holder, which is the pool, a     *)
(* handler that is setting up a stream, or a stream.                       *)
(***************************************************************************)
CONSTANTS
  Ports,     \* the configured RTP ports
  Ids,       \* media sessions
  Handlers,  \* threads that set sessions up
  Free       \* the pool

VARIABLE holder

Holders == Ids \cup Handlers \cup {Free}

Init == holder = [p \in Ports |-> Free]

\* A handler takes a port out of the pool.
Take(p, h) ==
  /\ holder[p] = Free
  /\ holder' = [holder EXCEPT ![p] = h]

\* The handler gives up before it has a stream.
GiveBack(p, h) ==
  /\ holder[p] = h
  /\ holder' = [holder EXCEPT ![p] = Free]

\* The handler's port becomes the port of stream id; a port the stream held
\* before returns to the pool in the same step.
Bestow(p, h, id) ==
  /\ holder[p] = h
  /\ holder' = [q \in Ports |-> CASE q = p -> id
                                  [] q # p /\ holder[q] = id -> Free
                                  [] OTHER -> holder[q]]

\* Stream id ends.
End(id) ==
  /\ \E p \in Ports : holder[p] = id
  /\ holder' = [p \in Ports |-> IF holder[p] = id THEN Free ELSE holder[p]]

\* The node is started anew.
Reset == holder' = [p \in Ports |-> Free]

Next ==
  \/ \E p \in Ports, h \in Handlers :
       Take(p, h) \/ GiveBack(p, h) \/ \E id \in Ids : Bestow(p, h, id)
  \/ \E id \in Ids : End(id)
  \/ Reset

Spec == Init /\ [][Next]_holder
=============================================================================
