-------------------------- MODULE StreamNodeProofs --------------------------
(***************************************************************************)
(* Proofs about the RTP ports and adapters of StreamNode, for every list   *)
(* of configured ports, every set of Call-IDs and every set of devices:    *)
(* who holds each port, what backs each stream, and that the node          *)
(* implements the leases of PortLease.                                     *)
(***************************************************************************)
EXTENDS StreamNode, SequenceTheorems, TLAPS

\* Typing of the pool alone.
PoolTyped ==
  /\ availablePorts \in Seq(Ports)
  /\ availablePortSet \in SUBSET Ports
  /\ allocatedPorts \in SUBSET Ports

\* An entry of the table always has a configured port (createSession's check).
SessionShape == \A id \in Ids : findSession(id) => sessions[id].localRtpPort \in Ports

\* What the handlers' local variables hold between two calls.
FrameShape ==
  /\ sip.op # "idle" => sip.id \in Ids /\ sip.port \in Ports
  /\ sip.op \in {"invite", "bad-sdp"} => sip.id \in ServerIds
  /\ mgmt.op # "idle" => mgmt.id \in Ids
  /\ mgmt.op \in {"create", "start", "send"} => mgmt.id \in ClientIds /\ mgmt.port \in Ports

\* The inductive invariant: PoolPartition alone is not inductive, because it is
\* the exclusive, complete accounting of the allocated ports that keeps a
\* release from naming a port somebody else still uses.
IInv ==
  /\ TypeOK
  /\ PoolPartition
  /\ NoPortLeak
  /\ PortExclusive
  /\ NoOrphanAdapter
  /\ SessionShape
  /\ FrameShape

-----------------------------------------------------------------------------
(* The methods of the port pool                                            *)

\* Configured ports are positive, so no port is confused with "none".
LEMMA PortsPositive == NoPort \notin Ports /\ Ports \subseteq Nat \ {0}
BY PortsAssumption DEF Ports, NoPort

\* allocateRtpPort keeps the pool consistent and hands out a port that was not
\* allocated; it fails only when every port is allocated.
LEMMA AllocateLemma ==
  ASSUME PoolTyped, PoolPartition, NEW port, allocateRtpPort(port)
  PROVE  /\ PoolTyped' /\ PoolPartition'
         /\ \/ port = NoPort /\ allocatedPorts = Ports /\ allocatedPorts' = allocatedPorts
            \/ /\ port \in Ports \ allocatedPorts
               /\ allocatedPorts' = allocatedPorts \cup {port}
<1> DEFINE usable == {i \in 1..Len(availablePorts) : availablePorts[i] \in availablePortSet}
<1>1. usable = 1..Len(availablePorts)
  BY DEF PoolTyped, PoolPartition
<1>2. CASE usable = {}
  <2>1. availablePorts = <<>> /\ availablePortSet = {}
    BY <1>1, <1>2 DEF PoolTyped, PoolPartition
  <2>2. port = NoPort /\ availablePorts' = <<>> /\ UNCHANGED <<availablePortSet, allocatedPorts>>
    BY <1>2 DEF allocateRtpPort
  <2> QED
    BY <2>1, <2>2 DEF PoolTyped, PoolPartition
<1>3. CASE usable # {}
  <2>1. PICK i \in usable :
          /\ \A j \in usable : i <= j
          /\ port = availablePorts[i]
          /\ availablePorts' = SubSeq(availablePorts, i + 1, Len(availablePorts))
          /\ availablePortSet' = availablePortSet \ {port}
          /\ allocatedPorts' = allocatedPorts \cup {port}
    BY <1>3 DEF allocateRtpPort
  <2>2. i = 1 /\ Len(availablePorts) \in Nat \ {0}
    BY <1>1, <2>1 DEF PoolTyped
  <2>3. port \in availablePortSet /\ port \in Ports
    BY <2>1, <2>2 DEF PoolTyped
  <2>4. /\ availablePorts' \in Seq(Ports)
        /\ Len(availablePorts') = Len(availablePorts) - 1
        /\ \A j \in 1..Len(availablePorts) - 1 : availablePorts'[j] = availablePorts[j + 1]
    <3>1. availablePorts \in Seq(Ports) /\ availablePorts # <<>>
      BY <2>2 DEF PoolTyped
    <3>2. availablePorts' = SubSeq(availablePorts, 2, Len(availablePorts))
      BY <2>1, <2>2
    <3>3. availablePorts' = Tail(availablePorts)
      BY <3>1, <3>2, TailIsSubSeq, Zenon
    <3> QED
      BY <3>1, <3>3, HeadTailProperties
  <2>5. PoolTyped'
    BY <2>1, <2>3, <2>4 DEF PoolTyped
  <2>6. {availablePorts'[j] : j \in 1..Len(availablePorts')} = availablePortSet'
    <3>1. ASSUME NEW j \in 1..Len(availablePorts')
          PROVE  availablePorts'[j] \in availablePortSet'
      BY <2>1, <2>2, <2>4 DEF PoolPartition, PoolTyped
    <3>2. ASSUME NEW q \in availablePortSet'
          PROVE  \E j \in 1..Len(availablePorts') : availablePorts'[j] = q
      <4>1. PICK k \in 1..Len(availablePorts) : availablePorts[k] = q
        BY <2>1 DEF PoolPartition
      <4>2. k # 1 /\ k - 1 \in 1..Len(availablePorts')
        BY <4>1, <2>1, <2>2, <2>4
      <4>3. availablePorts'[k - 1] = availablePorts[(k - 1) + 1]
        BY <4>2, <2>4
      <4> QED
        BY <4>1, <4>2, <4>3
    <3> QED
      BY <3>1, <3>2
  <2>7. \A j, k \in 1..Len(availablePorts') : j # k => availablePorts'[j] # availablePorts'[k]
    BY <2>2, <2>4 DEF PoolPartition
  <2>8. PoolPartition'
    BY <2>1, <2>3, <2>6, <2>7 DEF PoolPartition
  <2> QED
    BY <2>1, <2>3, <2>5, <2>8 DEF PoolPartition
<1> QED
  BY <1>2, <1>3

\* releaseRtpPort keeps the pool consistent and takes exactly this port out of
\* the allocated ones.
LEMMA ReleaseLemma ==
  ASSUME PoolTyped, PoolPartition, NEW port \in Ports, releaseRtpPort(port)
  PROVE  PoolTyped' /\ PoolPartition' /\ allocatedPorts' = allocatedPorts \ {port}
<1>1. CASE port \in allocatedPorts
  <2>1. /\ allocatedPorts' = allocatedPorts \ {port}
        /\ availablePortSet' = availablePortSet \cup {port}
        /\ availablePorts' = Append(availablePorts, port)
    BY <1>1, PortsPositive DEF releaseRtpPort, PoolPartition
  <2>2. /\ availablePorts' \in Seq(Ports)
        /\ Len(availablePorts') = Len(availablePorts) + 1
        /\ availablePorts'[Len(availablePorts) + 1] = port
        /\ \A i \in 1..Len(availablePorts) : availablePorts'[i] = availablePorts[i]
        /\ Len(availablePorts) \in Nat
    BY <2>1 DEF PoolTyped
  <2>3. {availablePorts'[i] : i \in 1..Len(availablePorts')} = availablePortSet'
    <3>1. ASSUME NEW i \in 1..Len(availablePorts')
          PROVE  availablePorts'[i] \in availablePortSet'
      BY <2>1, <2>2 DEF PoolPartition
    <3>2. ASSUME NEW q \in availablePortSet'
          PROVE  \E i \in 1..Len(availablePorts') : availablePorts'[i] = q
      BY <2>1, <2>2 DEF PoolPartition
    <3> QED
      BY <3>1, <3>2
  <2>4. \A i, j \in 1..Len(availablePorts') : i # j => availablePorts'[i] # availablePorts'[j]
    <3>1. port \notin availablePortSet
      BY <1>1 DEF PoolPartition
    <3>2. \A i \in 1..Len(availablePorts) : availablePorts[i] # port
      BY <3>1 DEF PoolPartition
    <3> QED
      BY <2>2, <3>2 DEF PoolPartition
  <2> QED
    BY <2>1, <2>2, <2>3, <2>4 DEF PoolTyped, PoolPartition
<1>2. CASE port \notin allocatedPorts
  BY <1>2 DEF releaseRtpPort, poolVars, PoolTyped, PoolPartition
<1> QED
  BY <1>1, <1>2

-----------------------------------------------------------------------------
(* The methods that change the session table                               *)

\* closeSession empties the entry, stops its adapter and returns exactly the
\* port the entry held - nothing, when there was no entry.
LEMMA CloseLemma ==
  ASSUME IInv, NEW id \in Ids, closeSession(id)
  PROVE  /\ PoolTyped' /\ PoolPartition'
         /\ sessions' = [sessions EXCEPT ![id] = NoSession]
         /\ adapters' = [adapters EXCEPT ![id] = NoPort]
         /\ allocatedPorts' = {p \in allocatedPorts : ~SessionHolds(id, p)}
<1> USE DEF IInv, TypeOK
<1>0. PoolTyped
  BY DEF PoolTyped
<1>1. CASE findSession(id)
  <2>1. /\ adapters' = [adapters EXCEPT ![id] = NoPort]
        /\ releaseRtpPort(sessions[id].localRtpPort)
        /\ sessions' = [sessions EXCEPT ![id] = NoSession]
    BY <1>1 DEF closeSession
  <2>2. sessions[id].localRtpPort \in Ports
    BY <1>1 DEF SessionShape
  <2>3. /\ PoolTyped' /\ PoolPartition'
        /\ allocatedPorts' = allocatedPorts \ {sessions[id].localRtpPort}
    BY <1>0, <2>1, <2>2, ReleaseLemma
  <2> QED
    BY <1>1, <2>1, <2>3 DEF SessionHolds
<1>2. CASE ~findSession(id)
  <2>1. UNCHANGED mediaVars
    BY <1>2 DEF closeSession
  <2>2. sessions[id] = NoSession /\ adapters[id] = NoPort
    BY <1>2 DEF findSession, NoOrphanAdapter, rtpSessionAdapterRunning
  <2>3. UNCHANGED <<availablePorts, availablePortSet, allocatedPorts, sessions, adapters>>
    BY <2>1 DEF mediaVars
  <2>4. /\ sessions' = [sessions EXCEPT ![id] = NoSession]
        /\ adapters' = [adapters EXCEPT ![id] = NoPort]
    BY <2>2, <2>3
  <2>5. allocatedPorts' = {p \in allocatedPorts : ~SessionHolds(id, p)}
    BY <1>2, <2>3 DEF SessionHolds
  <2>6. PoolTyped' /\ PoolPartition'
    BY <1>0, <2>3 DEF PoolTyped, PoolPartition
  <2> QED
    BY <2>4, <2>5, <2>6
<1> QED
  BY <1>1, <1>2

\* createSession with a port the caller holds: the entry takes it over, and a
\* different port the entry held before goes back.
LEMMA CreateLemma ==
  ASSUME IInv, NEW id \in Ids, NEW s \in Session, createSession(id, s),
         \A p \in Ports : SessionHolds(id, p) => p # s.localRtpPort
  PROVE  /\ PoolTyped' /\ PoolPartition'
         /\ sessions' = [sessions EXCEPT ![id] = s]
         /\ adapters' = adapters
         /\ allocatedPorts' = {p \in allocatedPorts : ~SessionHolds(id, p)}
<1> USE DEF IInv, TypeOK
<1>0. PoolTyped
  BY DEF PoolTyped
<1>1. sessions' = [sessions EXCEPT ![id] = s] /\ adapters' = adapters
  BY DEF createSession
<1>2. CASE findSession(id)
  <2>1. sessions[id].localRtpPort \in Ports /\ sessions[id].localRtpPort # s.localRtpPort
    BY <1>2 DEF SessionShape, SessionHolds
  <2>2. releaseRtpPort(sessions[id].localRtpPort)
    BY <1>2, <2>1 DEF createSession
  <2>3. /\ PoolTyped' /\ PoolPartition'
        /\ allocatedPorts' = allocatedPorts \ {sessions[id].localRtpPort}
    BY <1>0, <2>1, <2>2, ReleaseLemma
  <2> QED
    BY <1>1, <1>2, <2>3 DEF SessionHolds
<1>3. CASE ~findSession(id)
  <2>1. UNCHANGED <<availablePorts, availablePortSet, allocatedPorts>>
    BY <1>3 DEF createSession, poolVars
  <2>2. PoolTyped' /\ PoolPartition'
    BY <1>0, <2>1 DEF PoolTyped, PoolPartition
  <2>3. allocatedPorts' = {p \in allocatedPorts : ~SessionHolds(id, p)}
    BY <1>3, <2>1 DEF SessionHolds
  <2> QED
    BY <1>1, <2>2, <2>3
<1> QED
  BY <1>2, <1>3

-----------------------------------------------------------------------------
(* The inductive invariant                                                 *)

\* configure's queue is consistent with its sets.
LEMMA ConfiguredPool ==
  /\ ConfiguredPorts \in Seq(Ports)
  /\ {ConfiguredPorts[i] : i \in 1..Len(ConfiguredPorts)} = Ports
  /\ \A i, j \in 1..Len(ConfiguredPorts) : i # j => ConfiguredPorts[i] # ConfiguredPorts[j]
<1>1. ConfiguredPorts \in Seq(Ports)
  BY PortsAssumption DEF Ports
<1>2. ASSUME NEW i \in 1..Len(ConfiguredPorts), NEW j \in 1..Len(ConfiguredPorts), i # j
      PROVE  ConfiguredPorts[i] # ConfiguredPorts[j]
  <2>1. Len(ConfiguredPorts) \in Nat
        /\ ConfiguredPorts[i] \in Nat /\ ConfiguredPorts[j] \in Nat
    BY PortsAssumption
  <2>2. i < j \/ j < i
    BY <1>2, <2>1
  <2> QED
    BY <2>1, <2>2, PortsAssumption
<1> QED
  BY <1>1, <1>2 DEF Ports

\* It holds of a node that has just started.
LEMMA InitIInv == Init => IInv
<1> SUFFICES ASSUME Init PROVE IInv
  OBVIOUS
<1> USE DEF Init
<1>1. TypeOK
  <2>1. availablePorts \in Seq(Ports)
    BY PortsAssumption DEF Ports
  <2>2. NoSession \in Session
    BY IdsAssumption DEF NoSession, Session
  <2>3. SipIdle \in SipFrame /\ MgmtIdle \in MgmtFrame
    BY IdsAssumption DEF SipIdle, SipFrame, MgmtIdle, MgmtFrame
  <2> QED
    BY <2>1, <2>2, <2>3 DEF TypeOK
<1>2. PoolPartition
  BY ConfiguredPool DEF PoolPartition
<1>3. NoPortLeak /\ PortExclusive /\ NoOrphanAdapter /\ SessionShape /\ FrameShape
  BY DEF NoPortLeak, PortExclusive, NoOrphanAdapter, SessionShape, FrameShape,
         SipHolds, MgmtHolds, SessionHolds, findSession, rtpSessionAdapterRunning,
         SipIdle, MgmtIdle
<1> QED
  BY <1>1, <1>2, <1>3 DEF IInv

\* A thread that takes a port while it has none and keeps it in its frame.
LEMMA InviteRequestInv ==
  ASSUME IInv, NEW id \in ServerIds, NEW cseq \in 1..MaxCseq, NEW ok \in BOOLEAN,
         InviteRequest(id, cseq, ok)
  PROVE  IInv'
<1> USE DEF IInv, TypeOK
<1>1. PICK port \in Ports \cup {NoPort} :
        /\ allocateRtpPort(port)
        /\ sip' = CASE port = NoPort -> SipIdle
                    [] port # NoPort /\ ~ok ->
                         [op |-> "bad-sdp", id |-> id, port |-> port, cseq |-> cseq]
                    [] OTHER ->
                         [op |-> "invite", id |-> id, port |-> port, cseq |-> cseq]
  BY DEF InviteRequest
<1>2. sip = SipIdle /\ UNCHANGED <<sessions, adapters, mgmt, issued, invited, records, node>>
  BY DEF InviteRequest, SipReady
<1>3. /\ PoolTyped' /\ PoolPartition'
      /\ \/ port = NoPort /\ allocatedPorts' = allocatedPorts
         \/ port \in Ports \ allocatedPorts /\ allocatedPorts' = allocatedPorts \cup {port}
  BY <1>1, AllocateLemma DEF PoolTyped
<1>4. sip' \in SipFrame
  BY <1>1, IdsAssumption DEF SipFrame, SipIdle, Ids
<1>5. CASE port = NoPort
  <2>1. sip' = sip /\ allocatedPorts' = allocatedPorts
    BY <1>1, <1>2, <1>3, <1>5, PortsPositive
  <2> QED
    BY <1>2, <1>3, <1>4, <2>1
    DEF PoolTyped, NoPortLeak, PortExclusive, NoOrphanAdapter, SessionShape, FrameShape,
        SipHolds, MgmtHolds, SessionHolds, findSession, rtpSessionAdapterRunning
<1>6. CASE port # NoPort
  <2>1. port \in Ports \ allocatedPorts /\ allocatedPorts' = allocatedPorts \cup {port}
    BY <1>3, <1>6
  <2>2. sip'.op \in {"invite", "bad-sdp"} /\ sip'.port = port /\ sip'.id = id
    BY <1>1, <1>6
  <2>3. \A p : SipHolds(p)' <=> p = port
    BY <2>2 DEF SipHolds
  <2>4. \A p : ~SipHolds(p)
    BY <1>2 DEF SipHolds, SipIdle
  <2>5. \A p : MgmtHolds(p)' <=> MgmtHolds(p)
    BY <1>2 DEF MgmtHolds
  <2>6. \A i, p : SessionHolds(i, p)' <=> SessionHolds(i, p)
    BY <1>2 DEF SessionHolds, findSession
  <2>7. NoPortLeak'
    BY <2>1, <2>3, <2>4, <2>5, <2>6 DEF NoPortLeak
  <2>8. PortExclusive'
    BY <2>1, <2>3, <2>4, <2>5, <2>6 DEF PortExclusive
  <2>9. NoOrphanAdapter' /\ SessionShape' /\ FrameShape'
    BY <1>2, <2>1, <2>2
    DEF NoOrphanAdapter, SessionShape, FrameShape, findSession, rtpSessionAdapterRunning, Ids
  <2> QED
    BY <1>2, <1>3, <1>4, <2>7, <2>8, <2>9 DEF PoolTyped
<1> QED
  BY <1>5, <1>6

\* The conjuncts of the invariant about pool, table and adapters.
MediaInv ==
  /\ PoolTyped
  /\ sessions \in [Ids -> Session]
  /\ adapters \in [Ids -> Ports \cup {NoPort}]
  /\ PoolPartition
  /\ NoPortLeak
  /\ PortExclusive
  /\ NoOrphanAdapter
  /\ SessionShape

\* A step that moves no port: pool, holders and the ports in the table stay.
LEMMA SameHolders ==
  ASSUME IInv,
         UNCHANGED <<availablePorts, availablePortSet, allocatedPorts>>,
         sessions' \in [Ids -> Session],
         adapters' \in [Ids -> Ports \cup {NoPort}],
         \A id \in Ids : sessions'[id].localRtpPort = sessions[id].localRtpPort,
         \A id \in Ids : sessions'[id] # NoSession <=> sessions[id] # NoSession,
         \A id \in Ids : adapters'[id] # NoPort => sessions[id] # NoSession,
         \A p \in Ports : SipHolds(p)' <=> SipHolds(p),
         \A p \in Ports : MgmtHolds(p)' <=> MgmtHolds(p)
  PROVE  MediaInv'
<1> USE DEF IInv, TypeOK
<1>1. \A id \in Ids, p \in Ports : SessionHolds(id, p)' <=> SessionHolds(id, p)
  BY DEF SessionHolds, findSession
<1>2. PoolTyped' /\ PoolPartition'
  BY DEF PoolTyped, PoolPartition
<1>3. NoPortLeak'
  BY <1>1 DEF NoPortLeak
<1>4. PortExclusive'
  BY <1>1 DEF PortExclusive
<1>5. NoOrphanAdapter' /\ SessionShape'
  BY DEF NoOrphanAdapter, SessionShape, findSession, rtpSessionAdapterRunning
<1> QED
  BY <1>2, <1>3, <1>4, <1>5 DEF MediaInv

\* Closing a session, on whichever path.
LEMMA CloseKeeps ==
  ASSUME IInv, NEW id \in Ids, closeSession(id),
         \A p \in Ports : SipHolds(p)' <=> SipHolds(p),
         \A p \in Ports : MgmtHolds(p)' <=> MgmtHolds(p)
  PROVE  MediaInv'
<1> USE DEF IInv, TypeOK
<1>1. /\ PoolTyped' /\ PoolPartition'
      /\ sessions' = [sessions EXCEPT ![id] = NoSession]
      /\ adapters' = [adapters EXCEPT ![id] = NoPort]
      /\ allocatedPorts' = {p \in allocatedPorts : ~SessionHolds(id, p)}
  BY CloseLemma
<1>2. NoSession \in Session
  BY IdsAssumption DEF NoSession, Session
<1>3. sessions' \in [Ids -> Session] /\ adapters' \in [Ids -> Ports \cup {NoPort}]
  BY <1>1, <1>2
<1>4. \A i \in Ids, p \in Ports : SessionHolds(i, p)' <=> i # id /\ SessionHolds(i, p)
  BY <1>1 DEF SessionHolds, findSession
<1>5. NoPortLeak'
  BY <1>1, <1>4 DEF NoPortLeak
<1>6. PortExclusive'
  BY <1>1, <1>4 DEF PortExclusive
<1>7. NoOrphanAdapter' /\ SessionShape'
  BY <1>1 DEF NoOrphanAdapter, SessionShape, findSession, rtpSessionAdapterRunning
<1> QED
  BY <1>1, <1>3, <1>5, <1>6, <1>7 DEF MediaInv

\* A handler puts the port it holds into a session.
LEMMA CreateKeeps ==
  ASSUME IInv, NEW id \in Ids, NEW s \in Session, createSession(id, s),
         s.localRtpPort \in Ports,
         SipHolds(s.localRtpPort) \/ MgmtHolds(s.localRtpPort),
         \A p \in Ports : SipHolds(p)' <=> SipHolds(p) /\ p # s.localRtpPort,
         \A p \in Ports : MgmtHolds(p)' <=> MgmtHolds(p) /\ p # s.localRtpPort
  PROVE  MediaInv'
<1> USE DEF IInv, TypeOK
<1>0. \A i \in Ids : ~SessionHolds(i, s.localRtpPort)
  BY DEF PortExclusive
<1>1. /\ PoolTyped' /\ PoolPartition'
      /\ sessions' = [sessions EXCEPT ![id] = s]
      /\ adapters' = adapters
      /\ allocatedPorts' = {p \in allocatedPorts : ~SessionHolds(id, p)}
  BY <1>0, CreateLemma
<1>2. s # NoSession
  BY PortsPositive DEF NoSession
<1>3. \A i \in Ids, p \in Ports :
        SessionHolds(i, p)' <=> IF i = id THEN p = s.localRtpPort ELSE SessionHolds(i, p)
  BY <1>1, <1>2 DEF SessionHolds, findSession
<1>4. s.localRtpPort \in allocatedPorts'
  BY <1>0, <1>1 DEF PortExclusive
<1>5. NoPortLeak'
  <2>1. SUFFICES ASSUME NEW p \in allocatedPorts'
                 PROVE  SipHolds(p)' \/ MgmtHolds(p)' \/ \E i \in Ids : SessionHolds(i, p)'
    BY DEF NoPortLeak
  <2>2. CASE p = s.localRtpPort
    BY <1>3, <2>2
  <2>3. CASE p # s.localRtpPort
    BY <1>1, <1>3, <2>1, <2>3 DEF NoPortLeak
  <2> QED
    BY <2>2, <2>3
<1>6. PortExclusive'
  BY <1>0, <1>1, <1>3, <1>4 DEF PortExclusive
<1>7. NoOrphanAdapter' /\ SessionShape'
  BY <1>1, <1>2 DEF NoOrphanAdapter, SessionShape, findSession, rtpSessionAdapterRunning
<1>8. sessions' \in [Ids -> Session]
  BY <1>1
<1> QED
  BY <1>1, <1>5, <1>6, <1>7, <1>8 DEF MediaInv

\* A handler gives the port it holds back to the pool.
LEMMA GiveBackKeeps ==
  ASSUME IInv, NEW port \in Ports, releaseRtpPort(port), UNCHANGED <<sessions, adapters>>,
         SipHolds(port) \/ MgmtHolds(port),
         \A p \in Ports : SipHolds(p)' <=> SipHolds(p) /\ p # port,
         \A p \in Ports : MgmtHolds(p)' <=> MgmtHolds(p) /\ p # port
  PROVE  MediaInv'
<1> USE DEF IInv, TypeOK
<1>1. PoolTyped' /\ PoolPartition' /\ allocatedPorts' = allocatedPorts \ {port}
  BY ReleaseLemma DEF PoolTyped
<1>2. \A i \in Ids, p \in Ports : SessionHolds(i, p)' <=> SessionHolds(i, p)
  BY DEF SessionHolds, findSession
<1>3. \A i \in Ids : ~SessionHolds(i, port)
  BY DEF PortExclusive
<1>4. NoPortLeak'
  BY <1>1, <1>2 DEF NoPortLeak
<1>5. PortExclusive'
  BY <1>1, <1>2, <1>3 DEF PortExclusive
<1>6. NoOrphanAdapter' /\ SessionShape'
  BY DEF NoOrphanAdapter, SessionShape, findSession, rtpSessionAdapterRunning
<1> QED
  BY <1>1, <1>4, <1>5, <1>6 DEF MediaInv

\* What is left of the invariant once MediaInv' is known.
FrameInv ==
  /\ sip \in SipFrame
  /\ mgmt \in MgmtFrame
  /\ issued \in SUBSET ClientIds
  /\ invited \in SUBSET ClientIds
  /\ records \in SUBSET ServerIds
  /\ node \in {"up", "stopping", "down"}
  /\ FrameShape

\* The invariant is what it says of the shared tables and what it says of the handlers.
LEMMA Compose == IInv <=> MediaInv /\ FrameInv
BY DEF IInv, TypeOK, MediaInv, PoolTyped, FrameInv

\* The SIP event thread: InviteServerCapability after the port is taken.
LEMMA ServerInv ==
  ASSUME IInv
  PROVE  /\ InviteBadSdp => IInv'
         /\ InviteCreateSession => IInv'
         /\ \A id \in ServerIds, cseq \in 1..MaxCseq, ok \in BOOLEAN :
              AckRequest(id, cseq, ok) => IInv'
         /\ \A id \in ServerIds : ByeRequest(id) => IInv'
<1> USE DEF IInv, TypeOK
<1>0. SipIdle \in SipFrame /\ SipIdle.op = "idle" /\ \A p : ~(SipIdle.op \in {"invite", "bad-sdp"} /\ SipIdle.port = p)
  BY IdsAssumption DEF SipIdle, SipFrame
<1>1. ASSUME InviteBadSdp PROVE IInv'
  <2>1. /\ sip.port \in Ports /\ sip' = SipIdle /\ releaseRtpPort(sip.port)
        /\ UNCHANGED <<sessions, adapters, mgmt, issued, invited, records, node>>
    BY <1>1 DEF InviteBadSdp, FrameShape
  <2>2. \A p : SipHolds(p) <=> p = sip.port
    BY <1>1 DEF InviteBadSdp, SipHolds
  <2>3. \A p : ~SipHolds(p)' /\ (MgmtHolds(p)' <=> MgmtHolds(p))
    BY <1>0, <2>1 DEF SipHolds, MgmtHolds
  <2>4. MediaInv'
    <3>1. ~MgmtHolds(sip.port)
      BY <2>1, <2>2 DEF PortExclusive
    <3> QED
      BY <2>1, <2>2, <2>3, <3>1, GiveBackKeeps
  <2>5. FrameInv'
    BY <1>0, <2>1 DEF FrameInv, FrameShape
  <2> QED
    BY <2>4, <2>5, Compose, PTL
<1>2. ASSUME InviteCreateSession PROVE IInv'
  <2> DEFINE s == [localRtpPort |-> sip.port, state |-> "stream-requested",
                   inviteCseq |-> sip.cseq, targetDeviceId |-> NoDevice]
  <2>1. /\ sip.op = "invite" /\ sip.port \in Ports /\ sip.id \in ServerIds /\ sip' = SipIdle
        /\ UNCHANGED <<mgmt, issued, invited, node>>
    BY <1>2 DEF InviteCreateSession, FrameShape
  <2>2. \A p : SipHolds(p) <=> p = sip.port
    BY <2>1 DEF SipHolds
  <2>3. \A p : ~SipHolds(p)' /\ (MgmtHolds(p)' <=> MgmtHolds(p))
    BY <1>0, <2>1 DEF SipHolds, MgmtHolds
  <2>4. ~MgmtHolds(sip.port)
    BY <2>1, <2>2 DEF PortExclusive
  <2>5. MediaInv'
    <3>1. CASE creatable(s)
      <4>1. createSession(sip.id, s)
        BY <1>2, <3>1 DEF InviteCreateSession
      <4>2. s \in Session
        BY <2>1 DEF Session, SessionStates, SipFrame
      <4> QED
        BY <2>1, <2>2, <2>3, <2>4, <4>1, <4>2, CreateKeeps DEF Ids
    <3>2. CASE ~creatable(s)
      <4>1. releaseRtpPort(sip.port) /\ UNCHANGED <<sessions, adapters>>
        BY <1>2, <3>2 DEF InviteCreateSession
      <4> QED
        BY <2>1, <2>2, <2>3, <2>4, <4>1, GiveBackKeeps
    <3> QED
      BY <3>1, <3>2
  <2>6. records' \in SUBSET ServerIds
    BY <1>2, <2>1 DEF InviteCreateSession
  <2>7. FrameInv'
    BY <1>0, <2>1, <2>6 DEF FrameInv, FrameShape
  <2> QED
    BY <2>5, <2>7, Compose, PTL
<1>3. ASSUME NEW id \in ServerIds, NEW cseq \in 1..MaxCseq, NEW ok \in BOOLEAN,
             AckRequest(id, cseq, ok)
      PROVE  IInv'
  <2>1. /\ UNCHANGED <<availablePorts, availablePortSet, allocatedPorts, sip, mgmt,
                       issued, invited, node>>
        /\ sessions[id] # NoSession /\ id \in Ids
        /\ records' \in SUBSET ServerIds
    BY <1>3 DEF AckRequest, findSession, Ids
  <2>2. PICK state \in {"stream-confirmed", "rtp-start-failed"} :
          sessions' = [sessions EXCEPT ![id].state = state]
    BY <1>3 DEF AckRequest, updateSessionState
  <2>3. adapters' = adapters \/ adapters' = [adapters EXCEPT ![id] = sessions[id].localRtpPort]
    BY <1>3 DEF AckRequest, startRtpSessionAdapter
  <2>4. sessions[id].localRtpPort \in Ports
    BY <2>1 DEF SessionShape, findSession
  <2>5. sessions' \in [Ids -> Session]
    BY <2>1, <2>2, ZenonT(60) DEF Session, SessionStates
  <2>6. adapters' \in [Ids -> Ports \cup {NoPort}]
    BY <2>1, <2>3, <2>4
  <2>7. /\ \A i \in Ids : sessions'[i].localRtpPort = sessions[i].localRtpPort
        /\ \A i \in Ids : sessions'[i] # NoSession <=> sessions[i] # NoSession
    BY <2>1, <2>2, <2>4, PortsPositive DEF NoSession, Session
  <2>8. \A i \in Ids : adapters'[i] # NoPort => sessions[i] # NoSession
    BY <2>1, <2>3 DEF NoOrphanAdapter, rtpSessionAdapterRunning, findSession
  <2>9. MediaInv'
    BY <2>1, <2>5, <2>6, <2>7, <2>8, SameHolders DEF SipHolds, MgmtHolds
  <2>10. FrameInv'
    BY <2>1 DEF FrameInv, FrameShape
  <2> QED
    BY <2>9, <2>10, Compose, PTL
<1>4. ASSUME NEW id \in ServerIds, ByeRequest(id) PROVE IInv'
  <2>1. /\ closeSession(id) /\ UNCHANGED <<sip, mgmt, issued, invited, node>>
        /\ records' \in SUBSET ServerIds
    BY <1>4 DEF ByeRequest
  <2>2. MediaInv'
    BY <2>1, CloseKeeps DEF SipHolds, MgmtHolds, Ids
  <2>3. FrameInv'
    BY <2>1 DEF FrameInv, FrameShape
  <2> QED
    BY <2>2, <2>3, Compose, PTL
<1> QED
  BY <1>1, <1>2, <1>3, <1>4

\* The SIP event thread: InviteClientCapability.
LEMMA ClientInv ==
  ASSUME IInv
  PROVE  /\ \A id \in ClientIds : InviteRejected(id) \/ InviteAccepted(id) => IInv'
         /\ \A ok \in BOOLEAN : InviteConfirm(ok) => IInv'
<1> USE DEF IInv, TypeOK
<1>0. SipIdle \in SipFrame /\ SipIdle.op = "idle" /\ \A p : ~(SipIdle.op \in {"invite", "bad-sdp"} /\ SipIdle.port = p)
  BY IdsAssumption DEF SipIdle, SipFrame
<1>1. ASSUME NEW id \in ClientIds, InviteRejected(id) PROVE IInv'
  <2>1. closeSession(id) /\ UNCHANGED <<sip, mgmt, issued, invited, records, node>>
    BY <1>1 DEF InviteRejected
  <2>2. MediaInv'
    BY <2>1, CloseKeeps DEF SipHolds, MgmtHolds, Ids
  <2>3. FrameInv'
    BY <2>1 DEF FrameInv, FrameShape
  <2> QED
    BY <2>2, <2>3, Compose, PTL
<1>2. ASSUME NEW id \in ClientIds, InviteAccepted(id) PROVE IInv'
  <2>1. /\ UNCHANGED <<availablePorts, availablePortSet, allocatedPorts, sessions, adapters,
                       mgmt, issued, invited, records, node>>
        /\ sip = SipIdle /\ sessions[id] # NoSession /\ id \in Ids
        /\ sip' = [op |-> "response", id |-> id, port |-> sessions[id].localRtpPort,
                   cseq |-> sessions[id].inviteCseq]
    BY <1>2 DEF InviteAccepted, SipReady, findSession, Ids
  <2>2. sessions[id].localRtpPort \in Ports /\ sessions[id].inviteCseq \in 0..MaxCseq
    BY <2>1 DEF SessionShape, findSession, Session
  <2>3. \A p : ~SipHolds(p) /\ ~SipHolds(p)' /\ (MgmtHolds(p)' <=> MgmtHolds(p))
    BY <1>0, <2>1 DEF SipHolds, MgmtHolds
  <2>4. MediaInv'
    BY <2>1, <2>3, SameHolders DEF NoOrphanAdapter, rtpSessionAdapterRunning, findSession
  <2>5. FrameInv'
    BY <2>1, <2>2 DEF FrameInv, FrameShape, SipFrame
  <2> QED
    BY <2>4, <2>5, Compose, PTL
<1>3. ASSUME NEW ok \in BOOLEAN, InviteConfirm(ok) PROVE IInv'
  <2> DEFINE id == sip.id
             s == [sessions[id] EXCEPT !.localRtpPort = sip.port, !.inviteCseq = sip.cseq,
                                       !.state = "stream-confirmed"]
  <2>1. /\ sip.op = "response" /\ id \in Ids /\ sip' = SipIdle
        /\ UNCHANGED <<mgmt, issued, invited, records, node>>
    BY <1>3 DEF InviteConfirm, FrameShape
  <2>2. \A p : ~SipHolds(p) /\ ~SipHolds(p)' /\ (MgmtHolds(p)' <=> MgmtHolds(p))
    BY <1>0, <2>1 DEF SipHolds, MgmtHolds
  <2>3. MediaInv'
    <3>1. CASE updatable(id, s) /\ ok
      <4>1. /\ sessions' = [sessions EXCEPT ![id] = s]
            /\ UNCHANGED <<availablePorts, availablePortSet, allocatedPorts, adapters>>
        BY <1>3, <3>1 DEF InviteConfirm, updateSession
      <4>2. sessions[id] \in Session /\ sip.port \in Ports /\ sip.cseq \in 0..MaxCseq
        BY <2>1 DEF SipFrame, FrameShape
      <4>3. s \in Session /\ s.localRtpPort = sip.port
        BY <4>2 DEF Session, SessionStates
      <4>4. sessions[id] # NoSession /\ sessions[id].localRtpPort = s.localRtpPort
        BY <3>1 DEF updatable, findSession
      <4>5. s # NoSession
        BY <4>2, <4>3, PortsPositive DEF NoSession
      <4>6. sessions' \in [Ids -> Session]
        BY <2>1, <4>1, <4>3
      <4>7. /\ \A i \in Ids : sessions'[i].localRtpPort = sessions[i].localRtpPort
            /\ \A i \in Ids : sessions'[i] # NoSession <=> sessions[i] # NoSession
        BY <2>1, <4>1, <4>4, <4>5
      <4>8. \A i \in Ids : adapters'[i] # NoPort => sessions[i] # NoSession
        BY <4>1 DEF NoOrphanAdapter, rtpSessionAdapterRunning, findSession
      <4>9. adapters' \in [Ids -> Ports \cup {NoPort}]
        BY <4>1
      <4> QED
        BY <2>2, <4>1, <4>6, <4>7, <4>8, <4>9, SameHolders
    <3>2. CASE ~(updatable(id, s) /\ ok)
      <4>1. closeSession(id)
        BY <1>3, <3>2 DEF InviteConfirm
      <4> QED
        BY <2>1, <2>2, <4>1, CloseKeeps
    <3> QED
      BY <3>1, <3>2
  <2>4. FrameInv'
    BY <1>0, <2>1 DEF FrameInv, FrameShape
  <2> QED
    BY <2>3, <2>4, Compose, PTL
<1> QED
  BY <1>1, <1>2, <1>3

\* The management thread: requestInvite.
LEMMA RequestInviteInv ==
  ASSUME IInv
  PROVE  /\ \A device \in Devices, id \in ClientIds : RequestInvite(device, id) => IInv'
         /\ RequestInviteCreate => IInv'
         /\ \A ok \in BOOLEAN : RequestInviteStart(ok) \/ RequestInviteSend(ok) => IInv'
<1> USE DEF IInv, TypeOK
<1>0. MgmtIdle \in MgmtFrame /\ MgmtIdle.op = "idle" /\ \A p : ~(MgmtIdle.op = "create" /\ MgmtIdle.port = p)
  BY DEF MgmtIdle, MgmtFrame
<1>1. ASSUME NEW device \in Devices, NEW id \in ClientIds, RequestInvite(device, id) PROVE IInv'
  <2>1. PICK port \in Ports \cup {NoPort} :
          /\ allocateRtpPort(port)
          /\ IF port = NoPort
             THEN UNCHANGED <<mgmt, issued>>
             ELSE /\ mgmt' = [op |-> "create", id |-> id, port |-> port, device |-> device]
                  /\ issued' = issued \cup {id}
    BY <1>1 DEF RequestInvite
  <2>2. mgmt = MgmtIdle /\ UNCHANGED <<sessions, adapters, sip, invited, records, node>>
    BY <1>1 DEF RequestInvite, MgmtReady
  <2>3. /\ PoolTyped' /\ PoolPartition'
        /\ \/ port = NoPort /\ allocatedPorts' = allocatedPorts
           \/ port \in Ports \ allocatedPorts /\ allocatedPorts' = allocatedPorts \cup {port}
    BY <2>1, AllocateLemma DEF PoolTyped
  <2>4. \A i, p : SessionHolds(i, p)' <=> SessionHolds(i, p)
    BY <2>2 DEF SessionHolds, findSession
  <2>5. \A p : SipHolds(p)' <=> SipHolds(p)
    BY <2>2 DEF SipHolds
  <2>6. NoOrphanAdapter' /\ SessionShape'
    BY <2>2 DEF NoOrphanAdapter, SessionShape, findSession, rtpSessionAdapterRunning
  <2>7. CASE port = NoPort
    <3>1. allocatedPorts' = allocatedPorts /\ UNCHANGED <<mgmt, issued>>
      BY <2>1, <2>3, <2>7, PortsPositive
    <3>2. NoPortLeak' /\ PortExclusive' /\ FrameShape'
      BY <2>2, <2>4, <2>5, <3>1 DEF NoPortLeak, PortExclusive, FrameShape, MgmtHolds
    <3> QED
      BY <2>2, <2>3, <2>6, <3>1, <3>2 DEF PoolTyped
  <2>8. CASE port # NoPort
    <3>1. port \in Ports \ allocatedPorts /\ allocatedPorts' = allocatedPorts \cup {port}
      BY <2>3, <2>8
    <3>2. /\ mgmt' = [op |-> "create", id |-> id, port |-> port, device |-> device]
          /\ issued' = issued \cup {id}
      BY <2>1, <2>8
    <3>3. \A p : ~MgmtHolds(p) /\ (MgmtHolds(p)' <=> p = port)
      BY <1>0, <2>2, <3>2 DEF MgmtHolds
    <3>4. NoPortLeak'
      BY <2>4, <2>5, <3>1, <3>3 DEF NoPortLeak
    <3>5. PortExclusive'
      BY <2>4, <2>5, <3>1, <3>3 DEF PortExclusive
    <3>6. mgmt' \in MgmtFrame /\ FrameShape'
      BY <2>2, <3>1, <3>2 DEF MgmtFrame, FrameShape, Ids
    <3> QED
      BY <2>2, <2>3, <2>6, <3>2, <3>4, <3>5, <3>6 DEF PoolTyped
  <2> QED
    BY <2>7, <2>8
<1>2. ASSUME RequestInviteCreate PROVE IInv'
  <2> DEFINE s == [localRtpPort |-> mgmt.port, state |-> "invite-requested",
                   inviteCseq |-> 1, targetDeviceId |-> mgmt.device]
  <2>1. /\ mgmt.op = "create" /\ mgmt.port \in Ports /\ mgmt.id \in ClientIds /\ mgmt.id \in Ids
        /\ UNCHANGED <<sip, issued, invited, records, node>>
        /\ mgmt' \in {[mgmt EXCEPT !.op = "start"], MgmtIdle}
    BY <1>2 DEF RequestInviteCreate, FrameShape, Ids
  <2>2. \A p : MgmtHolds(p) <=> p = mgmt.port
    BY <2>1 DEF MgmtHolds
  <2>3. \A p : ~MgmtHolds(p)' /\ (SipHolds(p)' <=> SipHolds(p))
    BY <1>0, <2>1 DEF SipHolds, MgmtHolds, MgmtFrame
  <2>4. ~SipHolds(mgmt.port)
    BY <2>1, <2>2 DEF PortExclusive
  <2>5. MediaInv'
    <3>1. CASE creatable(s)
      <4>1. createSession(mgmt.id, s)
        BY <1>2, <3>1 DEF RequestInviteCreate
      <4>2. 1 \in 0..MaxCseq
        BY IdsAssumption
      <4>3. s \in Session
        BY <2>1, <4>2 DEF Session, SessionStates, MgmtFrame
      <4> QED
        BY <2>1, <2>2, <2>3, <2>4, <4>1, <4>3, CreateKeeps
    <3>2. CASE ~creatable(s)
      <4>1. releaseRtpPort(mgmt.port) /\ UNCHANGED <<sessions, adapters>>
        BY <1>2, <3>2 DEF RequestInviteCreate
      <4> QED
        BY <2>1, <2>2, <2>3, <2>4, <4>1, GiveBackKeeps
    <3> QED
      BY <3>1, <3>2
  <2>6. mgmt' \in MgmtFrame
    BY <1>0, <2>1 DEF MgmtFrame
  <2>7. FrameInv'
    BY <1>0, <2>1, <2>6 DEF FrameInv, FrameShape, MgmtFrame
  <2> QED
    BY <2>5, <2>7, Compose, PTL
<1>3. ASSUME NEW ok \in BOOLEAN, RequestInviteStart(ok) PROVE IInv'
  <2>1. /\ mgmt.op = "start" /\ mgmt.id \in ClientIds /\ mgmt.id \in Ids
        /\ UNCHANGED <<sip, issued, invited, records, node>>
        /\ mgmt' \in {[mgmt EXCEPT !.op = "send"], MgmtIdle}
    BY <1>3 DEF RequestInviteStart, FrameShape, Ids
  <2>2. \A p : ~MgmtHolds(p) /\ ~MgmtHolds(p)' /\ (SipHolds(p)' <=> SipHolds(p))
    BY <1>0, <2>1 DEF SipHolds, MgmtHolds, MgmtFrame
  <2>3. MediaInv'
    <3>1. CASE startable(mgmt.id) /\ ok
      <4>1. /\ adapters' = [adapters EXCEPT ![mgmt.id] = sessions[mgmt.id].localRtpPort]
            /\ UNCHANGED <<availablePorts, availablePortSet, allocatedPorts, sessions>>
        BY <1>3, <3>1 DEF RequestInviteStart, startRtpSessionAdapter
      <4>2. sessions[mgmt.id] # NoSession /\ sessions[mgmt.id].localRtpPort \in Ports
        BY <2>1, <3>1 DEF startable, findSession, SessionShape
      <4>3. /\ adapters' \in [Ids -> Ports \cup {NoPort}]
            /\ \A i \in Ids : adapters'[i] # NoPort => sessions[i] # NoSession
        BY <2>1, <4>1, <4>2 DEF NoOrphanAdapter, rtpSessionAdapterRunning, findSession
      <4> QED
        BY <2>2, <4>1, <4>3, SameHolders
    <3>2. CASE ~(startable(mgmt.id) /\ ok)
      <4>1. closeSession(mgmt.id)
        BY <1>3, <3>2 DEF RequestInviteStart
      <4> QED
        BY <2>1, <2>2, <4>1, CloseKeeps
    <3> QED
      BY <3>1, <3>2
  <2>4. mgmt' \in MgmtFrame
    BY <1>0, <2>1 DEF MgmtFrame
  <2>5. FrameInv'
    BY <1>0, <2>1, <2>4 DEF FrameInv, FrameShape, MgmtFrame
  <2> QED
    BY <2>3, <2>5, Compose, PTL
<1>4. ASSUME NEW ok \in BOOLEAN, RequestInviteSend(ok) PROVE IInv'
  <2>1. /\ mgmt.op = "send" /\ mgmt.id \in ClientIds /\ mgmt.id \in Ids /\ mgmt' = MgmtIdle
        /\ UNCHANGED <<sip, issued, records, node>>
        /\ invited' \in SUBSET ClientIds
        /\ UNCHANGED mediaVars \/ closeSession(mgmt.id)
    BY <1>4 DEF RequestInviteSend, FrameShape, Ids
  <2>2. \A p : ~MgmtHolds(p) /\ ~MgmtHolds(p)' /\ (SipHolds(p)' <=> SipHolds(p))
    BY <1>0, <2>1 DEF SipHolds, MgmtHolds
  <2>3. MediaInv'
    BY <2>1, <2>2, SameHolders, CloseKeeps
    DEF mediaVars, NoOrphanAdapter, rtpSessionAdapterRunning, findSession
  <2>4. FrameInv'
    BY <1>0, <2>1 DEF FrameInv, FrameShape
  <2> QED
    BY <2>3, <2>4, Compose, PTL
<1> QED
  BY <1>1, <1>2, <1>3, <1>4

\* requestBye, the RTP poll threads, stop and start.
LEMMA OtherInv ==
  ASSUME IInv
  PROVE  /\ \A device \in Devices : RequestBye(device) => IInv'
         /\ \A ok \in BOOLEAN : RequestByeClose(ok) => IInv'
         /\ \A id \in Ids : RtpArrives(id) => IInv'
         /\ Stop \/ Destroy \/ Start => IInv'
<1> USE DEF IInv, TypeOK
<1>0. MgmtIdle \in MgmtFrame /\ MgmtIdle.op = "idle" /\ \A p : ~(MgmtIdle.op = "create" /\ MgmtIdle.port = p)
  BY DEF MgmtIdle, MgmtFrame
<1>1. ASSUME NEW device \in Devices, RequestBye(device) PROVE IInv'
  <2>1. /\ mgmt = MgmtIdle
        /\ UNCHANGED <<availablePorts, availablePortSet, allocatedPorts, sessions, adapters,
                       sip, issued, invited, records, node>>
    BY <1>1 DEF RequestBye, MgmtReady
  <2>2. PICK id \in Ids : mgmt' = [op |-> "bye", id |-> id, port |-> NoPort, device |-> device]
    BY <1>1 DEF RequestBye, SessionsOf
  <2>3. \A p : ~MgmtHolds(p) /\ ~MgmtHolds(p)' /\ (SipHolds(p)' <=> SipHolds(p))
    BY <1>0, <2>1, <2>2 DEF SipHolds, MgmtHolds
  <2>4. MediaInv'
    BY <2>1, <2>3, SameHolders DEF NoOrphanAdapter, rtpSessionAdapterRunning, findSession
  <2>5. FrameInv'
    BY <2>1, <2>2 DEF FrameInv, FrameShape, MgmtFrame
  <2> QED
    BY <2>4, <2>5, Compose, PTL
<1>2. ASSUME NEW ok \in BOOLEAN, RequestByeClose(ok) PROVE IInv'
  <2>1. /\ mgmt.op = "bye" /\ mgmt.id \in Ids /\ mgmt' = MgmtIdle
        /\ UNCHANGED <<sip, issued, invited, records, node>>
        /\ UNCHANGED mediaVars \/ closeSession(mgmt.id)
    BY <1>2 DEF RequestByeClose, FrameShape
  <2>2. \A p : ~MgmtHolds(p) /\ ~MgmtHolds(p)' /\ (SipHolds(p)' <=> SipHolds(p))
    BY <1>0, <2>1 DEF SipHolds, MgmtHolds
  <2>3. MediaInv'
    BY <2>1, <2>2, SameHolders, CloseKeeps
    DEF mediaVars, NoOrphanAdapter, rtpSessionAdapterRunning, findSession
  <2>4. FrameInv'
    BY <1>0, <2>1 DEF FrameInv, FrameShape
  <2> QED
    BY <2>3, <2>4, Compose, PTL
<1>3. ASSUME NEW id \in Ids, RtpArrives(id) PROVE IInv'
  <2>1. /\ UNCHANGED <<availablePorts, availablePortSet, allocatedPorts, adapters,
                       sip, mgmt, issued, invited, records, node>>
        /\ sessions[id] # NoSession
        /\ sessions' = [sessions EXCEPT ![id].state = "stream-receiving"]
    BY <1>3 DEF RtpArrives, findSession, receiveRtpPacket
  <2>2. sessions[id].localRtpPort \in Ports
    BY <2>1 DEF SessionShape, findSession
  <2>3. sessions' \in [Ids -> Session]
    BY <2>1, SMTT(60) DEF Session, SessionStates
  <2>4. /\ \A i \in Ids : sessions'[i].localRtpPort = sessions[i].localRtpPort
        /\ \A i \in Ids : sessions'[i] # NoSession <=> sessions[i] # NoSession
    BY <2>1, <2>2, PortsPositive DEF NoSession, Session
  <2>5. \A i \in Ids : adapters'[i] # NoPort => sessions[i] # NoSession
    BY <2>1 DEF NoOrphanAdapter, rtpSessionAdapterRunning, findSession
  <2>6. MediaInv'
    BY <2>1, <2>3, <2>4, <2>5, SameHolders DEF SipHolds, MgmtHolds
  <2>7. FrameInv'
    BY <2>1 DEF FrameInv, FrameShape
  <2> QED
    BY <2>6, <2>7, Compose, PTL
<1>4. ASSUME Stop \/ Destroy PROVE IInv'
  <2>1. /\ UNCHANGED <<availablePorts, availablePortSet, allocatedPorts, sessions,
                       sip, mgmt, issued, invited, records>>
        /\ adapters' = [i \in Ids |-> NoPort]
        /\ node' \in {"stopping", "down"}
    BY <1>4 DEF Stop, Destroy, stopAllRtpSessionAdapters
  <2>2. MediaInv'
    BY <2>1, SameHolders DEF SipHolds, MgmtHolds
  <2>3. FrameInv'
    BY <2>1 DEF FrameInv, FrameShape
  <2> QED
    BY <2>2, <2>3, Compose, PTL
<1>5. ASSUME Start PROVE IInv'
  <2>1. /\ availablePorts' = ConfiguredPorts /\ availablePortSet' = Ports /\ allocatedPorts' = {}
        /\ sessions' = [i \in Ids |-> NoSession] /\ adapters' = [i \in Ids |-> NoPort]
        /\ sip' = SipIdle /\ mgmt' = MgmtIdle /\ UNCHANGED issued
        /\ records' = {} /\ invited' = {} /\ node' = "up"
    BY <1>5 DEF Start, configure
  <2>2. PoolTyped' /\ PoolPartition'
    BY <2>1, ConfiguredPool, ZenonT(60) DEF PoolTyped, PoolPartition
  <2>3. NoSession \in Session /\ SipIdle \in SipFrame
    BY IdsAssumption DEF NoSession, Session, SipIdle, SipFrame
  <2>4. \A p : ~SipHolds(p)' /\ ~MgmtHolds(p)'
    BY <2>1 DEF SipHolds, MgmtHolds, SipIdle, MgmtIdle
  <2>5. \A i \in Ids : \A p : ~SessionHolds(i, p)'
    BY <2>1 DEF SessionHolds, findSession
  <2>6. TypeOK'
    BY <1>0, <2>1, <2>2, <2>3 DEF PoolTyped
  <2>7. NoPortLeak' /\ PortExclusive'
    BY <2>1, <2>4, <2>5 DEF NoPortLeak, PortExclusive
  <2>8. NoOrphanAdapter' /\ SessionShape' /\ FrameShape'
    BY <2>1 DEF NoOrphanAdapter, SessionShape, FrameShape, rtpSessionAdapterRunning,
                findSession, SipIdle, MgmtIdle
  <2> QED
    BY <2>2, <2>6, <2>7, <2>8
<1> QED
  BY <1>1, <1>2, <1>3, <1>4, <1>5

\* Every step of the node preserves the inductive invariant.
LEMMA NextIInv == IInv /\ [Next]_vars => IInv'
<1> SUFFICES ASSUME IInv, [Next]_vars PROVE IInv'
  OBVIOUS
<1>1. CASE ServerRequest \/ InviteBadSdp \/ InviteCreateSession
  BY <1>1, ServerInv, InviteRequestInv DEF ServerRequest
<1>2. CASE ClientResponse \/ \E ok \in BOOLEAN : InviteConfirm(ok)
  BY <1>2, ClientInv DEF ClientResponse
<1>3. CASE \/ Command
           \/ RequestInviteCreate
           \/ \E ok \in BOOLEAN : RequestInviteStart(ok) \/ RequestInviteSend(ok)
  BY <1>3, RequestInviteInv, OtherInv DEF Command
<1>4. CASE \/ \E ok \in BOOLEAN : RequestByeClose(ok)
           \/ \E id \in Ids : RtpArrives(id)
           \/ Stop \/ Destroy \/ Start
  BY <1>4, OtherInv
<1>5. CASE UNCHANGED vars
  BY <1>5 DEF vars, IInv, TypeOK, PoolPartition, NoPortLeak, PortExclusive, NoOrphanAdapter,
     SessionShape, FrameShape, SipHolds, MgmtHolds, SessionHolds, findSession,
     rtpSessionAdapterRunning
<1> QED
  BY <1>1, <1>2, <1>3, <1>4, <1>5 DEF Next

-----------------------------------------------------------------------------
(* StreamsBacked: the table, the adapters and the dialogs agree            *)

\* A command runs only while the node is up; a response in progress belongs to
\* an INVITE that left; a command never works on a Call-ID already invited.
StreamFrames ==
  /\ node # "up" => mgmt.op = "idle"
  /\ sip.op = "response" => sip.id \in invited
  /\ invited \subseteq issued
  /\ mgmt.op \in {"create", "start", "send"} => mgmt.id \in issued \ invited
  /\ mgmt.op = "bye" => mgmt.id \in ClientIds

\* The INVITE about to be sent offers the port its adapter listens on.
SendReady ==
  mgmt.op = "send" /\ findSession(mgmt.id) =>
    adapters[mgmt.id] = sessions[mgmt.id].localRtpPort

\* No server session names a device, so `bye` never picks one.
ServerSessions == \A id \in ServerIds : sessions[id].targetDeviceId = NoDevice

\* StreamsBacked is not inductive: a confirmation is right only because the
\* handler holds an invited Call-ID, and `bye` keeps the dialog records right
\* only because it closes client sessions alone.
BackedInv == StreamsBacked /\ StreamFrames /\ SendReady /\ ServerSessions

\* Initially there is no stream.
LEMMA InitBacked == Init => BackedInv
BY IdsAssumption
DEF Init, BackedInv, StreamsBacked, StreamHasAdapter, DialogRecorded, StreamFrames, SendReady,
    ServerSessions, SipIdle, MgmtIdle, NoSession, findSession, Ids

\* Closing a session removes it from every table that speaks of it.
LEMMA CloseBacked ==
  ASSUME IInv, BackedInv, NEW id \in Ids, closeSession(id), UNCHANGED <<node, invited>>,
         records' = IF id \in ServerIds THEN records \ {id} ELSE records,
         mgmt'.op = "send" => mgmt' = mgmt
  PROVE  StreamsBacked' /\ SendReady' /\ ServerSessions'
<1>1. /\ sessions' = [sessions EXCEPT ![id] = NoSession]
      /\ adapters' = [adapters EXCEPT ![id] = NoPort]
      /\ sessions \in [Ids -> Session] /\ adapters \in [Ids -> Ports \cup {NoPort}]
  BY CloseLemma DEF IInv, TypeOK
<1>2. /\ sessions'[id] = NoSession
      /\ \A i \in Ids \ {id} : sessions'[i] = sessions[i] /\ adapters'[i] = adapters[i]
  BY <1>1
<1>3. NoSession.state = "none" /\ NoSession.targetDeviceId = NoDevice
  BY DEF NoSession
<1>4. StreamHasAdapter'
  BY <1>2, <1>3 DEF BackedInv, StreamsBacked, StreamHasAdapter, findSession,
                    rtpSessionAdapterRunning
<1>5. DialogRecorded'
  BY <1>2 DEF BackedInv, StreamsBacked, DialogRecorded, findSession, Ids
<1>6. SendReady'
  <2>1. mgmt.op = "send" => mgmt.id \in Ids
    BY DEF IInv, FrameShape
  <2> QED
    BY <1>2, <2>1 DEF BackedInv, SendReady, findSession
<1>7. ServerSessions'
  BY <1>2, <1>3 DEF BackedInv, ServerSessions, Ids
<1> QED
  BY <1>4, <1>5, <1>6, <1>7 DEF StreamsBacked

\* A step that leaves the sessions, their adapters and the dialogs alone.
LEMMA TablesBacked ==
  ASSUME BackedInv, UNCHANGED <<sessions, adapters, records, node, invited>>,
         mgmt'.op = "send" => mgmt' = mgmt
  PROVE  StreamsBacked' /\ SendReady' /\ ServerSessions'
BY DEF BackedInv, StreamsBacked, StreamHasAdapter, DialogRecorded, SendReady, ServerSessions,
       findSession, rtpSessionAdapterRunning

\* A step of the SIP thread that starts nothing for a client Call-ID.
LEMMA SipFrames ==
  ASSUME BackedInv, UNCHANGED <<mgmt, issued, invited, node>>,
         sip'.op = "response" => sip' = sip \/ sip'.id \in invited
  PROVE  StreamFrames'
BY DEF BackedInv, StreamFrames

\* The handlers of the SIP thread back every stream they leave,
LEMMA ServerBacked ==
  ASSUME IInv, BackedInv
  PROVE  /\ \A id \in ServerIds, cseq \in 1..MaxCseq, ok \in BOOLEAN :
              InviteRequest(id, cseq, ok) \/ AckRequest(id, cseq, ok) => BackedInv'
         /\ InviteBadSdp => BackedInv'
         /\ InviteCreateSession => BackedInv'
         /\ \A id \in ServerIds : ByeRequest(id) => BackedInv'
<1>0. /\ SipIdle.op = "idle"
      /\ sessions \in [Ids -> Session] /\ adapters \in [Ids -> Ports \cup {NoPort}]
  BY DEF SipIdle, IInv, TypeOK
<1>1. ASSUME NEW id \in ServerIds, NEW cseq \in 1..MaxCseq, NEW ok \in BOOLEAN,
             InviteRequest(id, cseq, ok)
      PROVE  BackedInv'
  <2>1. UNCHANGED <<sessions, adapters, mgmt, issued, invited, records, node>>
    BY <1>1 DEF InviteRequest
  <2>2. sip'.op # "response"
    BY <1>0, <1>1 DEF InviteRequest
  <2> QED
    BY <2>1, <2>2, TablesBacked, SipFrames DEF BackedInv
<1>2. ASSUME InviteBadSdp PROVE BackedInv'
  BY <1>0, <1>2, TablesBacked, SipFrames DEF BackedInv, InviteBadSdp
<1>3. ASSUME InviteCreateSession PROVE BackedInv'
  <2> DEFINE s == [localRtpPort |-> sip.port, state |-> "stream-requested",
                   inviteCseq |-> sip.cseq, targetDeviceId |-> NoDevice]
  <2>1. /\ sip.op = "invite" /\ sip.port \in Ports /\ sip.id \in ServerIds /\ sip' = SipIdle
        /\ UNCHANGED <<mgmt, issued, invited, node>>
    BY <1>3 DEF InviteCreateSession, IInv, FrameShape
  <2>2. creatable(s)
    BY <2>1, PortsPositive DEF IInv, PortExclusive, SipHolds, creatable
  <2>3. /\ sessions' = [sessions EXCEPT ![sip.id] = s] /\ adapters' = adapters
        /\ records' = records \cup {sip.id}
    BY <1>3, <2>2 DEF InviteCreateSession, createSession
  <2>4. /\ sessions'[sip.id] = s /\ sip.id \in Ids
        /\ \A i \in Ids \ {sip.id} : sessions'[i] = sessions[i]
    BY <1>0, <2>1, <2>3 DEF Ids
  <2>5. s # NoSession
    BY <2>1, PortsPositive DEF NoSession
  <2>6. sip.id \notin invited /\ sip.id \notin ClientIds
    BY <2>1, IdsAssumption DEF IInv, TypeOK
  <2>7. StreamHasAdapter'
    BY <2>1, <2>3, <2>4, <2>6 DEF BackedInv, StreamsBacked, StreamHasAdapter, findSession,
                           rtpSessionAdapterRunning
  <2>8. DialogRecorded'
    BY <2>3, <2>4, <2>5 DEF BackedInv, StreamsBacked, DialogRecorded, findSession, Ids
  <2>9. SendReady'
    <3>1. mgmt.op = "send" => mgmt.id \in Ids \ {sip.id}
      BY <2>6 DEF IInv, FrameShape
    <3> QED
      BY <2>1, <2>3, <2>4, <3>1 DEF BackedInv, SendReady, findSession
  <2>10. ServerSessions'
    BY <2>4 DEF BackedInv, ServerSessions, Ids
  <2>11. StreamFrames'
    BY <1>0, <2>1, SipFrames
  <2> QED
    BY <2>7, <2>8, <2>9, <2>10, <2>11 DEF BackedInv, StreamsBacked
<1>4. ASSUME NEW id \in ServerIds, NEW cseq \in 1..MaxCseq, NEW ok \in BOOLEAN,
             AckRequest(id, cseq, ok)
      PROVE  BackedInv'
  <2>1. /\ UNCHANGED <<sip, mgmt, issued, invited, node>>
        /\ sessions[id] # NoSession /\ id \in Ids
    BY <1>4 DEF AckRequest, findSession, Ids
  <2>2. PICK state \in {"stream-confirmed", "rtp-start-failed"} :
          /\ sessions' = [sessions EXCEPT ![id].state = state]
          /\ \/ adapters' = adapters
             \/ adapters' = [adapters EXCEPT ![id] = sessions[id].localRtpPort]
          /\ state = "stream-confirmed" =>
               \/ adapters[id] # NoPort /\ adapters' = adapters
               \/ adapters' = [adapters EXCEPT ![id] = sessions[id].localRtpPort]
    BY <1>4 DEF AckRequest, updateSessionState, startRtpSessionAdapter, rtpSessionAdapterRunning
  <2>3. sessions[id].localRtpPort \in Ports /\ sessions[id].localRtpPort # NoPort
    BY <2>1, PortsPositive DEF IInv, SessionShape, findSession
  <2>4. /\ \A i \in Ids \ {id} : sessions'[i] = sessions[i] /\ adapters'[i] = adapters[i]
        /\ sessions'[id] = [sessions[id] EXCEPT !.state = state]
        /\ state = "stream-confirmed" => adapters'[id] # NoPort
    BY <1>0, <2>1, <2>2, <2>3
  <2>5. /\ sessions'[id].state = state
        /\ sessions'[id].localRtpPort = sessions[id].localRtpPort
        /\ sessions'[id].targetDeviceId = sessions[id].targetDeviceId
    BY <1>0, <2>1, <2>4 DEF Session
  <2>6. sessions'[id] # NoSession
    BY <2>3, <2>5 DEF NoSession
  <2>7. id \notin invited /\ id \notin ClientIds
    BY IdsAssumption DEF IInv, TypeOK
  <2>8. StreamHasAdapter'
    BY <2>1, <2>2, <2>4, <2>5, <2>7
    DEF BackedInv, StreamsBacked, StreamHasAdapter, findSession, rtpSessionAdapterRunning
  <2>9. records' = records
    <3>1. id \in records
      BY <2>1 DEF BackedInv, StreamsBacked, DialogRecorded, findSession
    <3> QED
      BY <1>4, <3>1 DEF AckRequest
  <2>10. DialogRecorded'
    BY <2>1, <2>4, <2>6, <2>9 DEF BackedInv, StreamsBacked, DialogRecorded, findSession, Ids
  <2>11. SendReady'
    <3>1. mgmt.op = "send" => mgmt.id \in Ids \ {id}
      BY <2>7 DEF IInv, FrameShape
    <3> QED
      BY <2>1, <2>4, <3>1 DEF BackedInv, SendReady, findSession
  <2>12. ServerSessions'
    BY <2>4, <2>5 DEF BackedInv, ServerSessions, Ids
  <2>13. StreamFrames'
    BY <2>1, SipFrames
  <2> QED
    BY <2>8, <2>10, <2>11, <2>12, <2>13 DEF BackedInv, StreamsBacked
<1>5. ASSUME NEW id \in ServerIds, ByeRequest(id) PROVE BackedInv'
  <2>1. /\ closeSession(id) /\ UNCHANGED <<sip, mgmt, issued, invited, node>>
        /\ records' = records \ {id} /\ id \in Ids
    BY <1>5 DEF ByeRequest, Ids
  <2> QED
    BY <2>1, CloseBacked, SipFrames DEF BackedInv
<1> QED
  BY <1>1, <1>2, <1>3, <1>4, <1>5

\* the commands of the management thread do,
LEMMA ClientBacked ==
  ASSUME IInv, BackedInv
  PROVE  /\ \A id \in ClientIds : InviteRejected(id) \/ InviteAccepted(id) => BackedInv'
         /\ \A ok \in BOOLEAN : InviteConfirm(ok) => BackedInv'
<1>0. /\ SipIdle.op = "idle"
      /\ sessions \in [Ids -> Session] /\ adapters \in [Ids -> Ports \cup {NoPort}]
      /\ \A id \in ClientIds : id \in Ids /\ id \notin ServerIds
  BY IdsAssumption DEF SipIdle, IInv, TypeOK, Ids
<1>1. ASSUME NEW id \in ClientIds, InviteRejected(id) PROVE BackedInv'
  <2>1. closeSession(id) /\ UNCHANGED <<sip, mgmt, issued, invited, records, node>>
    BY <1>1 DEF InviteRejected
  <2> QED
    BY <1>0, <2>1, CloseBacked, SipFrames DEF BackedInv
<1>2. ASSUME NEW id \in ClientIds, InviteAccepted(id) PROVE BackedInv'
  <2>1. /\ UNCHANGED <<sessions, adapters, mgmt, issued, invited, records, node>>
        /\ sip'.id = id /\ id \in invited
    BY <1>2 DEF InviteAccepted
  <2> QED
    BY <2>1, TablesBacked, SipFrames DEF BackedInv
<1>3. ASSUME NEW ok \in BOOLEAN, InviteConfirm(ok) PROVE BackedInv'
  <2> DEFINE id == sip.id
             s == [sessions[id] EXCEPT !.localRtpPort = sip.port, !.inviteCseq = sip.cseq,
                                       !.state = "stream-confirmed"]
  <2>1. /\ sip.op = "response" /\ id \in invited /\ id \in ClientIds /\ sip' = SipIdle
        /\ UNCHANGED <<mgmt, issued, invited, records, node>>
    BY <1>3 DEF InviteConfirm, BackedInv, StreamFrames, IInv, TypeOK
  <2>2. StreamFrames'
    BY <1>0, <2>1, SipFrames
  <2>3. CASE updatable(id, s) /\ ok
    <3>1. /\ sessions' = [sessions EXCEPT ![id] = s] /\ adapters' = adapters
          /\ sessions[id] # NoSession /\ sessions[id].localRtpPort = s.localRtpPort
      BY <1>3, <2>3 DEF InviteConfirm, updateSession, updatable, findSession
    <3>2. /\ sessions'[id] = s
          /\ \A i \in Ids \ {id} : sessions'[i] = sessions[i]
      BY <1>0, <2>1, <3>1
    <3>3. sessions[id].localRtpPort # NoPort
      BY <1>0, <2>1, <3>1, PortsPositive DEF IInv, SessionShape, findSession
    <3>4. sessions'[id].localRtpPort = sessions[id].localRtpPort
      BY <3>1, <3>2
    <3>5. StreamHasAdapter'
      <4>1. node = "up" => adapters[id] = sessions[id].localRtpPort
        BY <1>0, <2>1, <3>1 DEF BackedInv, StreamsBacked, StreamHasAdapter, findSession
      <4> HIDE DEF s, id
      <4> QED
        BY <2>1, <3>1, <3>2, <3>3, <3>4, <4>1
        DEF BackedInv, StreamsBacked, StreamHasAdapter, findSession, rtpSessionAdapterRunning
    <3>6. DialogRecorded' /\ ServerSessions'
      BY <1>0, <2>1, <3>2
      DEF BackedInv, StreamsBacked, DialogRecorded, ServerSessions, findSession, Ids
    <3>7. SendReady'
      <4>1. mgmt.op = "send" => mgmt.id \in Ids \ {id}
        BY <2>1 DEF IInv, FrameShape, BackedInv, StreamFrames
      <4> QED
        BY <2>1, <3>1, <3>2, <4>1 DEF BackedInv, SendReady, findSession
    <3> QED
      BY <2>2, <3>5, <3>6, <3>7 DEF BackedInv, StreamsBacked
  <2>4. CASE ~(updatable(id, s) /\ ok)
    <3>1. closeSession(id)
      BY <1>3, <2>4 DEF InviteConfirm
    <3> QED
      BY <1>0, <2>1, <2>2, <3>1, CloseBacked DEF BackedInv
  <2> QED
    BY <2>3, <2>4
<1> QED
  BY <1>1, <1>2, <1>3

\* so does its invite command,
LEMMA CommandBacked ==
  ASSUME IInv, BackedInv
  PROVE  /\ \A device \in Devices, id \in ClientIds : RequestInvite(device, id) => BackedInv'
         /\ RequestInviteCreate => BackedInv'
         /\ \A ok \in BOOLEAN : RequestInviteStart(ok) \/ RequestInviteSend(ok) => BackedInv'
<1>0. /\ MgmtIdle.op = "idle"
      /\ sessions \in [Ids -> Session] /\ adapters \in [Ids -> Ports \cup {NoPort}]
      /\ \A id \in ClientIds : id \in Ids /\ id \notin ServerIds
  BY IdsAssumption DEF MgmtIdle, IInv, TypeOK, Ids
<1>1. ASSUME NEW device \in Devices, NEW id \in ClientIds, RequestInvite(device, id)
      PROVE  BackedInv'
  <2>1. /\ UNCHANGED <<sessions, adapters, sip, invited, records, node>>
        /\ id \notin issued /\ node = "up"
        /\ \/ UNCHANGED <<mgmt, issued>>
           \/ mgmt'.op = "create" /\ mgmt'.id = id /\ issued' = issued \cup {id}
    BY <1>1 DEF RequestInvite, MgmtReady
  <2>2. StreamFrames'
    BY <2>1 DEF BackedInv, StreamFrames
  <2> QED
    BY <2>1, <2>2, TablesBacked DEF BackedInv
<1>2. ASSUME RequestInviteCreate PROVE BackedInv'
  <2> DEFINE s == [localRtpPort |-> mgmt.port, state |-> "invite-requested",
                   inviteCseq |-> 1, targetDeviceId |-> mgmt.device]
             id == mgmt.id
  <2>1. /\ mgmt.op = "create" /\ mgmt.port \in Ports /\ id \in ClientIds
        /\ id \in issued \ invited /\ node = "up"
        /\ UNCHANGED <<sip, issued, invited, records, node>>
    BY <1>2 DEF RequestInviteCreate, IInv, TypeOK, FrameShape, BackedInv, StreamFrames
  <2>2. creatable(s)
    BY <2>1, PortsPositive DEF IInv, PortExclusive, MgmtHolds, creatable
  <2>3. /\ sessions' = [sessions EXCEPT ![id] = s] /\ adapters' = adapters
        /\ mgmt' = [mgmt EXCEPT !.op = "start"]
    BY <1>2, <2>2 DEF RequestInviteCreate, createSession
  <2>4. mgmt'.op = "start" /\ mgmt'.id = id
    BY <2>3 DEF IInv, TypeOK, MgmtFrame
  <2>5. /\ sessions'[id] = s
        /\ \A i \in Ids \ {id} : sessions'[i] = sessions[i]
    BY <1>0, <2>1, <2>3
  <2>6. StreamHasAdapter'
    BY <2>1, <2>3, <2>5 DEF BackedInv, StreamsBacked, StreamHasAdapter, findSession,
                            rtpSessionAdapterRunning
  <2>7. DialogRecorded' /\ ServerSessions'
    BY <1>0, <2>1, <2>5
    DEF BackedInv, StreamsBacked, DialogRecorded, ServerSessions, findSession, Ids
  <2>8. SendReady'
    BY <2>4 DEF SendReady
  <2>9. StreamFrames'
    BY <2>1, <2>4 DEF BackedInv, StreamFrames
  <2> QED
    BY <2>6, <2>7, <2>8, <2>9 DEF BackedInv, StreamsBacked
<1>3. ASSUME NEW ok \in BOOLEAN, RequestInviteStart(ok) PROVE BackedInv'
  <2> DEFINE id == mgmt.id
  <2>1. /\ mgmt.op = "start" /\ id \in ClientIds /\ id \in issued \ invited /\ node = "up"
        /\ UNCHANGED <<sip, issued, invited, records, node>>
    BY <1>3 DEF RequestInviteStart, IInv, TypeOK, FrameShape, BackedInv, StreamFrames
  <2>2. CASE startable(id) /\ ok
    <3>1. /\ adapters' = [adapters EXCEPT ![id] = sessions[id].localRtpPort]
          /\ sessions' = sessions /\ mgmt' = [mgmt EXCEPT !.op = "send"]
          /\ sessions[id] # NoSession
      BY <1>3, <2>2 DEF RequestInviteStart, startRtpSessionAdapter, startable, findSession
    <3>2. /\ adapters'[id] = sessions[id].localRtpPort
          /\ \A i \in Ids \ {id} : adapters'[i] = adapters[i]
          /\ adapters'[id] # NoPort
      BY <1>0, <2>1, <3>1, PortsPositive DEF IInv, SessionShape, findSession
    <3>3. mgmt'.op = "send" /\ mgmt'.id = id
      BY <3>1 DEF IInv, TypeOK, MgmtFrame
    <3>4. StreamHasAdapter'
      BY <2>1, <3>1, <3>2 DEF BackedInv, StreamsBacked, StreamHasAdapter, findSession,
                              rtpSessionAdapterRunning
    <3>5. DialogRecorded' /\ ServerSessions'
      BY <2>1, <3>1 DEF BackedInv, StreamsBacked, DialogRecorded, ServerSessions, findSession
    <3>6. SendReady'
      BY <3>1, <3>2, <3>3 DEF SendReady, findSession
    <3>7. StreamFrames'
      BY <2>1, <3>3 DEF BackedInv, StreamFrames
    <3> QED
      BY <3>4, <3>5, <3>6, <3>7 DEF BackedInv, StreamsBacked
  <2>3. CASE ~(startable(id) /\ ok)
    <3>1. closeSession(id) /\ mgmt' = MgmtIdle
      BY <1>3, <2>3 DEF RequestInviteStart
    <3>2. StreamFrames'
      BY <1>0, <2>1, <3>1 DEF BackedInv, StreamFrames
    <3> QED
      BY <1>0, <2>1, <3>1, <3>2, CloseBacked DEF BackedInv
  <2> QED
    BY <2>2, <2>3
<1>4. ASSUME NEW ok \in BOOLEAN, RequestInviteSend(ok) PROVE BackedInv'
  <2>1. /\ mgmt.op = "send" /\ mgmt.id \in ClientIds /\ mgmt.id \in issued \ invited
        /\ mgmt' = MgmtIdle /\ UNCHANGED <<sip, issued, records, node>>
    BY <1>4 DEF RequestInviteSend, IInv, TypeOK, FrameShape, BackedInv, StreamFrames
  <2>2. CASE ok
    <3>1. invited' = invited \cup {mgmt.id} /\ UNCHANGED <<sessions, adapters>>
      BY <1>4, <2>2 DEF RequestInviteSend, mediaVars
    <3>2. StreamHasAdapter'
      BY <2>1, <3>1 DEF BackedInv, StreamsBacked, StreamHasAdapter, SendReady, findSession,
                        rtpSessionAdapterRunning
    <3>3. DialogRecorded' /\ ServerSessions' /\ SendReady'
      BY <1>0, <2>1, <3>1
      DEF BackedInv, StreamsBacked, DialogRecorded, ServerSessions, SendReady, findSession
    <3>4. StreamFrames'
      BY <1>0, <2>1, <3>1 DEF BackedInv, StreamFrames
    <3> QED
      BY <3>2, <3>3, <3>4 DEF BackedInv, StreamsBacked
  <2>3. CASE ~ok
    <3>1. closeSession(mgmt.id) /\ UNCHANGED invited
      BY <1>4, <2>3 DEF RequestInviteSend
    <3>2. StreamFrames'
      BY <1>0, <2>1, <3>1 DEF BackedInv, StreamFrames
    <3> QED
      BY <1>0, <2>1, <3>1, <3>2, CloseBacked DEF BackedInv
  <2> QED
    BY <2>2, <2>3
<1> QED
  BY <1>1, <1>2, <1>3, <1>4

\* and BYE, packets, stop and start.
LEMMA OtherBacked ==
  ASSUME IInv, BackedInv
  PROVE  /\ \A device \in Devices : RequestBye(device) => BackedInv'
         /\ \A ok \in BOOLEAN : RequestByeClose(ok) => BackedInv'
         /\ \A id \in Ids : RtpArrives(id) => BackedInv'
         /\ Stop \/ Destroy \/ Start => BackedInv'
<1>0. /\ MgmtIdle.op = "idle" /\ SipIdle.op = "idle"
      /\ sessions \in [Ids -> Session] /\ adapters \in [Ids -> Ports \cup {NoPort}]
      /\ \A id \in ClientIds : id \in Ids /\ id \notin ServerIds
  BY IdsAssumption DEF MgmtIdle, SipIdle, IInv, TypeOK, Ids
<1>1. ASSUME NEW device \in Devices, RequestBye(device) PROVE BackedInv'
  <2>1. /\ UNCHANGED <<sessions, adapters, sip, issued, invited, records, node>>
        /\ node = "up"
    BY <1>1 DEF RequestBye, MgmtReady
  <2>2. PICK id \in Ids :
          /\ sessions[id].targetDeviceId = device
          /\ mgmt' = [op |-> "bye", id |-> id, port |-> NoPort, device |-> device]
    BY <1>1 DEF RequestBye, SessionsOf
  <2>3. id \in ClientIds
    BY <2>2, IdsAssumption DEF BackedInv, ServerSessions, Ids
  <2>4. StreamFrames'
    BY <2>1, <2>2, <2>3 DEF BackedInv, StreamFrames
  <2> QED
    BY <2>1, <2>2, <2>4, TablesBacked DEF BackedInv
<1>2. ASSUME NEW ok \in BOOLEAN, RequestByeClose(ok) PROVE BackedInv'
  <2>1. /\ mgmt.op = "bye" /\ mgmt.id \in ClientIds /\ mgmt' = MgmtIdle
        /\ UNCHANGED <<sip, issued, invited, records, node>>
        /\ UNCHANGED <<sessions, adapters>> \/ closeSession(mgmt.id)
    BY <1>2 DEF RequestByeClose, BackedInv, StreamFrames, mediaVars
  <2>2. StreamFrames'
    BY <1>0, <2>1 DEF BackedInv, StreamFrames
  <2> QED
    BY <1>0, <2>1, <2>2, CloseBacked, TablesBacked DEF BackedInv
<1>3. ASSUME NEW id \in Ids, RtpArrives(id) PROVE BackedInv'
  <2>1. /\ UNCHANGED <<adapters, sip, mgmt, issued, invited, records, node>>
        /\ sessions[id] # NoSession /\ adapters[id] # NoPort
        /\ sessions' = [sessions EXCEPT ![id].state = "stream-receiving"]
    BY <1>3 DEF RtpArrives, findSession, receiveRtpPacket, rtpSessionAdapterRunning
  <2>2. /\ \A i \in Ids \ {id} : sessions'[i] = sessions[i]
        /\ sessions'[id].localRtpPort = sessions[id].localRtpPort
        /\ sessions'[id].targetDeviceId = sessions[id].targetDeviceId
        /\ sessions'[id].state = "stream-receiving"
    BY <1>0, <2>1 DEF Session
  <2>3. sessions'[id] # NoSession
    BY <2>2 DEF NoSession
  <2>4. StreamHasAdapter'
    BY <2>1, <2>2
    DEF BackedInv, StreamsBacked, StreamHasAdapter, findSession, rtpSessionAdapterRunning
  <2>5. DialogRecorded' /\ ServerSessions'
    BY <2>1, <2>2, <2>3
    DEF BackedInv, StreamsBacked, DialogRecorded, ServerSessions, findSession, Ids
  <2>6. SendReady'
    <3>1. mgmt.op = "send" => mgmt.id \in Ids
      BY DEF IInv, FrameShape
    <3> QED
      BY <2>1, <2>2, <3>1 DEF BackedInv, SendReady, findSession
  <2>7. StreamFrames'
    BY <2>1, SipFrames
  <2> QED
    BY <2>4, <2>5, <2>6, <2>7 DEF BackedInv, StreamsBacked
<1>4. ASSUME Stop \/ Destroy PROVE BackedInv'
  <2>1. /\ UNCHANGED <<sessions, sip, mgmt, issued, invited, records>>
        /\ node' \in {"stopping", "down"} /\ mgmt.op = "idle"
    BY <1>0, <1>4 DEF Stop, Destroy, MgmtReady, BackedInv, StreamFrames
  <2> QED
    BY <2>1 DEF BackedInv, StreamsBacked, StreamHasAdapter, DialogRecorded, StreamFrames,
                SendReady, ServerSessions, findSession
<1>5. ASSUME Start PROVE BackedInv'
  <2>1. /\ sessions' = [i \in Ids |-> NoSession]
        /\ sip' = SipIdle /\ mgmt' = MgmtIdle
        /\ records' = {} /\ invited' = {}
    BY <1>5 DEF Start, configure
  <2>2. NoSession.state = "none" /\ NoSession.targetDeviceId = NoDevice
    BY DEF NoSession
  <2> QED
    BY <1>0, <2>1, <2>2
    DEF BackedInv, StreamsBacked, StreamHasAdapter, DialogRecorded, StreamFrames,
        SendReady, ServerSessions, findSession, Ids
<1> QED
  BY <1>1, <1>2, <1>3, <1>4, <1>5

\* Every step leaves every stream backed.
LEMMA NextBacked == IInv /\ BackedInv /\ [Next]_vars => BackedInv'
<1> SUFFICES ASSUME IInv, BackedInv, [Next]_vars PROVE BackedInv'
  OBVIOUS
<1>1. CASE ServerRequest \/ InviteBadSdp \/ InviteCreateSession
  BY <1>1, ServerBacked DEF ServerRequest
<1>2. CASE ClientResponse \/ \E ok \in BOOLEAN : InviteConfirm(ok)
  BY <1>2, ClientBacked DEF ClientResponse
<1>3. CASE \/ Command
           \/ RequestInviteCreate
           \/ \E ok \in BOOLEAN : RequestInviteStart(ok) \/ RequestInviteSend(ok)
  BY <1>3, CommandBacked, OtherBacked DEF Command
<1>4. CASE \/ \E ok \in BOOLEAN : RequestByeClose(ok)
           \/ \E id \in Ids : RtpArrives(id)
           \/ Stop \/ Destroy \/ Start
  BY <1>4, OtherBacked
<1>5. CASE UNCHANGED vars
  BY <1>5 DEF vars, BackedInv, StreamsBacked, StreamHasAdapter, DialogRecorded, StreamFrames,
     SendReady, ServerSessions, findSession, rtpSessionAdapterRunning
<1> QED
  BY <1>1, <1>2, <1>3, <1>4, <1>5 DEF Next

-----------------------------------------------------------------------------
(* The port leases                                                         *)

\* Who holds each port: the state of PortLease.
holding == [port \in Ports |-> HolderOf(port)]

\* With one holder per port, HolderOf names it: no CHOOSE is ambiguous and no
\* case of its CASE hides another.
HolderFacts ==
  \A p \in Ports :
    /\ HolderOf(p) \in Ids \cup {"sip", "mgmt", "free"}
    /\ HolderOf(p) = "sip" <=> SipHolds(p)
    /\ HolderOf(p) = "mgmt" <=> MgmtHolds(p)
    /\ \A id \in Ids : HolderOf(p) = id <=> SessionHolds(id, p)

\* The invariant gives each port one holder at most.
LEMMA HolderLemma == IInv => HolderFacts
<1> SUFFICES ASSUME IInv, NEW p \in Ports
             PROVE  /\ HolderOf(p) \in Ids \cup {"sip", "mgmt", "free"}
                    /\ HolderOf(p) = "sip" <=> SipHolds(p)
                    /\ HolderOf(p) = "mgmt" <=> MgmtHolds(p)
                    /\ \A id \in Ids : HolderOf(p) = id <=> SessionHolds(id, p)
  BY DEF HolderFacts
<1>1. \A id \in Ids : id # "sip" /\ id # "mgmt" /\ id # "free"
  BY HolderNames
<1>2. /\ SipHolds(p) => ~MgmtHolds(p)
      /\ \A id \in Ids : SessionHolds(id, p) =>
           /\ ~SipHolds(p) /\ ~MgmtHolds(p)
           /\ \A other \in Ids \ {id} : ~SessionHolds(other, p)
  BY DEF IInv, PortExclusive
<1>3. CASE SipHolds(p)
  BY <1>1, <1>2, <1>3 DEF HolderOf
<1>4. CASE MgmtHolds(p)
  BY <1>1, <1>2, <1>4 DEF HolderOf
<1>5. CASE ~SipHolds(p) /\ ~MgmtHolds(p) /\ \E id \in Ids : SessionHolds(id, p)
  <2>1. HolderOf(p) = CHOOSE id \in Ids : SessionHolds(id, p)
    BY <1>5 DEF HolderOf
  <2>2. HolderOf(p) \in Ids /\ SessionHolds(HolderOf(p), p)
    BY <1>5, <2>1
  <2> QED
    BY <1>1, <1>2, <1>5, <2>2
<1>6. CASE ~SipHolds(p) /\ ~MgmtHolds(p) /\ ~\E id \in Ids : SessionHolds(id, p)
  BY <1>1, <1>6 DEF HolderOf
<1> QED
  BY <1>3, <1>4, <1>5, <1>6

\* Nobody's holding changes: a stuttering step.
LEMMA LeaseStutter ==
  ASSUME HolderFacts, HolderFacts',
         \A p \in Ports : SipHolds(p)' <=> SipHolds(p),
         \A p \in Ports : MgmtHolds(p)' <=> MgmtHolds(p),
         \A id \in Ids, p \in Ports : SessionHolds(id, p)' <=> SessionHolds(id, p)
  PROVE  holding' = holding
<1>1. ASSUME NEW p \in Ports PROVE HolderOf(p)' = HolderOf(p)
  BY DEF HolderFacts
<1> QED
  BY <1>1, Zenon DEF holding

\* A free port goes to a handler.
LEMMA LeaseTake ==
  ASSUME HolderFacts, HolderFacts', NEW port \in Ports, NEW h \in {"sip", "mgmt"},
         ~SipHolds(port), ~MgmtHolds(port), \A id \in Ids : ~SessionHolds(id, port),
         \A p \in Ports : SipHolds(p)' <=> SipHolds(p) \/ (h = "sip" /\ p = port),
         \A p \in Ports : MgmtHolds(p)' <=> MgmtHolds(p) \/ (h = "mgmt" /\ p = port),
         \A id \in Ids, p \in Ports : SessionHolds(id, p)' <=> SessionHolds(id, p)
  PROVE  Lease!Next
<1>1. HolderOf(port) = "free" /\ HolderOf(port)' = h
  BY DEF HolderFacts
<1>2. ASSUME NEW p \in Ports, p # port PROVE HolderOf(p)' = HolderOf(p)
  BY <1>2 DEF HolderFacts
<1>3. holding[port] = "free" /\ holding' = [holding EXCEPT ![port] = h]
  BY <1>1, <1>2 DEF holding
<1>4. Lease!Take(port, h)
  BY <1>3, Zenon DEF Lease!Take, holding
<1> QED
  BY <1>4 DEF Lease!Next

\* A handler gives its port back.
LEMMA LeaseGiveBack ==
  ASSUME HolderFacts, HolderFacts', NEW port \in Ports, NEW h \in {"sip", "mgmt"},
         IF h = "sip" THEN SipHolds(port) ELSE MgmtHolds(port),
         \A p \in Ports : SipHolds(p)' <=> SipHolds(p) /\ p # port,
         \A p \in Ports : MgmtHolds(p)' <=> MgmtHolds(p) /\ p # port,
         \A id \in Ids, p \in Ports : SessionHolds(id, p)' <=> SessionHolds(id, p)
  PROVE  Lease!Next
<1>0. \A id \in Ids : id # "sip" /\ id # "mgmt" /\ id # "free"
  BY HolderNames
<1>1. HolderOf(port) = h
  BY DEF HolderFacts
<1>2. HolderOf(port)' = "free"
  BY <1>0, <1>1 DEF HolderFacts
<1>3. ASSUME NEW p \in Ports, p # port PROVE HolderOf(p)' = HolderOf(p)
  BY <1>3 DEF HolderFacts
<1>4. holding[port] = h /\ holding' = [holding EXCEPT ![port] = "free"]
  BY <1>1, <1>2, <1>3 DEF holding
<1>5. Lease!GiveBack(port, h)
  BY <1>4, Zenon DEF Lease!GiveBack, holding
<1> QED
  BY <1>5 DEF Lease!Next

\* A handler's port becomes a stream's, and the stream's former port goes back.
LEMMA LeaseBestow ==
  ASSUME HolderFacts, HolderFacts', NEW port \in Ports, NEW h \in {"sip", "mgmt"},
         NEW id \in Ids,
         IF h = "sip" THEN SipHolds(port) ELSE MgmtHolds(port),
         \A p \in Ports : SipHolds(p)' <=> SipHolds(p) /\ p # port,
         \A p \in Ports : MgmtHolds(p)' <=> MgmtHolds(p) /\ p # port,
         \A i \in Ids, p \in Ports :
           SessionHolds(i, p)' <=> IF i = id THEN p = port ELSE SessionHolds(i, p)
  PROVE  Lease!Next
<1>0. \A i \in Ids : i # "sip" /\ i # "mgmt" /\ i # "free"
  BY HolderNames
<1>1. HolderOf(port) = h /\ HolderOf(port)' = id
  BY DEF HolderFacts
<1>2. ASSUME NEW p \in Ports, p # port, HolderOf(p) = id PROVE HolderOf(p)' = "free"
  BY <1>0, <1>2 DEF HolderFacts
<1>3. ASSUME NEW p \in Ports, p # port, HolderOf(p) # id PROVE HolderOf(p)' = HolderOf(p)
  BY <1>3 DEF HolderFacts
<1>4. /\ holding[port] = h
      /\ holding' = [q \in Ports |-> CASE q = port -> id
                                       [] q # port /\ holding[q] = id -> "free"
                                       [] OTHER -> holding[q]]
  BY <1>1, <1>2, <1>3 DEF holding
<1>5. Lease!Bestow(port, h, id)
  BY <1>4, Zenon DEF Lease!Bestow, holding
<1> QED
  BY <1>5 DEF Lease!Next

\* A stream ends: its port goes back, if it is in the table at all.
LEMMA LeaseEnd ==
  ASSUME HolderFacts, HolderFacts', NEW id \in Ids,
         \A p \in Ports : SipHolds(p)' <=> SipHolds(p),
         \A p \in Ports : MgmtHolds(p)' <=> MgmtHolds(p),
         \A i \in Ids, p \in Ports : SessionHolds(i, p)' <=> i # id /\ SessionHolds(i, p)
  PROVE  Lease!Next \/ UNCHANGED holding
<1>0. \A i \in Ids : i # "sip" /\ i # "mgmt" /\ i # "free"
  BY HolderNames
<1>1. CASE \E p \in Ports : SessionHolds(id, p)
  <2>1. \E p \in Ports : HolderOf(p) = id
    BY <1>1 DEF HolderFacts
  <2>2. ASSUME NEW p \in Ports, HolderOf(p) = id PROVE HolderOf(p)' = "free"
    BY <1>0, <2>2 DEF HolderFacts
  <2>3. ASSUME NEW p \in Ports, HolderOf(p) # id PROVE HolderOf(p)' = HolderOf(p)
    BY <2>3 DEF HolderFacts
  <2>4. /\ \E p \in Ports : holding[p] = id
        /\ holding' = [p \in Ports |-> IF holding[p] = id THEN "free" ELSE holding[p]]
    BY <2>1, <2>2, <2>3 DEF holding
  <2>5. Lease!End(id)
    BY <2>4, Zenon DEF Lease!End, holding
  <2> QED
    BY <2>5 DEF Lease!Next, Ids
<1>2. CASE ~\E p \in Ports : SessionHolds(id, p)
  BY <1>2, LeaseStutter
<1> QED
  BY <1>1, <1>2

\* A step that only restates how far a session has come.
LEMMA SessionRestated ==
  ASSUME IInv, HolderFacts, HolderFacts', NEW id \in Ids, findSession(id),
         \E state : sessions' = [sessions EXCEPT ![id].state = state],
         \A p \in Ports : SipHolds(p)' <=> SipHolds(p),
         \A p \in Ports : MgmtHolds(p)' <=> MgmtHolds(p)
  PROVE  Lease!Next \/ UNCHANGED holding
<1>1. PICK state : sessions' = [sessions EXCEPT ![id].state = state]
  OBVIOUS
<1>2. sessions[id] \in Session /\ sessions[id].localRtpPort \in Ports
  BY DEF IInv, TypeOK, SessionShape
<1>3. /\ \A i \in Ids \ {id} : sessions'[i] = sessions[i]
      /\ sessions'[id].localRtpPort = sessions[id].localRtpPort
  BY <1>1, <1>2 DEF IInv, TypeOK, Session
<1>4. sessions'[id] # NoSession
  BY <1>2, <1>3, PortsPositive DEF NoSession
<1>5. \A i \in Ids, p \in Ports : SessionHolds(i, p)' <=> SessionHolds(i, p)
  BY <1>3, <1>4 DEF SessionHolds, findSession
<1> QED
  BY <1>5, LeaseStutter

\* Closing a session ends a lease, or none.
LEMMA CloseLease ==
  ASSUME IInv, HolderFacts, HolderFacts', NEW id \in Ids, closeSession(id),
         \A p \in Ports : SipHolds(p)' <=> SipHolds(p),
         \A p \in Ports : MgmtHolds(p)' <=> MgmtHolds(p)
  PROVE  Lease!Next \/ UNCHANGED holding
<1>1. sessions' = [sessions EXCEPT ![id] = NoSession] /\ sessions \in [Ids -> Session]
  BY CloseLemma DEF IInv, TypeOK
<1>2. \A i \in Ids, p \in Ports : SessionHolds(i, p)' <=> i # id /\ SessionHolds(i, p)
  BY <1>1 DEF SessionHolds, findSession
<1> QED
  BY <1>2, LeaseEnd

\* Every step of the node takes, moves or returns ports the way a lease allows.
LEMMA LeaseStep ==
  ASSUME IInv, HolderFacts, HolderFacts', [Next]_vars
  PROVE  Lease!Next \/ UNCHANGED holding
<1>0. /\ SipIdle.op = "idle" /\ MgmtIdle.op = "idle"
      /\ sessions \in [Ids -> Session]
      /\ \A id \in ServerIds \cup ClientIds : id \in Ids
  BY DEF SipIdle, MgmtIdle, IInv, TypeOK, Ids
<1>1. ASSUME NEW port \in Ports, port \notin allocatedPorts
      PROVE  ~SipHolds(port) /\ ~MgmtHolds(port) /\ \A id \in Ids : ~SessionHolds(id, port)
  BY <1>1 DEF IInv, PortExclusive
<1>2. ASSUME NEW id \in ServerIds, NEW cseq \in 1..MaxCseq, NEW ok \in BOOLEAN,
             InviteRequest(id, cseq, ok)
      PROVE  Lease!Next \/ UNCHANGED holding
  <2>1. PICK port \in Ports \cup {NoPort} :
          /\ allocateRtpPort(port)
          /\ sip' = CASE port = NoPort -> SipIdle
                      [] port # NoPort /\ ~ok ->
                           [op |-> "bad-sdp", id |-> id, port |-> port, cseq |-> cseq]
                      [] OTHER ->
                           [op |-> "invite", id |-> id, port |-> port, cseq |-> cseq]
    BY <1>2 DEF InviteRequest
  <2>2. sip = SipIdle /\ UNCHANGED <<sessions, mgmt>>
    BY <1>2 DEF InviteRequest, SipReady
  <2>3. /\ \A p \in Ports : ~SipHolds(p) /\ (MgmtHolds(p)' <=> MgmtHolds(p))
        /\ \A i \in Ids, p \in Ports : SessionHolds(i, p)' <=> SessionHolds(i, p)
    BY <1>0, <2>2 DEF SipHolds, MgmtHolds, SessionHolds, findSession
  <2>4. CASE port = NoPort
    <3>1. sip' = SipIdle
      BY <2>1, <2>4
    <3>2. \A p \in Ports : ~SipHolds(p)'
      BY <1>0, <3>1 DEF SipHolds
    <3> QED
      BY <2>3, <3>2, LeaseStutter
  <2>5. CASE port # NoPort
    <3>1. port \in Ports /\ port \notin allocatedPorts
      BY <2>1, <2>5, AllocateLemma DEF PoolTyped, IInv, TypeOK
    <3>2. sip'.op \in {"invite", "bad-sdp"} /\ sip'.port = port
      BY <2>1, <2>5
    <3>3. \A p \in Ports : SipHolds(p)' <=> p = port
      BY <3>2 DEF SipHolds
    <3> QED
      BY <1>1, <2>3, <3>1, <3>3, LeaseTake
  <2> QED
    BY <2>4, <2>5
<1>3. ASSUME InviteBadSdp PROVE Lease!Next \/ UNCHANGED holding
  <2>1. /\ sip.op = "bad-sdp" /\ sip.port \in Ports /\ sip' = SipIdle
        /\ UNCHANGED <<sessions, mgmt>>
    BY <1>3 DEF InviteBadSdp, IInv, FrameShape
  <2>2. /\ \A p \in Ports : (SipHolds(p) <=> p = sip.port) /\ ~SipHolds(p)'
        /\ \A p \in Ports : MgmtHolds(p)' <=> MgmtHolds(p)
        /\ \A i \in Ids, p \in Ports : SessionHolds(i, p)' <=> SessionHolds(i, p)
    BY <1>0, <2>1 DEF SipHolds, MgmtHolds, SessionHolds, findSession
  <2>3. ~MgmtHolds(sip.port)
    BY <2>1, <2>2 DEF IInv, PortExclusive
  <2> QED
    BY <2>1, <2>2, <2>3, LeaseGiveBack
<1>4. ASSUME InviteCreateSession PROVE Lease!Next \/ UNCHANGED holding
  <2> DEFINE s == [localRtpPort |-> sip.port, state |-> "stream-requested",
                   inviteCseq |-> sip.cseq, targetDeviceId |-> NoDevice]
  <2>1. /\ sip.op = "invite" /\ sip.port \in Ports /\ sip.id \in Ids /\ sip' = SipIdle
        /\ UNCHANGED mgmt
    BY <1>0, <1>4 DEF InviteCreateSession, IInv, FrameShape
  <2>2. /\ \A p \in Ports : (SipHolds(p) <=> p = sip.port) /\ ~SipHolds(p)'
        /\ \A p \in Ports : MgmtHolds(p)' <=> MgmtHolds(p)
    BY <1>0, <2>1 DEF SipHolds, MgmtHolds
  <2>3. ~MgmtHolds(sip.port) /\ creatable(s)
    BY <2>1, <2>2, PortsPositive DEF IInv, PortExclusive, creatable
  <2>4. sessions' = [sessions EXCEPT ![sip.id] = s]
    BY <1>4, <2>3 DEF InviteCreateSession, createSession
  <2>5. s # NoSession
    BY <2>1, PortsPositive DEF NoSession
  <2>6. \A i \in Ids, p \in Ports :
          SessionHolds(i, p)' <=> IF i = sip.id THEN p = sip.port ELSE SessionHolds(i, p)
    BY <1>0, <2>1, <2>4, <2>5 DEF SessionHolds, findSession
  <2> QED
    BY <2>1, <2>2, <2>3, <2>6, LeaseBestow
<1>5. ASSUME NEW id \in ServerIds, NEW cseq \in 1..MaxCseq, NEW ok \in BOOLEAN,
             AckRequest(id, cseq, ok)
      PROVE  Lease!Next \/ UNCHANGED holding
  <2>1. /\ UNCHANGED <<sip, mgmt>> /\ id \in Ids /\ sessions[id] # NoSession
        /\ \E state : sessions' = [sessions EXCEPT ![id].state = state]
    BY <1>0, <1>5 DEF AckRequest, findSession, updateSessionState
  <2> QED
    BY <2>1, SessionRestated DEF SipHolds, MgmtHolds, findSession
<1>6. ASSUME NEW id \in Ids, ByeRequest(id) \/ InviteRejected(id)
      PROVE  Lease!Next \/ UNCHANGED holding
  BY <1>6, CloseLease DEF ByeRequest, InviteRejected, SipHolds, MgmtHolds
<1>7. ASSUME NEW id \in ClientIds, InviteAccepted(id) PROVE Lease!Next \/ UNCHANGED holding
  <2>1. /\ UNCHANGED <<sessions, mgmt>> /\ sip = SipIdle /\ sip'.op = "response"
    BY <1>7 DEF InviteAccepted, SipReady
  <2> QED
    BY <1>0, <2>1, LeaseStutter DEF SipHolds, MgmtHolds, SessionHolds, findSession
<1>8. ASSUME NEW ok \in BOOLEAN, InviteConfirm(ok) PROVE Lease!Next \/ UNCHANGED holding
  <2> DEFINE s == [sessions[sip.id] EXCEPT !.localRtpPort = sip.port, !.inviteCseq = sip.cseq,
                                           !.state = "stream-confirmed"]
  <2>1. /\ sip.op = "response" /\ sip.id \in Ids /\ sip.port \in Ports
        /\ sip' = SipIdle /\ UNCHANGED mgmt
    BY <1>8 DEF InviteConfirm, IInv, FrameShape
  <2>2. \A p \in Ports : ~SipHolds(p) /\ ~SipHolds(p)' /\ (MgmtHolds(p)' <=> MgmtHolds(p))
    BY <1>0, <2>1 DEF SipHolds, MgmtHolds
  <2>3. CASE updatable(sip.id, s) /\ ok
    <3>1. /\ sessions' = [sessions EXCEPT ![sip.id] = s]
          /\ sessions[sip.id] # NoSession /\ sessions[sip.id].localRtpPort = s.localRtpPort
      BY <1>8, <2>3 DEF InviteConfirm, updateSession, updatable, findSession
    <3>2. s.localRtpPort = sip.port
      BY <1>0, <2>1 DEF Session
    <3>3. s # NoSession
      BY <2>1, <3>2, PortsPositive DEF NoSession
    <3>4. \A i \in Ids, p \in Ports : SessionHolds(i, p)' <=> SessionHolds(i, p)
      BY <1>0, <2>1, <3>1, <3>2, <3>3 DEF SessionHolds, findSession
    <3> QED
      BY <2>2, <3>4, LeaseStutter
  <2>4. CASE ~(updatable(sip.id, s) /\ ok)
    <3>1. closeSession(sip.id)
      BY <1>8, <2>4 DEF InviteConfirm
    <3> QED
      BY <2>1, <2>2, <3>1, CloseLease
  <2> QED
    BY <2>3, <2>4
<1>9. ASSUME NEW device \in Devices, NEW id \in ClientIds, RequestInvite(device, id)
      PROVE  Lease!Next \/ UNCHANGED holding
  <2>1. PICK port \in Ports \cup {NoPort} :
          /\ allocateRtpPort(port)
          /\ IF port = NoPort
             THEN UNCHANGED <<mgmt, issued>>
             ELSE /\ mgmt' = [op |-> "create", id |-> id, port |-> port, device |-> device]
                  /\ issued' = issued \cup {id}
    BY <1>9 DEF RequestInvite
  <2>2. mgmt = MgmtIdle /\ UNCHANGED <<sessions, sip>>
    BY <1>9 DEF RequestInvite, MgmtReady
  <2>3. /\ \A p \in Ports : ~MgmtHolds(p) /\ (SipHolds(p)' <=> SipHolds(p))
        /\ \A i \in Ids, p \in Ports : SessionHolds(i, p)' <=> SessionHolds(i, p)
    BY <1>0, <2>2 DEF SipHolds, MgmtHolds, SessionHolds, findSession
  <2>4. CASE port = NoPort
    <3>1. \A p \in Ports : ~MgmtHolds(p)'
      BY <2>1, <2>3, <2>4 DEF MgmtHolds
    <3> QED
      BY <2>3, <3>1, LeaseStutter
  <2>5. CASE port # NoPort
    <3>1. port \in Ports /\ port \notin allocatedPorts
      BY <2>1, <2>5, AllocateLemma DEF PoolTyped, IInv, TypeOK
    <3>2. \A p \in Ports : MgmtHolds(p)' <=> p = port
      BY <2>1, <2>5 DEF MgmtHolds
    <3> QED
      BY <1>1, <2>3, <3>1, <3>2, LeaseTake
  <2> QED
    BY <2>4, <2>5
<1>10. ASSUME RequestInviteCreate PROVE Lease!Next \/ UNCHANGED holding
  <2> DEFINE s == [localRtpPort |-> mgmt.port, state |-> "invite-requested",
                   inviteCseq |-> 1, targetDeviceId |-> mgmt.device]
  <2>1. /\ mgmt.op = "create" /\ mgmt.port \in Ports /\ mgmt.id \in Ids /\ UNCHANGED sip
    BY <1>10 DEF RequestInviteCreate, IInv, FrameShape
  <2>2. \A p \in Ports : (MgmtHolds(p) <=> p = mgmt.port) /\ (SipHolds(p)' <=> SipHolds(p))
    BY <2>1 DEF SipHolds, MgmtHolds
  <2>3. ~SipHolds(mgmt.port) /\ creatable(s)
    BY <2>1, <2>2, PortsPositive DEF IInv, PortExclusive, creatable
  <2>4. sessions' = [sessions EXCEPT ![mgmt.id] = s] /\ mgmt' = [mgmt EXCEPT !.op = "start"]
    BY <1>10, <2>3 DEF RequestInviteCreate, createSession
  <2>5. \A p \in Ports : ~MgmtHolds(p)'
    BY <2>4 DEF MgmtHolds, IInv, TypeOK, MgmtFrame
  <2>6. s # NoSession
    BY <2>1, PortsPositive DEF NoSession
  <2>7. \A i \in Ids, p \in Ports :
          SessionHolds(i, p)' <=> IF i = mgmt.id THEN p = mgmt.port ELSE SessionHolds(i, p)
    BY <1>0, <2>1, <2>4, <2>6 DEF SessionHolds, findSession
  <2> QED
    BY <2>1, <2>2, <2>3, <2>5, <2>7, LeaseBestow
<1>11. ASSUME NEW ok \in BOOLEAN,
              RequestInviteStart(ok) \/ RequestInviteSend(ok) \/ RequestByeClose(ok)
       PROVE  Lease!Next \/ UNCHANGED holding
  <2>1. /\ mgmt.op \in {"start", "send", "bye"} /\ mgmt.id \in Ids /\ UNCHANGED sip
        /\ mgmt' \in {[mgmt EXCEPT !.op = "send"], MgmtIdle}
        /\ UNCHANGED sessions \/ closeSession(mgmt.id)
    BY <1>11 DEF RequestInviteStart, RequestInviteSend, RequestByeClose, mediaVars,
                 IInv, FrameShape
  <2>2. \A p \in Ports : ~MgmtHolds(p) /\ ~MgmtHolds(p)' /\ (SipHolds(p)' <=> SipHolds(p))
    BY <1>0, <2>1 DEF SipHolds, MgmtHolds, IInv, TypeOK, MgmtFrame
  <2>3. CASE UNCHANGED sessions
    BY <2>2, <2>3, LeaseStutter DEF SessionHolds, findSession
  <2>4. CASE closeSession(mgmt.id)
    BY <2>1, <2>2, <2>4, CloseLease
  <2> QED
    BY <2>1, <2>3, <2>4
<1>12. ASSUME NEW device \in Devices, RequestBye(device) PROVE Lease!Next \/ UNCHANGED holding
  <2>1. UNCHANGED <<sessions, sip>> /\ mgmt.op = "idle" /\ mgmt'.op = "bye"
    BY <1>0, <1>12 DEF RequestBye, MgmtReady
  <2> QED
    BY <2>1, LeaseStutter DEF SipHolds, MgmtHolds, SessionHolds, findSession
<1>13. ASSUME NEW id \in Ids, RtpArrives(id) PROVE Lease!Next \/ UNCHANGED holding
  <2>1. /\ UNCHANGED <<sip, mgmt>> /\ sessions[id] # NoSession
        /\ \E state : sessions' = [sessions EXCEPT ![id].state = state]
    BY <1>13 DEF RtpArrives, findSession, receiveRtpPacket
  <2> QED
    BY <2>1, SessionRestated DEF SipHolds, MgmtHolds, findSession
<1>14. ASSUME Stop \/ Destroy PROVE Lease!Next \/ UNCHANGED holding
  <2>1. UNCHANGED <<sessions, sip, mgmt>>
    BY <1>14 DEF Stop, Destroy
  <2> QED
    BY <2>1, LeaseStutter DEF SipHolds, MgmtHolds, SessionHolds, findSession
<1>15. ASSUME Start PROVE Lease!Next \/ UNCHANGED holding
  <2>1. sessions' = [i \in Ids |-> NoSession] /\ sip' = SipIdle /\ mgmt' = MgmtIdle
    BY <1>15 DEF Start, configure
  <2>2. /\ \A p \in Ports : ~SipHolds(p)' /\ ~MgmtHolds(p)'
        /\ \A i \in Ids, p \in Ports : ~SessionHolds(i, p)'
    BY <1>0, <2>1 DEF SipHolds, MgmtHolds, SessionHolds, findSession
  <2>3. \A p \in Ports : HolderOf(p)' = "free"
    BY <2>2 DEF HolderFacts
  <2>4. holding' = [p \in Ports |-> "free"]
    BY <2>3, Zenon DEF holding
  <2>5. Lease!Reset
    BY <2>4, Zenon DEF Lease!Reset, holding
  <2> QED
    BY <2>5 DEF Lease!Next
<1>16. CASE UNCHANGED vars
  BY <1>16, LeaseStutter DEF vars, SipHolds, MgmtHolds, SessionHolds, findSession
<1>17. CASE ServerRequest \/ InviteBadSdp \/ InviteCreateSession
  BY <1>0, <1>2, <1>3, <1>4, <1>5, <1>6, <1>17 DEF ServerRequest
<1>18. CASE ClientResponse \/ \E ok \in BOOLEAN : InviteConfirm(ok)
  BY <1>0, <1>6, <1>7, <1>8, <1>18 DEF ClientResponse
<1>19. CASE Command \/ RequestInviteCreate
  BY <1>9, <1>10, <1>12, <1>19 DEF Command
<1> QED
  BY <1>11, <1>13, <1>14, <1>15, <1>16, <1>17, <1>18, <1>19 DEF Next

\* The initial states of the node are those of the leases.
LEMMA LeaseInit == Init => Lease!Init
<1> SUFFICES ASSUME Init PROVE Lease!Init
  OBVIOUS
<1>1. HolderFacts
  BY InitIInv, HolderLemma
<1>2. \A p \in Ports : ~SipHolds(p) /\ ~MgmtHolds(p) /\ \A id \in Ids : ~SessionHolds(id, p)
  BY DEF Init, SipHolds, MgmtHolds, SessionHolds, findSession, SipIdle, MgmtIdle
<1>3. \A p \in Ports : HolderOf(p) = "free"
  BY <1>1, <1>2 DEF HolderFacts
<1> QED
  BY <1>3 DEF Lease!Init

-----------------------------------------------------------------------------
(* Theorems                                                                *)

\* The inductive invariant holds in every reachable state.
THEOREM Inductive == Spec => []IInv
  BY InitIInv, NextIInv, PTL DEF Spec

\* Every variable keeps its type, in particular no handler ever writes a port
\* outside the configured ranges into a session or an adapter.
THEOREM TypeCorrect == Spec => []TypeOK
<1>1. IInv => TypeOK
  BY DEF IInv
<1> QED
  BY <1>1, Inductive, PTL

\* The port pool is never corrupted, for any port ranges and any interleaving
\* of INVITE, ACK, BYE, responses, commands, packets, stop and start.
THEOREM PoolSafety == Spec => []PoolPartition
<1>1. IInv => PoolPartition
  BY DEF IInv
<1> QED
  BY <1>1, Inductive, PTL

\* No error path of the SIP handlers or of the commands loses a port, and two
\* streams never share one.
THEOREM OneHolder == Spec => []PortOwnership
<1>1. IInv => PortOwnership
  BY DEF IInv, PortOwnership
<1> QED
  BY <1>1, Inductive, PTL

\* No RTP socket outlives its session.
THEOREM AdapterSafety == Spec => []NoOrphanAdapter
<1>1. IInv => NoOrphanAdapter
  BY DEF IInv
<1> QED
  BY <1>1, Inductive, PTL

\* What the session table and the dialog records say stays true of the adapters
\* and of each other: no confirmed stream without its receiver, no client
\* stream whose offered port nobody listens on, no dialog without a session.
THEOREM BackedSafety == Spec => []StreamsBacked
<1>1. BackedInv => StreamsBacked
  BY DEF BackedInv
<1> QED
  BY <1>1, InitBacked, NextBacked, Inductive, PTL DEF Spec

\* Queue, sets, session table and the handlers' local variables together
\* implement port leases: every step of the node is a step of PortLease on the
\* holders of the ports, or changes none of them.
THEOREM Refinement == Spec => ImplementsPortLease
<1>1. IInv /\ IInv' /\ [Next]_vars => [Lease!Next]_holding
  <2> SUFFICES ASSUME IInv, IInv', [Next]_vars PROVE Lease!Next \/ UNCHANGED holding
    OBVIOUS
  <2>1. HolderFacts /\ HolderFacts'
    BY HolderLemma, PTL
  <2> QED
    BY <2>1, LeaseStep
<1>2. Init => Lease!Init
  BY LeaseInit
<1> QED
  BY <1>1, <1>2, Inductive, PTL DEF Spec, ImplementsPortLease, Lease!Spec, holding
=============================================================================
