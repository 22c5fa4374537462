---------------------------- MODULE MediaManager ----------------------------
(***************************************************************************)
(* The media manager of one node (src/media/MediaManager.cpp): the pool of *)
(* local RTP ports, the table of media sessions and the table of RTP       *)
(* session adapters, each adapter being a bound UDP socket with a poll     *)
(* thread of its own.                                                      *)
(*                                                                         *)
(* The class has no mutex.  Its methods are called from the SIP event      *)
(* thread, the management thread, the scheduler and the RTP poll threads.  *)
(* Each method is one operator here, a conjunct of the caller's action;    *)
(* StreamNode contains the callers and interleaves them at the             *)
(* granularity of these calls.                                             *)
(***************************************************************************)
EXTENDS Integers, Sequences

CONSTANTS
  ConfiguredPorts,  \* the even ports of the configured ranges, ascending
  ServerIds,        \* ids "InviteServerCapability:dialog:<Call-ID>"
  ClientIds,        \* ids "InviteClientCapability:dialog:<Call-ID>"
  Devices,          \* catalog device ids a client session can ask for
  NoDevice,         \* the empty targetDeviceId of a server session
  MaxCseq           \* bound on the CSeq numbers of an INVITE

\* configure() fills the queue from an ordered set of positive ports.
ASSUME PortsAssumption ==
  /\ ConfiguredPorts \in Seq(Nat \ {0})
  /\ \A i, j \in 1..Len(ConfiguredPorts) :
        i < j => ConfiguredPorts[i] < ConfiguredPorts[j]

\* The two capabilities prefix the ids of their sessions differently.
ASSUME IdsAssumption ==
  /\ ServerIds \cap ClientIds = {}
  /\ NoDevice \notin Devices
  /\ MaxCseq \in Nat \ {0}

VARIABLES
  availablePorts,    \* m_availablePorts: queue of ports to hand out
  availablePortSet,  \* m_availablePortSet
  allocatedPorts,    \* m_allocatedPorts
  sessions,          \* m_sessions
  adapters           \* m_rtpSessionAdapters: the port each adapter is bound to

poolVars  == <<availablePorts, availablePortSet, allocatedPorts>>
mediaVars == <<availablePorts, availablePortSet, allocatedPorts, sessions, adapters>>

Ids    == ServerIds \cup ClientIds
Ports  == {ConfiguredPorts[i] : i \in 1..Len(ConfiguredPorts)}
NoPort == 0

SessionStates == {"invite-requested", "stream-requested", "rtp-start-failed",
                  "stream-confirmed", "stream-receiving"}

Session == [localRtpPort : Ports \cup {NoPort}, state : SessionStates \cup {"none"},
            inviteCseq : 0..MaxCseq, targetDeviceId : Devices \cup {NoDevice}]

\* An id without an entry in m_sessions.
NoSession == [localRtpPort |-> NoPort, state |-> "none",
              inviteCseq |-> 0, targetDeviceId |-> NoDevice]

findSession(id) == sessions[id] # NoSession

\* The ports an endpoint's range contributes (configure skips invalid ranges
\* and rounds an odd begin up).
PortsOfRange(begin, end) ==
  IF begin <= 0 \/ end <= 0 \/ begin > end THEN {}
  ELSE {p \in begin..end : p % 2 = 0}

configure ==
  /\ availablePorts' = ConfiguredPorts
  /\ availablePortSet' = Ports
  /\ allocatedPorts' = {}
  /\ sessions' = [id \in Ids |-> NoSession]
  /\ adapters' = [id \in Ids |-> NoPort]

\* Queue entries that the set no longer holds are popped and skipped; the
\* result is NoPort when no entry is left.
allocateRtpPort(port) ==
  LET usable == {i \in 1..Len(availablePorts) : availablePorts[i] \in availablePortSet}
  IN  \/ /\ usable = {}
         /\ port = NoPort
         /\ availablePorts' = <<>>
         /\ UNCHANGED <<availablePortSet, allocatedPorts>>
      \/ \E i \in usable :
           /\ \A j \in usable : i <= j
           /\ port = availablePorts[i]
           /\ availablePorts' = SubSeq(availablePorts, i + 1, Len(availablePorts))
           /\ availablePortSet' = availablePortSet \ {port}
           /\ allocatedPorts' = allocatedPorts \cup {port}

\* Mutant: the port is queued again without entering the set.
releaseRtpPort_SetForgotten(port) ==
  IF port # NoPort /\ port \in allocatedPorts
  THEN /\ allocatedPorts' = allocatedPorts \ {port}
       /\ availablePorts' = Append(availablePorts, port)
       /\ UNCHANGED availablePortSet
  ELSE UNCHANGED poolVars

releaseRtpPort(port) ==
  IF port # NoPort /\ port \in allocatedPorts
  THEN /\ allocatedPorts' = allocatedPorts \ {port}
       /\ availablePortSet' = availablePortSet \cup {port}
       /\ availablePorts' = IF port \in availablePortSet THEN availablePorts
                                                         ELSE Append(availablePorts, port)
  ELSE UNCHANGED poolVars

\* createSession's checks; the caller handles their failure.
creatable(s) == s.localRtpPort # NoPort /\ s.localRtpPort \in allocatedPorts

\* An entry with the same id and another port gives its port back; an adapter
\* that the old entry started is left running.
createSession(id, s) ==
  /\ IF findSession(id) /\ sessions[id].localRtpPort # s.localRtpPort
     THEN releaseRtpPort(sessions[id].localRtpPort)
     ELSE UNCHANGED poolVars
  /\ sessions' = [sessions EXCEPT ![id] = s]
  /\ UNCHANGED adapters

updatable(id, s) == findSession(id) /\ sessions[id].localRtpPort = s.localRtpPort

\* updateSession and updateSessionState, once their checks have passed.
updateSession(id, s) == sessions' = [sessions EXCEPT ![id] = s]
updateSessionState(id, state) == sessions' = [sessions EXCEPT ![id].state = state]

rtpSessionAdapterRunning(id) == adapters[id] # NoPort

\* Whether startRtpSessionAdapter can succeed: the socket must be free.
startable(id) ==
  /\ findSession(id)
  /\ ~rtpSessionAdapterRunning(id)
  /\ \A other \in Ids : adapters[other] # sessions[id].localRtpPort

startRtpSessionAdapter(id) ==
  adapters' = [adapters EXCEPT ![id] = sessions[id].localRtpPort]

stopAllRtpSessionAdapters == adapters' = [id \in Ids |-> NoPort]

\* Mutant: no check that the session still exists, so its port 0 is queued.
closeSession_Unchecked(id) ==
  /\ adapters' = [adapters EXCEPT ![id] = NoPort]
  /\ allocatedPorts' = allocatedPorts \ {sessions[id].localRtpPort}
  /\ availablePortSet' = availablePortSet \cup {sessions[id].localRtpPort}
  /\ availablePorts' = Append(availablePorts, sessions[id].localRtpPort)
  /\ sessions' = [sessions EXCEPT ![id] = NoSession]

\* Mutant: the adapter is not stopped.
closeSession_AdapterLeft(id) ==
  IF findSession(id)
  THEN /\ releaseRtpPort(sessions[id].localRtpPort)
       /\ sessions' = [sessions EXCEPT ![id] = NoSession]
       /\ UNCHANGED adapters
  ELSE UNCHANGED mediaVars

\* Mutant: the port is released and the entry stays.
closeSession_EntryLeft(id) ==
  IF findSession(id)
  THEN /\ adapters' = [adapters EXCEPT ![id] = NoPort]
       /\ releaseRtpPort(sessions[id].localRtpPort)
       /\ UNCHANGED sessions
  ELSE UNCHANGED mediaVars

\* closeSession: stop the adapter, release the port, erase the entry.
closeSession(id) ==
  IF findSession(id)
  THEN /\ adapters' = [adapters EXCEPT ![id] = NoPort]
       /\ releaseRtpPort(sessions[id].localRtpPort)
       /\ sessions' = [sessions EXCEPT ![id] = NoSession]
  ELSE UNCHANGED mediaVars

\* The state half of receiveRtpPacket; RtpStream models the payload half.
receiveRtpPacket(id) ==
  sessions' = [sessions EXCEPT ![id].state = "stream-receiving"]
=============================================================================
