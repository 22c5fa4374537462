----------------------------- MODULE StreamNode -----------------------------
(***************************************************************************)
(* One media-fabric node opening and closing streams in both roles.        *)
(*                                                                         *)
(*  - SIP event thread: InviteServerCapability (INVITE, ACK, BYE requests) *)
(*    and InviteClientCapability (INVITE responses), one message at a time *)
(*  - management thread: the `invite` and `bye` commands                   *)
(*    (GB28181Node::requestInvite, requestBye), serialised by the mutex of *)
(*    MediaFabricRuntime, which the SIP thread never takes;                *)
(*  - RTP poll threads: a packet marks its session as receiving;           *)
(*  - stop and a later start of the runtime.                               *)
(*                                                                         *)
(* The threads share the unlocked MediaManager.  A handler that makes      *)
(* several calls is several actions, one per call, so that the other       *)
(* threads run between them; `sip` and `mgmt` hold the local variables the *)
(* handler keeps across the gap.                                           *)
(*                                                                         *)
(* The environment is open: a peer may send any request, retransmit it,    *)
(* answer an INVITE with any final response, more than once or never.      *)
(***************************************************************************)
EXTENDS MediaManager

CONSTANT NoId

ASSUME NoIdAssumption == NoId \notin Ids

VARIABLES
  sip,      \* the handler the SIP event thread is in
  mgmt,     \* the command the management thread is in
  issued,   \* client Call-IDs used so far (nextTransactionCallId)
  invited,  \* client Call-IDs whose INVITE left the node
  records,  \* server dialogs in the SessionManager
  node      \* "up", "stopping" (adapters stopped, SIP still alive), "down"

threadVars == <<sip, mgmt>>
vars == <<availablePorts, availablePortSet, allocatedPorts, sessions, adapters,
          sip, mgmt, issued, invited, records, node>>

SipFrame  == [op : {"idle", "invite", "bad-sdp", "response"},
              id : Ids \cup {NoId}, port : Ports \cup {NoPort}, cseq : 0..MaxCseq]
MgmtFrame == [op : {"idle", "create", "start", "send", "bye"},
              id : Ids \cup {NoId}, port : Ports \cup {NoPort},
              device : Devices \cup {NoDevice}]

SipIdle  == [op |-> "idle", id |-> NoId, port |-> NoPort, cseq |-> 0]
MgmtIdle == [op |-> "idle", id |-> NoId, port |-> NoPort, device |-> NoDevice]

Init ==
  /\ availablePorts = ConfiguredPorts
  /\ availablePortSet = Ports
  /\ allocatedPorts = {}
  /\ sessions = [id \in Ids |-> NoSession]
  /\ adapters = [id \in Ids |-> NoPort]
  /\ sip = SipIdle
  /\ mgmt = MgmtIdle
  /\ issued = {}
  /\ invited = {}
  /\ records = {}
  /\ node = "up"

-----------------------------------------------------------------------------
(* SIP event thread: InviteServerCapability::handleSipRequest              *)

SipReady == node # "down" /\ sip = SipIdle

\* INVITE: a port is taken first.  Without one the handler gives up (403).
InviteRequest(id, cseq, sdpValid) ==
  /\ SipReady
  /\ \E port \in Ports \cup {NoPort} :
       /\ allocateRtpPort(port)
       /\ sip' = CASE port = NoPort -> SipIdle
                   [] port # NoPort /\ ~sdpValid ->
                        [op |-> "bad-sdp", id |-> id, port |-> port, cseq |-> cseq]
                   [] OTHER ->
                        [op |-> "invite", id |-> id, port |-> port, cseq |-> cseq]
  /\ UNCHANGED <<sessions, adapters, mgmt, issued, invited, records, node>>

\* Mutant: the error path forgets the port.
InviteBadSdp_PortKept ==
  /\ sip.op = "bad-sdp"
  /\ sip' = SipIdle
  /\ UNCHANGED <<availablePorts, availablePortSet, allocatedPorts, sessions, adapters,
                 mgmt, issued, invited, records, node>>

\* The SDP does not parse: the port goes back, 400.
InviteBadSdp ==
  /\ sip.op = "bad-sdp"
  /\ releaseRtpPort(sip.port)
  /\ sip' = SipIdle
  /\ UNCHANGED <<sessions, adapters, mgmt, issued, invited, records, node>>

\* The SDP parses: SessionManager entry, media session, 200 OK.  When the
\* session cannot be created the entry and the port are given up again (500).
InviteCreateSession ==
  LET s == [localRtpPort |-> sip.port, state |-> "stream-requested",
            inviteCseq |-> sip.cseq, targetDeviceId |-> NoDevice]
  IN  /\ sip.op = "invite"
      /\ IF creatable(s)
         THEN /\ createSession(sip.id, s)
              /\ records' = records \cup {sip.id}
         ELSE /\ releaseRtpPort(sip.port)
              /\ records' = records \ {sip.id}
              /\ UNCHANGED <<sessions, adapters>>
      /\ sip' = SipIdle
      /\ UNCHANGED <<mgmt, issued, invited, node>>

\* Mutant: the stream is confirmed although the adapter did not start.
AckRequest_StartIgnored(id, cseq, bindOk) ==
  /\ SipReady
  /\ findSession(id)
  /\ sessions[id].inviteCseq = cseq
  /\ updateSessionState(id, "stream-confirmed")
  /\ IF startable(id) /\ bindOk THEN startRtpSessionAdapter(id) ELSE UNCHANGED adapters
  /\ records' = records \cup {id}
  /\ UNCHANGED <<availablePorts, availablePortSet, allocatedPorts, sip, mgmt,
                 issued, invited, node>>

\* ACK: the adapter is started unless it runs already.  Binding can also fail
\* because another process holds the port.
AckRequest(id, cseq, bindOk) ==
  /\ SipReady
  /\ findSession(id)
  /\ sessions[id].inviteCseq = cseq
  /\ \/ /\ rtpSessionAdapterRunning(id)
        /\ updateSessionState(id, "stream-confirmed")
        /\ UNCHANGED adapters
     \/ /\ ~rtpSessionAdapterRunning(id) /\ startable(id) /\ bindOk
        /\ startRtpSessionAdapter(id)
        /\ updateSessionState(id, "stream-confirmed")
     \/ /\ ~rtpSessionAdapterRunning(id) /\ ~(startable(id) /\ bindOk)
        /\ updateSessionState(id, "rtp-start-failed")
        /\ UNCHANGED adapters
  /\ records' = IF sessions'[id].state = "stream-confirmed" THEN records \cup {id} ELSE records
  /\ UNCHANGED <<availablePorts, availablePortSet, allocatedPorts, sip, mgmt,
                 issued, invited, node>>

\* BYE: 481 when there is no session, otherwise close it and answer 200.
ByeRequest(id) ==
  /\ SipReady
  /\ findSession(id)
  /\ closeSession(id)
  /\ records' = records \ {id}
  /\ UNCHANGED <<sip, mgmt, issued, invited, node>>

-----------------------------------------------------------------------------
(* SIP event thread: InviteClientCapability::handleSipRequest              *)

\* A final response other than 2xx, or a 2xx whose SDP does not parse, ends the
\* session.
InviteRejected(id) ==
  /\ SipReady
  /\ id \in invited
  /\ findSession(id)
  /\ closeSession(id)
  /\ UNCHANGED <<sip, mgmt, issued, invited, records, node>>

\* 2xx: the handler copies the session it found ...
InviteAccepted(id) ==
  /\ SipReady
  /\ id \in invited
  /\ findSession(id)
  /\ sip' = [op |-> "response", id |-> id, port |-> sessions[id].localRtpPort,
             cseq |-> sessions[id].inviteCseq]
  /\ UNCHANGED <<availablePorts, availablePortSet, allocatedPorts, sessions, adapters,
                 mgmt, issued, invited, records, node>>

\* ... and writes the copy back, unless the management thread closed the
\* session meanwhile; then the ACK is sent.  Either failure closes the session.
InviteConfirm(ackSent) ==
  LET s == [sessions[sip.id] EXCEPT !.localRtpPort = sip.port, !.inviteCseq = sip.cseq,
                                    !.state = "stream-confirmed"]
  IN  /\ sip.op = "response"
      /\ IF updatable(sip.id, s) /\ ackSent
         THEN /\ updateSession(sip.id, s)
              /\ UNCHANGED <<availablePorts, availablePortSet, allocatedPorts, adapters>>
         ELSE closeSession(sip.id)
      /\ sip' = SipIdle
      /\ UNCHANGED <<mgmt, issued, invited, records, node>>

-----------------------------------------------------------------------------
(* Management thread: GB28181Node::requestInvite and requestBye            *)

MgmtReady == node = "up" /\ mgmt = MgmtIdle

\* The device has one registered owner; take a port ("no RTP port available")
\* and a fresh Call-ID.
RequestInvite(device, id) ==
  /\ MgmtReady
  /\ id \notin issued
  /\ \E port \in Ports \cup {NoPort} :
       /\ allocateRtpPort(port)
       /\ IF port = NoPort
          THEN UNCHANGED <<mgmt, issued>>
          ELSE /\ mgmt' = [op |-> "create", id |-> id, port |-> port, device |-> device]
               /\ issued' = issued \cup {id}
  /\ UNCHANGED <<sessions, adapters, sip, invited, records, node>>

RequestInviteCreate ==
  LET s == [localRtpPort |-> mgmt.port, state |-> "invite-requested",
            inviteCseq |-> 1, targetDeviceId |-> mgmt.device]
  IN  /\ mgmt.op = "create"
      /\ IF creatable(s)
         THEN /\ createSession(mgmt.id, s)
              /\ mgmt' = [mgmt EXCEPT !.op = "start"]
         ELSE /\ releaseRtpPort(mgmt.port)
              /\ mgmt' = MgmtIdle
              /\ UNCHANGED <<sessions, adapters>>
      /\ UNCHANGED <<sip, issued, invited, records, node>>

\* The receiver is bound before the INVITE is sent; failure closes the session.
RequestInviteStart(bindOk) ==
  /\ mgmt.op = "start"
  /\ IF startable(mgmt.id) /\ bindOk
     THEN /\ startRtpSessionAdapter(mgmt.id)
          /\ mgmt' = [mgmt EXCEPT !.op = "send"]
          /\ UNCHANGED <<availablePorts, availablePortSet, allocatedPorts, sessions>>
     ELSE /\ closeSession(mgmt.id)
          /\ mgmt' = MgmtIdle
  /\ UNCHANGED <<sip, issued, invited, records, node>>

RequestInviteSend(sent) ==
  /\ mgmt.op = "send"
  /\ IF sent
     THEN /\ invited' = invited \cup {mgmt.id}
          /\ UNCHANGED mediaVars
     ELSE /\ closeSession(mgmt.id)
          /\ UNCHANGED invited
  /\ mgmt' = MgmtIdle
  /\ UNCHANGED <<sip, issued, records, node>>

\* The sessions a snapshot shows for a device.
SessionsOf(device) == {id \in Ids : findSession(id) /\ sessions[id].targetDeviceId = device}

\* `bye` needs exactly one session for the device and works on a snapshot.
RequestBye(device) ==
  /\ MgmtReady
  /\ \E id \in SessionsOf(device) :
       /\ SessionsOf(device) = {id}
       /\ mgmt' = [op |-> "bye", id |-> id, port |-> NoPort, device |-> device]
  /\ UNCHANGED <<availablePorts, availablePortSet, allocatedPorts, sessions, adapters,
                 sip, issued, invited, records, node>>

\* The session is closed once the BYE is sent; a failed send keeps it.
RequestByeClose(sent) ==
  /\ mgmt.op = "bye"
  /\ IF sent THEN closeSession(mgmt.id) ELSE UNCHANGED mediaVars
  /\ mgmt' = MgmtIdle
  /\ UNCHANGED <<sip, issued, invited, records, node>>

-----------------------------------------------------------------------------
(* RTP poll threads, and stop and start of the runtime                     *)

\* A packet reaches the callback of a running adapter.
RtpArrives(id) ==
  /\ rtpSessionAdapterRunning(id)
  /\ findSession(id)
  /\ receiveRtpPacket(id)
  /\ UNCHANGED <<availablePorts, availablePortSet, allocatedPorts, adapters,
                 sip, mgmt, issued, invited, records, node>>

\* MediaFabricRuntime::stop takes the node away under the mutex, so no command
\* is under way; GB28181Node::stop stops the adapters while SIP still runs.
Stop ==
  /\ MgmtReady
  /\ stopAllRtpSessionAdapters
  /\ node' = "stopping"
  /\ UNCHANGED <<availablePorts, availablePortSet, allocatedPorts, sessions,
                 sip, mgmt, issued, invited, records>>

\* SipStack::stop joins the event thread; the node is destroyed with its
\* remaining adapters.
Destroy ==
  /\ node = "stopping"
  /\ sip = SipIdle
  /\ stopAllRtpSessionAdapters
  /\ node' = "down"
  /\ UNCHANGED <<availablePorts, availablePortSet, allocatedPorts, sessions,
                 sip, mgmt, issued, invited, records>>

\* A later start, on the management thread, constructs a new node and a new
\* event thread.
Start ==
  /\ node = "down"
  /\ mgmt = MgmtIdle
  /\ configure
  /\ sip' = SipIdle
  /\ records' = {}
  /\ invited' = {}
  /\ node' = "up"
  /\ UNCHANGED <<mgmt, issued>>

-----------------------------------------------------------------------------
ServerRequest ==
  \E id \in ServerIds :
    \/ \E cseq \in 1..MaxCseq, ok \in BOOLEAN : InviteRequest(id, cseq, ok)
    \/ \E cseq \in 1..MaxCseq, ok \in BOOLEAN : AckRequest(id, cseq, ok)
    \/ ByeRequest(id)

ClientResponse == \E id \in ClientIds : InviteRejected(id) \/ InviteAccepted(id)

Command ==
  \E device \in Devices :
    \/ \E id \in ClientIds : RequestInvite(device, id)
    \/ RequestBye(device)

Next ==
  \/ ServerRequest
  \/ InviteBadSdp
  \/ InviteCreateSession
  \/ ClientResponse
  \/ \E ok \in BOOLEAN : InviteConfirm(ok)
  \/ Command
  \/ RequestInviteCreate
  \/ \E ok \in BOOLEAN : RequestInviteStart(ok)
  \/ \E ok \in BOOLEAN : RequestInviteSend(ok)
  \/ \E ok \in BOOLEAN : RequestByeClose(ok)
  \/ \E id \in Ids : RtpArrives(id)
  \/ Stop
  \/ Destroy
  \/ Start

Spec == Init /\ [][Next]_vars

-----------------------------------------------------------------------------
(* Properties                                                              *)

TypeOK ==
  /\ availablePorts \in Seq(Ports)
  /\ availablePortSet \in SUBSET Ports
  /\ allocatedPorts \in SUBSET Ports
  /\ sessions \in [Ids -> Session]
  /\ adapters \in [Ids -> Ports \cup {NoPort}]
  /\ sip \in SipFrame
  /\ mgmt \in MgmtFrame
  /\ issued \in SUBSET ClientIds
  /\ invited \in SUBSET ClientIds
  /\ records \in SUBSET ServerIds
  /\ node \in {"up", "stopping", "down"}

\* The queue, the set of free ports and the set of allocated ports stay one
\* consistent partition of the configured ports: no port is lost, none is
\* queued twice, and allocateRtpPort never has to skip an entry.
PoolPartition ==
  /\ availablePortSet \cap allocatedPorts = {}
  /\ availablePortSet \cup allocatedPorts = Ports
  /\ {availablePorts[i] : i \in 1..Len(availablePorts)} = availablePortSet
  /\ \A i, j \in 1..Len(availablePorts) : i # j => availablePorts[i] # availablePorts[j]

\* Ports a handler has allocated and not yet put into a session or given back.
SipHolds(port)  == sip.op \in {"invite", "bad-sdp"} /\ sip.port = port
MgmtHolds(port) == mgmt.op = "create" /\ mgmt.port = port
SessionHolds(id, port) == findSession(id) /\ sessions[id].localRtpPort = port

\* Every allocated port has a holder: a session, or the one handler that is
\* still setting one up.
NoPortLeak ==
  \A port \in allocatedPorts :
    SipHolds(port) \/ MgmtHolds(port) \/ \E id \in Ids : SessionHolds(id, port)

\* A held port is allocated and has one holder.
PortExclusive ==
  /\ \A port \in Ports :
       /\ SipHolds(port) => port \in allocatedPorts /\ ~MgmtHolds(port)
       /\ MgmtHolds(port) => port \in allocatedPorts
  /\ \A id \in Ids, port \in Ports :
       SessionHolds(id, port) =>
         /\ port \in allocatedPorts
         /\ ~SipHolds(port)
         /\ ~MgmtHolds(port)
         /\ \A other \in Ids \ {id} : ~SessionHolds(other, port)

\* A port is allocated exactly as long as it has one holder, whatever error path
\* the handlers take and however the SIP and management threads interleave: no
\* port leaks, and two streams never advertise the same one.
PortOwnership == NoPortLeak /\ PortExclusive

\* A bound RTP socket belongs to a session in the table: closing a session on
\* any path (BYE, rejected INVITE, failed ACK, `bye`) stops its poll thread, so
\* no callback runs for a stream that is gone.
NoOrphanAdapter == \A id \in Ids : rtpSessionAdapterRunning(id) => findSession(id)

\* While the node is up, a stream the media sender considers sendable
\* (mediaSessionSendable) has an adapter to send through, and a client stream
\* whose INVITE is out listens on the port its SDP offers.
StreamHasAdapter ==
  node = "up" =>
    \A id \in Ids :
      /\ sessions[id].state \in {"stream-confirmed", "stream-receiving"}
           => rtpSessionAdapterRunning(id)
      /\ id \in invited /\ findSession(id)
           => adapters[id] = sessions[id].localRtpPort

\* SessionManager and MediaManager agree on which server dialogs exist.
DialogRecorded == \A id \in ServerIds : findSession(id) <=> id \in records

\* What the tables say of a stream is true of its adapter and its dialog, through
\* failed starts, repeated and late requests, stop and restart.
StreamsBacked == StreamHasAdapter /\ DialogRecorded

-----------------------------------------------------------------------------
(* The holder of every port, and the lease discipline it follows           *)

\* Session ids carry the prefix of their capability, so none is one of the names
\* given here to the two handlers and to the pool.
ASSUME HolderNames == Ids \cap {"sip", "mgmt", "free"} = {}

HolderOf(port) ==
  CASE SipHolds(port)  -> "sip"
    [] MgmtHolds(port) -> "mgmt"
    [] \E id \in Ids : SessionHolds(id, port) -> CHOOSE id \in Ids : SessionHolds(id, port)
    [] OTHER -> "free"

Lease == INSTANCE PortLease WITH
           Handlers <- {"sip", "mgmt"}, Free <- "free",
           holder <- [port \in Ports |-> HolderOf(port)]

\* The queue, the two sets and the session table together implement port
\* leases: a port goes from the pool to one handler, from that handler to one
\* session, and back, never straight from one stream to another.
ImplementsPortLease == Lease!Spec
=============================================================================
