------------------------------ MODULE Presence ------------------------------
(***************************************************************************)
(* How the nodes of a platform stay registered with their upstream node:   *)
(* the `register` command, the periodic tasks of RegisterClientCapability  *)
(* and KeepaliveClientCapability, and their servers upstream.              *)
(*                                                                         *)
(* Registration says when an answer to a Digest challenge is accepted.     *)
(* Here the nonces are recycled and nothing is counted, so that behaviours *)
(* are infinite: whatever has failed, the periodic tasks go on.            *)
(*                                                                         *)
(* A node has one REGISTER of the refresh task in flight at a time: the    *)
(* refresh interval (300 s) is longer than a message lives.                *)
(***************************************************************************)
EXTENDS Naturals

CONSTANTS
  Peers,        \* downstream nodes
  Configured,   \* peers in the upstream node's configuration
  Trusted,      \* those of them it allows to register
  Nonces,
  MaxCommands,  \* bound on `register` commands
  MaxFaults     \* bound on lost and repeated messages, failed sends, restarts

Calls == {"command", "refresh"}

ASSUME PresenceAssumption ==
  /\ Trusted \subseteq Configured
  /\ Configured \subseteq Peers
  /\ MaxCommands \in Nat
  /\ MaxFaults \in Nat

VARIABLES
  wire,                   \* messages in flight
  guarded,                \* endpointRequiresAuth: the endpoint has a realm and a password
  registered,             \* upstream PeerInfo::registered
  lastKeepalive,          \* upstream PeerInfo::lastKeepaliveTime > 0
  challenges,             \* upstream RegisterServerCapability::m_challenges
  commanding,             \* requestRegistration has set the flag and not sent yet
  registrationRequested,  \* downstream PeerInfo::registrationRequested
  clientRegistered,       \* downstream PeerInfo::registered
  admitted,               \* history: peers the upstream node has ever accepted
  commands,               \* commands left
  faults                  \* faults left

upstreamVars   == <<registered, lastKeepalive, challenges, admitted>>
downstreamVars == <<commanding, registrationRequested, clientRegistered>>
vars == <<wire, guarded, registered, lastKeepalive, challenges, commanding,
          registrationRequested, clientRegistered, admitted, commands, faults>>

\* A REGISTER without Authorization and responses that carry no challenge.
NoNonce == "none"

Register  == [type : {"REGISTER", "401", "200", "403"}, peer : Peers, call : Calls,
              nonce : Nonces \cup {NoNonce}]
Keepalive == [type : {"MESSAGE"}, peer : Peers]

Challenge   == [nonce : Nonces \cup {NoNonce}, used : BOOLEAN]
NoChallenge == [nonce |-> NoNonce, used |-> FALSE]

Init ==
  /\ wire = {}
  /\ guarded \in BOOLEAN
  /\ registered = [p \in Peers |-> FALSE]
  /\ lastKeepalive = [p \in Peers |-> FALSE]
  /\ challenges = [p \in Peers |-> NoChallenge]
  /\ commanding = [p \in Peers |-> FALSE]
  /\ registrationRequested = [p \in Peers |-> FALSE]
  /\ clientRegistered = [p \in Peers |-> FALSE]
  /\ admitted = {}
  /\ commands = MaxCommands
  /\ faults = MaxFaults

-----------------------------------------------------------------------------
(* Network                                                                 *)

Fault == faults > 0 /\ faults' = faults - 1

\* Message m is handled and the messages in sent leave; m may come once more.
Deliver(m, sent) ==
  \/ wire' = (wire \ {m}) \cup sent /\ UNCHANGED faults
  \/ wire' = wire \cup sent /\ Fault

\* A message is lost, or its send fails.
Lose(m) ==
  /\ Fault
  /\ wire' = wire \ {m}
  /\ UNCHANGED <<guarded, upstreamVars, downstreamVars, commands>>

Refreshing(p) == \E m \in wire : m.type # "MESSAGE" /\ m.peer = p /\ m.call = "refresh"

-----------------------------------------------------------------------------
(* Upstream node                                                           *)

Reply(m, type, nonce) == [type |-> type, peer |-> m.peer, call |-> m.call, nonce |-> nonce]

\* A random nonce differs from those in use.
FreshNonces(p) ==
  {n \in Nonces : /\ challenges[p].nonce # n
                  /\ \A m \in wire : m.type # "MESSAGE" /\ m.peer = p => m.nonce # n}

\* Any outstanding challenge of the peer is replaced.
issueChallenge(m) ==
  \E n \in FreshNonces(m.peer) :
    /\ challenges' = [challenges EXCEPT ![m.peer] = [nonce |-> n, used |-> FALSE]]
    /\ Deliver(m, {Reply(m, "401", n)})
    /\ UNCHANGED <<registered, lastKeepalive, admitted>>

verifyChallenge(m) ==
  challenges[m.peer] = [nonce |-> m.nonce, used |-> FALSE]

rejectRegister(m) ==
  /\ Deliver(m, {Reply(m, "403", NoNonce)})
  /\ UNCHANGED upstreamVars

\* markRegistered; a challenge is used up.
acceptRegister(m) ==
  /\ challenges' = IF guarded THEN [challenges EXCEPT ![m.peer].used = TRUE] ELSE challenges
  /\ registered' = [registered EXCEPT ![m.peer] = TRUE]
  /\ admitted' = admitted \cup {m.peer}
  /\ Deliver(m, {Reply(m, "200", NoNonce)})
  /\ UNCHANGED lastKeepalive

\* Mutant: any peer is accepted where no Digest is asked for.
RegisterRequest_AnyPeer(m) ==
  /\ m.type = "REGISTER"
  /\ \/ guarded /\ m.nonce = NoNonce /\ issueChallenge(m)
     \/ guarded /\ m.nonce # NoNonce /\ ~verifyChallenge(m) /\ rejectRegister(m)
     \/ guarded /\ m.nonce # NoNonce /\ verifyChallenge(m) /\ acceptRegister(m)
     \/ ~guarded /\ acceptRegister(m)
  /\ UNCHANGED <<guarded, downstreamVars, commands>>

\* RegisterServerCapability::handleSipRequest: a peer that is not configured, or
\* not allowed to register, is refused.
RegisterRequest(m) ==
  /\ m.type = "REGISTER"
  /\ \/ m.peer \notin Trusted /\ rejectRegister(m)
     \/ m.peer \in Trusted /\ guarded /\ m.nonce = NoNonce /\ issueChallenge(m)
     \/ m.peer \in Trusted /\ guarded /\ m.nonce # NoNonce /\ ~verifyChallenge(m) /\ rejectRegister(m)
     \/ m.peer \in Trusted /\ guarded /\ m.nonce # NoNonce /\ verifyChallenge(m) /\ acceptRegister(m)
     \/ m.peer \in Trusted /\ ~guarded /\ acceptRegister(m)
  /\ UNCHANGED <<guarded, downstreamVars, commands>>

\* KeepaliveServerCapability::handleSipRequest: a configured peer is marked,
\* registered or not, allowed to register or not.  The node has no route for the response.
KeepaliveRequest(m) ==
  /\ m.type = "MESSAGE"
  /\ lastKeepalive' = IF m.peer \in Configured THEN [lastKeepalive EXCEPT ![m.peer] = TRUE]
                                            ELSE lastKeepalive
  /\ Deliver(m, {})
  /\ UNCHANGED <<guarded, registered, challenges, admitted, downstreamVars, commands>>

\* A challenge lapses; answers to it are delivered or lost long before that.
ChallengeLapses(p) ==
  /\ challenges[p] # NoChallenge
  /\ \A m \in wire : m.type # "MESSAGE" /\ m.peer = p => m.nonce # challenges[p].nonce
  /\ challenges' = [challenges EXCEPT ![p] = NoChallenge]
  /\ UNCHANGED <<wire, guarded, registered, lastKeepalive, admitted, downstreamVars, commands, faults>>

\* PeerRegistry::configure and onStop forget everything.
UpstreamRestart ==
  /\ Fault
  /\ registered' = [p \in Peers |-> FALSE]
  /\ lastKeepalive' = [p \in Peers |-> FALSE]
  /\ challenges' = [p \in Peers |-> NoChallenge]
  /\ UNCHANGED <<wire, guarded, admitted, downstreamVars, commands>>

-----------------------------------------------------------------------------
(* Downstream node                                                         *)

Plain(p, c) == [type |-> "REGISTER", peer |-> p, call |-> c, nonce |-> NoNonce]

\* GB28181Node::requestRegistration on the management thread sets the flag ...
RequestRegistration(p) ==
  /\ ~commanding[p]
  /\ commands > 0 /\ commands' = commands - 1
  /\ commanding' = [commanding EXCEPT ![p] = TRUE]
  /\ registrationRequested' = [registrationRequested EXCEPT ![p] = TRUE]
  /\ UNCHANGED <<wire, guarded, upstreamVars, clientRegistered, faults>>

\* ... and sends, while the task threads may read the flag; when the send fails
\* the request is taken back, an earlier one with it.
RequestSent(p) ==
  /\ commanding[p]
  /\ commanding' = [commanding EXCEPT ![p] = FALSE]
  /\ \/ /\ wire' = wire \cup {Plain(p, "command")}
        /\ UNCHANGED <<registrationRequested, faults>>
     \/ /\ Fault
        /\ registrationRequested' = [registrationRequested EXCEPT ![p] = FALSE]
        /\ UNCHANGED wire
  /\ UNCHANGED <<guarded, upstreamVars, clientRegistered, commands>>

\* Mutant: only a node that is not registered registers.
RegisterRefresh_Unregistered(p) ==
  /\ registrationRequested[p] /\ ~clientRegistered[p] /\ ~Refreshing(p)
  /\ wire' = wire \cup {Plain(p, "refresh")}
  /\ UNCHANGED <<guarded, upstreamVars, downstreamVars, commands, faults>>

\* sendRegisterToUpstreams, whether the node is registered or not.
RegisterRefresh(p) ==
  /\ registrationRequested[p] /\ ~Refreshing(p)
  /\ wire' = wire \cup {Plain(p, "refresh")}
  /\ UNCHANGED <<guarded, upstreamVars, downstreamVars, commands, faults>>

\* RegisterClientCapability::handleSipRequest.
RegisterResponse(m) ==
  /\ m.type \in {"401", "200", "403"}
  /\ Deliver(m, IF m.type = "401" THEN {[m EXCEPT !.type = "REGISTER"]} ELSE {})
  /\ clientRegistered' = IF m.type = "200" THEN [clientRegistered EXCEPT ![m.peer] = TRUE]
                                           ELSE clientRegistered
  /\ UNCHANGED <<guarded, upstreamVars, commanding, registrationRequested, commands>>

\* Mutant: keepalives do not wait for the registration.
KeepaliveTask_Early(p) ==
  /\ registrationRequested[p]
  /\ wire' = wire \cup {[type |-> "MESSAGE", peer |-> p]}
  /\ UNCHANGED <<guarded, upstreamVars, downstreamVars, commands, faults>>

\* sendKeepaliveToUpstreams.
KeepaliveTask(p) ==
  /\ registrationRequested[p] /\ clientRegistered[p]
  /\ wire' = wire \cup {[type |-> "MESSAGE", peer |-> p]}
  /\ UNCHANGED <<guarded, upstreamVars, downstreamVars, commands, faults>>

\* The registry is configured anew and the management thread is gone.
NodeRestart(p) ==
  /\ Fault
  /\ commanding' = [commanding EXCEPT ![p] = FALSE]
  /\ registrationRequested' = [registrationRequested EXCEPT ![p] = FALSE]
  /\ clientRegistered' = [clientRegistered EXCEPT ![p] = FALSE]
  /\ UNCHANGED <<wire, guarded, upstreamVars, commands>>

-----------------------------------------------------------------------------
ReceiveRegister(p, c) ==
  \E m \in wire :
    /\ m.type # "MESSAGE" /\ m.peer = p /\ m.call = c
    /\ RegisterRequest(m) \/ RegisterResponse(m)

ReceiveKeepalive(p) == \E m \in wire : m.peer = p /\ KeepaliveRequest(m)

Next ==
  \/ \E p \in Peers :
       \/ \E c \in Calls : ReceiveRegister(p, c)
       \/ ReceiveKeepalive(p)
       \/ RequestRegistration(p) \/ RequestSent(p)
       \/ RegisterRefresh(p) \/ KeepaliveTask(p)
       \/ ChallengeLapses(p) \/ NodeRestart(p)
  \/ UpstreamRestart
  \/ \E m \in wire : Lose(m)

\* Messages that are not lost arrive, and the tasks and the command run on.
Fairness ==
  \A p \in Peers :
    /\ \A c \in Calls : WF_vars(ReceiveRegister(p, c))
    /\ WF_vars(ReceiveKeepalive(p))
    /\ WF_vars(RequestSent(p))
    /\ WF_vars(RegisterRefresh(p))
    /\ WF_vars(KeepaliveTask(p))

Spec == Init /\ [][Next]_vars

FairSpec == Spec /\ Fairness

-----------------------------------------------------------------------------
(* Properties                                                              *)

TypeOK ==
  /\ wire \in SUBSET (Register \cup Keepalive)
  /\ guarded \in BOOLEAN
  /\ registered \in [Peers -> BOOLEAN]
  /\ lastKeepalive \in [Peers -> BOOLEAN]
  /\ challenges \in [Peers -> Challenge]
  /\ commanding \in [Peers -> BOOLEAN]
  /\ registrationRequested \in [Peers -> BOOLEAN]
  /\ clientRegistered \in [Peers -> BOOLEAN]
  /\ admitted \in SUBSET Trusted
  /\ commands \in 0..MaxCommands
  /\ faults \in 0..MaxFaults

\* KeepaliveServerCapability asks nobody to be registered; that it hears only
\* peers the upstream node has accepted at some time rests on the guard of the
\* keepalive task, on the 200 it goes back to, and on both ends' restarts.
KeepaliveGrounded == \A p \in Peers : lastKeepalive[p] => p \in admitted

Online(p) == registered[p] /\ clientRegistered[p] /\ lastKeepalive[p]

\* Whatever was lost, repeated or restarted, a node whose registration is
\* requested is registered again, at both ends, and heard, although keepalives
\* do not tell it that the upstream node has forgotten it.
PresenceRestored ==
  \A p \in Trusted : registrationRequested[p] ~> (Online(p) \/ ~registrationRequested[p])
=============================================================================
