---------------------------- MODULE Registration ----------------------------
(***************************************************************************)
(* REGISTER with Digest authentication between an upstream node and the    *)
(* peers that register with it.                                            *)
(*                                                                         *)
(*  - the upstream node runs RegisterServerCapability on its SIP thread;   *)
(*  - Nodes are media-fabric nodes: the `register` command, the refresh    *)
(*    timer and RegisterClientCapability on their SIP thread;              *)
(*  - Foreign are other GB28181 devices, which answer a challenge with     *)
(*    qop=auth and a nonce count (code outside this repository).           *)
(*                                                                         *)
(* REGISTER and its responses are sent stateless over UDP: the network     *)
(* reorders messages always and, when faulty, repeats or never delivers    *)
(* them; then sends may fail and the upstream node may restart, too.       *)
(* The To header of a REGISTER decides whether it needs a Digest: it does  *)
(* when it names the endpoint of the upstream node that has a realm and a  *)
(* password, and it does not when it names an endpoint without them, or    *)
(* none.  Nonces are numbered in the order they are issued: a random nonce *)
(* is fresh.                                                               *)
(***************************************************************************)
EXTENDS Naturals, Sequences

CONSTANTS
  Nodes,      \* media-fabric nodes
  Foreign,    \* other devices
  Trusted,    \* peers that know the endpoint's password
  Lifetime,   \* kRegisterChallengeExpiresSeconds
  Networks,   \* what can fail, with bounds on the rest of the behaviour
  MaxNc       \* bound on nonce counts

Peers == Nodes \cup Foreign

\* faulty: messages, sends and the upstream node can fail.  digest: the sipId the
\* media-fabric nodes have of the upstream node names an endpoint with a realm and
\* a password.  The others bound the clock, the REGISTERs a peer starts and the
\* challenges issued.
Network == [faulty : BOOLEAN, digest : BOOLEAN, maxTime : Nat, maxCalls : Nat, maxNonces : Nat]

ASSUME RegistrationAssumption ==
  /\ Nodes \cap Foreign = {}
  /\ Trusted \subseteq Peers
  /\ Lifetime \in Nat \ {0}
  /\ Networks \subseteq Network
  /\ MaxNc \in Nat

VARIABLES
  wire,                   \* messages in flight
  now,                    \* the upstream node's clock
  registered,             \* upstream PeerInfo::registered
  challenges,             \* RegisterServerCapability::m_challenges, per peer
  registrationRequested,  \* downstream PeerInfo::registrationRequested
  clientRegistered,       \* downstream PeerInfo::registered
  calls,                  \* REGISTERs each peer has started
  issuedAt,               \* history: the time each nonce was issued
  acceptLog,              \* history: REGISTERs whose digest was accepted
  boot,                   \* history: length of acceptLog at the last restart
  openly,                 \* history: has the peer had a REGISTER taken without Digest?
  network                 \* what can fail in this behaviour

serverVars == <<registered, challenges>>
clientVars == <<registrationRequested, clientRegistered, calls>>
vars == <<wire, now, registered, challenges, registrationRequested, clientRegistered,
          calls, issuedAt, acceptLog, boot, openly, network>>

Nonces == Nat \ {0}

\* digest: the To header names an endpoint with a realm and a password.  nonce = 0:
\* no Authorization header; nc = 0: Authorization without qop.
Register == [type : {"REGISTER"}, peer : Peers, call : Nat, digest : BOOLEAN, nonce : Nat,
             nc : Nat, expires : {0, 1}]
Response == [type : {"401", "200", "403"}, peer : Peers, call : Nat, nonce : Nat]

Challenge == [nonce : Nonces, expiresAt : Nat, lastNonceCount : Nat,
              usedWithoutNonceCount : BOOLEAN]
NoChallenge == [nonce |-> 0]

Accepted == [request : Register, at : Nat]

\* "now": the latest REGISTER taken of the peer since the restart was.
Openly == {"never", "earlier", "now"}

Init ==
  /\ wire = {}
  /\ now = 0
  /\ registered = [p \in Peers |-> FALSE]
  /\ challenges = [p \in Peers |-> NoChallenge]
  /\ registrationRequested = [n \in Nodes |-> FALSE]
  /\ clientRegistered = [n \in Nodes |-> FALSE]
  /\ calls = [p \in Peers |-> 0]
  /\ issuedAt = <<>>
  /\ acceptLog = <<>>
  /\ boot = 0
  /\ openly = [p \in Peers |-> "never"]
  /\ network \in Networks

-----------------------------------------------------------------------------
(* Network                                                                 *)

\* Message m is delivered and the messages in sent leave.  A faulty network keeps
\* m, to repeat it or, never delivering it again, not.
Deliver(m, sent) ==
  wire' = (IF network.faulty THEN wire ELSE wire \ {m}) \cup sent

SendResults == IF network.faulty THEN BOOLEAN ELSE {TRUE}

Plain(p, digest, expires) ==
  [type |-> "REGISTER", peer |-> p, call |-> calls[p] + 1, digest |-> digest,
   nonce |-> 0, nc |-> 0, expires |-> expires]

Reply(type, m, nonce) == [type |-> type, peer |-> m.peer, call |-> m.call, nonce |-> nonce]

-----------------------------------------------------------------------------
(* Upstream node: RegisterServerCapability::handleSipRequest               *)

\* cleanupExpiredChallenges, called first.
Unexpired ==
  [p \in Peers |-> IF challenges[p] # NoChallenge /\ challenges[p].expiresAt <= now
                   THEN NoChallenge ELSE challenges[p]]

\* Mutant: the nonce is not counted before it is stored.
issueChallenge_CountedLate(m) ==
  /\ Len(issuedAt) < network.maxNonces
  /\ issuedAt' = Append(issuedAt, now)
  /\ challenges' = [Unexpired EXCEPT ![m.peer] =
                      [nonce |-> Len(issuedAt), expiresAt |-> now + Lifetime,
                       lastNonceCount |-> 0, usedWithoutNonceCount |-> FALSE]]
  /\ Deliver(m, {Reply("401", m, Len(issuedAt) + 1)})
  /\ UNCHANGED <<registered, acceptLog, openly>>

\* A REGISTER without Authorization is challenged.  A challenge the peer has
\* not answered yet is replaced.
issueChallenge(m) ==
  /\ Len(issuedAt) < network.maxNonces
  /\ issuedAt' = Append(issuedAt, now)
  /\ challenges' = [Unexpired EXCEPT ![m.peer] =
                      [nonce |-> Len(issuedAt) + 1, expiresAt |-> now + Lifetime,
                       lastNonceCount |-> 0, usedWithoutNonceCount |-> FALSE]]
  /\ Deliver(m, {Reply("401", m, Len(issuedAt) + 1)})
  /\ UNCHANGED <<registered, acceptLog, openly>>

\* The digest value is right exactly when the peer knows the password.
verifyDigestResponse(m) == m.peer \in Trusted

\* Mutant: a nonce count seen before passes.
verifyChallenge_CountRepeats(m) ==
  LET c == Unexpired[m.peer]
  IN  /\ c # NoChallenge
      /\ m.nonce = c.nonce
      /\ IF m.nc > 0 THEN m.nc >= c.lastNonceCount ELSE ~c.usedWithoutNonceCount
      /\ verifyDigestResponse(m)

\* Mutant: expired challenges stay valid.
verifyChallenge_Unswept(m) ==
  LET c == challenges[m.peer]
  IN  /\ c # NoChallenge
      /\ m.nonce = c.nonce
      /\ IF m.nc > 0 THEN m.nc > c.lastNonceCount ELSE ~c.usedWithoutNonceCount
      /\ verifyDigestResponse(m)

\* The answer is to the outstanding challenge of the peer, its nonce count is new
\* (or, without qop, it is the first), and the digest value is right.
verifyChallenge(m) ==
  LET c == Unexpired[m.peer]
  IN  /\ c # NoChallenge
      /\ m.nonce = c.nonce
      /\ IF m.nc > 0 THEN m.nc > c.lastNonceCount ELSE ~c.usedWithoutNonceCount
      /\ verifyDigestResponse(m)

rejectRegister(m) ==
  /\ challenges' = Unexpired
  /\ Deliver(m, {Reply("403", m, 0)})
  /\ UNCHANGED <<registered, issuedAt, acceptLog, openly>>

\* A REGISTER taken without Digest is not the latest of these peers any more.
NoLonger(taken, peers) ==
  [p \in Peers |-> IF p \in peers /\ taken[p] = "now" THEN "earlier" ELSE taken[p]]

\* Mutant: a REGISTER with Expires: 0 registers.
acceptRegister_ExpiresIgnored(m) ==
  /\ challenges' = [Unexpired EXCEPT ![m.peer] =
                      IF m.nc > 0 THEN [@ EXCEPT !.lastNonceCount = m.nc]
                                  ELSE [@ EXCEPT !.usedWithoutNonceCount = TRUE]]
  /\ registered' = [registered EXCEPT ![m.peer] = TRUE]
  /\ acceptLog' = Append(acceptLog, [request |-> m, at |-> now])
  /\ openly' = NoLonger(openly, {m.peer})
  /\ Deliver(m, {Reply("200", m, 0)})
  /\ UNCHANGED issuedAt

\* The challenge remembers what it accepted; Expires: 0 unregisters.
acceptRegister(m) ==
  /\ challenges' = [Unexpired EXCEPT ![m.peer] =
                      IF m.nc > 0 THEN [@ EXCEPT !.lastNonceCount = m.nc]
                                  ELSE [@ EXCEPT !.usedWithoutNonceCount = TRUE]]
  /\ registered' = [registered EXCEPT ![m.peer] = (m.expires > 0)]
  /\ acceptLog' = Append(acceptLog, [request |-> m, at |-> now])
  /\ openly' = NoLonger(openly, {m.peer})
  /\ Deliver(m, {Reply("200", m, 0)})
  /\ UNCHANGED issuedAt

\* endpointRequiresAuth is false: neither password nor challenge is asked for, and
\* the peer is registered or unregistered all the same.
acceptUndigested(m) ==
  /\ challenges' = Unexpired
  /\ registered' = [registered EXCEPT ![m.peer] = (m.expires > 0)]
  /\ openly' = [openly EXCEPT ![m.peer] = "now"]
  /\ Deliver(m, {Reply("200", m, 0)})
  /\ UNCHANGED <<issuedAt, acceptLog>>

RegisterRequest(m) ==
  /\ m.type = "REGISTER"
  /\ \/ ~m.digest /\ acceptUndigested(m)
     \/ m.digest /\ m.nonce = 0 /\ issueChallenge(m)
     \/ m.digest /\ m.nonce # 0 /\ verifyChallenge(m) /\ acceptRegister(m)
     \/ m.digest /\ m.nonce # 0 /\ ~verifyChallenge(m) /\ rejectRegister(m)
  /\ UNCHANGED <<now, registrationRequested, clientRegistered, calls, boot, network>>

\* Registrations and challenges live in memory; onStop clears the challenges.
Restart ==
  /\ network.faulty
  /\ registered' = [p \in Peers |-> FALSE]
  /\ challenges' = [p \in Peers |-> NoChallenge]
  /\ boot' = Len(acceptLog)
  /\ openly' = NoLonger(openly, Peers)
  /\ UNCHANGED <<wire, now, registrationRequested, clientRegistered, calls, issuedAt, acceptLog,
                 network>>

Tick ==
  /\ now < network.maxTime
  /\ now' = now + 1
  /\ UNCHANGED <<wire, registered, challenges, registrationRequested, clientRegistered,
                 calls, issuedAt, acceptLog, boot, openly, network>>

-----------------------------------------------------------------------------
(* Downstream media-fabric node                                            *)

\* GB28181Node::requestRegistration: a failed send takes the request back.
RequestRegistration(n, sent) ==
  /\ calls[n] < network.maxCalls
  /\ calls' = [calls EXCEPT ![n] = @ + 1]
  /\ registrationRequested' = [registrationRequested EXCEPT ![n] = sent]
  /\ wire' = wire \cup (IF sent THEN {Plain(n, network.digest, 1)} ELSE {})
  /\ UNCHANGED <<now, registered, challenges, clientRegistered, issuedAt, acceptLog, boot, openly,
                 network>>

\* The refresh timer starts over with a REGISTER without Authorization.
RegisterRefresh(n) ==
  /\ registrationRequested[n]
  /\ calls[n] < network.maxCalls
  /\ calls' = [calls EXCEPT ![n] = @ + 1]
  /\ wire' = wire \cup {Plain(n, network.digest, 1)}
  /\ UNCHANGED <<now, registered, challenges, registrationRequested, clientRegistered,
                 issuedAt, acceptLog, boot, openly, network>>

\* The Digest retry keeps the Call-ID; the challenge offers no qop.
Authorized(m) == [type |-> "REGISTER", peer |-> m.peer, call |-> m.call, digest |-> TRUE,
                  nonce |-> m.nonce, nc |-> 0, expires |-> 1]

\* Mutant: only the challenge of the first REGISTER is answered.
RegisterResponse_ChallengeIgnored(m, sent) ==
  /\ m.type # "REGISTER" /\ m.peer \in Nodes
  /\ Deliver(m, IF m.type = "401" /\ m.call = 1 /\ sent THEN {Authorized(m)} ELSE {})
  /\ clientRegistered' = IF m.type = "200" THEN [clientRegistered EXCEPT ![m.peer] = TRUE]
                                           ELSE clientRegistered
  /\ UNCHANGED <<now, registered, challenges, registrationRequested, calls, issuedAt,
                 acceptLog, boot, openly, network>>

\* RegisterClientCapability::handleSipRequest: every 401 is answered, a 2xx
\* registers, and a 403 changes nothing.
RegisterResponse(m, sent) ==
  /\ m.type # "REGISTER" /\ m.peer \in Nodes
  /\ Deliver(m, IF m.type = "401" /\ sent THEN {Authorized(m)} ELSE {})
  /\ clientRegistered' = IF m.type = "200" THEN [clientRegistered EXCEPT ![m.peer] = TRUE]
                                           ELSE clientRegistered
  /\ UNCHANGED <<now, registered, challenges, registrationRequested, calls, issuedAt,
                 acceptLog, boot, openly, network>>

-----------------------------------------------------------------------------
(* Other devices (external)                                                *)

\* Another device may address any endpoint, its own id in To among them.  (The Expires
\* of a REGISTER that is challenged is not read: it is 1 in the model.)
ForeignRegister(p, digest, expires) ==
  /\ calls[p] < network.maxCalls
  /\ calls' = [calls EXCEPT ![p] = @ + 1]
  /\ wire' = wire \cup {Plain(p, digest, expires)}
  /\ UNCHANGED <<now, registered, challenges, registrationRequested, clientRegistered,
                 issuedAt, acceptLog, boot, openly, network>>

\* An answer with a nonce count, to register or to unregister.
ForeignResponse(m, nc, expires) ==
  /\ m.type # "REGISTER" /\ m.peer \in Foreign
  /\ Deliver(m, IF m.type = "401"
                THEN {[Authorized(m) EXCEPT !.nc = nc, !.expires = expires]} ELSE {})
  /\ UNCHANGED <<now, registered, challenges, registrationRequested, clientRegistered,
                 calls, issuedAt, acceptLog, boot, openly, network>>

-----------------------------------------------------------------------------
Receive ==
  \E m \in wire :
    \/ RegisterRequest(m)
    \/ \E sent \in SendResults : RegisterResponse(m, sent)
    \/ \E nc \in 1..MaxNc, expires \in {0, 1} : ForeignResponse(m, nc, expires)

Start ==
  \/ \E n \in Nodes : RegisterRefresh(n) \/ \E sent \in SendResults : RequestRegistration(n, sent)
  \/ \E p \in Foreign : \/ ForeignRegister(p, TRUE, 1)
                       \/ \E expires \in {0, 1} : ForeignRegister(p, FALSE, expires)

Next == Receive \/ Start \/ Restart \/ Tick

Spec == Init /\ [][Next]_vars

\* Messages that are not lost arrive.
FairSpec == Spec /\ WF_vars(Receive)

-----------------------------------------------------------------------------
(* Properties                                                              *)

TypeOK ==
  /\ wire \in SUBSET (Register \cup Response)
  /\ now \in Nat
  /\ registered \in [Peers -> BOOLEAN]
  /\ challenges \in [Peers -> Challenge \cup {NoChallenge}]
  /\ registrationRequested \in [Nodes -> BOOLEAN]
  /\ clientRegistered \in [Nodes -> BOOLEAN]
  /\ calls \in [Peers -> Nat]
  /\ issuedAt \in Seq(Nat)
  /\ acceptLog \in Seq(Accepted)
  /\ boot \in Nat
  /\ openly \in [Peers -> Openly]
  /\ network \in Network

\* Replays are rejected (README): no REGISTER is accepted twice, however often
\* the network repeats it, and not across a restart either.
ReplayRejected ==
  \A i, j \in 1..Len(acceptLog) :
    i # j => acceptLog[i].request # acceptLog[j].request

\* Requests are accepted in the order of their challenges, and with growing
\* nonce counts under one challenge: an answer to a challenge that has been
\* superseded, or one overtaken by a later answer, is late for good.
AcceptedInOrder ==
  \A i, j \in 1..Len(acceptLog) :
    LET a == acceptLog[i].request
        b == acceptLog[j].request
    IN  i < j /\ a.peer = b.peer =>
          /\ a.nonce <= b.nonce
          /\ a.nonce = b.nonce /\ a.nc > 0 /\ b.nc > 0 => a.nc < b.nc

\* verifyChallenge accepts an answer once and in order, although it compares it
\* with the peer's newest challenge and highest nonce count only, and forgets
\* both in a restart or a sweep.
AcceptedOnceInOrder == ReplayRejected /\ AcceptedInOrder

\* A challenge is only good for its lifetime, to the second.
AcceptedInTime ==
  \A i \in 1..Len(acceptLog) :
    acceptLog[i].at < issuedAt[acceptLog[i].request.nonce] + Lifetime

\* Unless the latest REGISTER taken of a peer since the restart was addressed where
\* no Digest is asked, the upstream registry says what its latest accepted REGISTER
\* since the restart asked for: a REGISTER that is challenged, rejected, late or
\* repeated leaves the peer as it was.
RegistryFollowsDigest ==
  \A p \in Peers : openly[p] # "now" =>
    (registered[p] <=>
       \E i \in boot + 1..Len(acceptLog) :
         /\ acceptLog[i].request.peer = p
         /\ acceptLog[i].request.expires > 0
         /\ \A j \in i + 1..Len(acceptLog) : acceptLog[j].request.peer # p)

\* A node that believes it is registered has had a REGISTER taken upstream, with an
\* accepted Digest if the endpoint it addresses asks for one.
BeliefGrounded ==
  \A n \in Nodes : clientRegistered[n] =>
    IF network.digest THEN \E i \in 1..Len(acceptLog) : acceptLog[i].request.peer = n
                      ELSE openly[n] # "never"

\* Both ends' flags have behind them an accepted Digest, or a REGISTER to where
\* none is asked, whatever is late or lost.
RegistrationsGrounded == RegistryFollowsDigest /\ BeliefGrounded

\* While nothing fails, a node that asks for a registration, and knows the password
\* if it is asked for one, gets it: REGISTERs of the command and of the refresh
\* timer that overlap, each replacing the challenge of the other, do not starve
\* each other.
RequestServed ==
  \A n \in Nodes :
    ~network.faulty /\ registrationRequested[n] /\ (network.digest => n \in Trusted)
      ~> clientRegistered[n] /\ registered[n]
=============================================================================
