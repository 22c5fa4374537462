------------------------- MODULE RegistrationProofs -------------------------
(***************************************************************************)
(* Proofs about Registration, for every set of peers, every lifetime and   *)
(* every number of messages, challenges and restarts.                      *)
(***************************************************************************)
EXTENDS Registration, TLAPS

\* Every nonce in use was issued, and a cached challenge expires one lifetime
\* after it was.
NoncesIssued ==
  /\ \A i \in 1..Len(acceptLog) : acceptLog[i].request.nonce \in 1..Len(issuedAt)
  /\ \A p \in Peers : challenges[p] # NoChallenge =>
       /\ challenges[p].nonce \in 1..Len(issuedAt)
       /\ challenges[p].expiresAt = issuedAt[challenges[p].nonce] + Lifetime

\* A cached challenge is the newest its peer has answered, and it remembers
\* every answer accepted for it.
ChallengeRemembers ==
  \A p \in Peers, i \in 1..Len(acceptLog) :
    challenges[p] # NoChallenge /\ acceptLog[i].request.peer = p =>
      /\ acceptLog[i].request.nonce <= challenges[p].nonce
      /\ acceptLog[i].request.nonce = challenges[p].nonce =>
           IF acceptLog[i].request.nc > 0
           THEN acceptLog[i].request.nc <= challenges[p].lastNonceCount
           ELSE challenges[p].usedWithoutNonceCount

\* What was accepted before the last restart is in the log.
BootBound == boot <= Len(acceptLog)

\* The invariants about the upstream node; the last three conjuncts are not
\* inductive without the memory of the challenges.
LogInv ==
  /\ NoncesIssued
  /\ ChallengeRemembers
  /\ BootBound
  /\ ReplayRejected
  /\ AcceptedInOrder
  /\ AcceptedInTime
  /\ RegistryFollowsDigest

\* Nodes that have had a REGISTER taken, with an accepted Digest if one is asked for.
TakenNodes ==
  {n \in Nodes : IF network.digest THEN \E i \in 1..Len(acceptLog) : acceptLog[i].request.peer = n
                                   ELSE openly[n] # "never"}

\* A 200 in flight to a node answers a REGISTER that was taken.
OkGrounded == \A m \in wire : m.type = "200" /\ m.peer \in Nodes => m.peer \in TakenNodes

\* What a node sends is addressed where the network says, and it is challenged only
\* there.
NodesAddress ==
  \A m \in wire : m.peer \in Nodes =>
    /\ m.type = "REGISTER" => m.digest = network.digest
    /\ m.type = "401" => network.digest = TRUE

\* The inductive invariant.
IInv == TypeOK /\ LogInv /\ OkGrounded /\ NodesAddress /\ BeliefGrounded

-----------------------------------------------------------------------------
\* It holds initially,
LEMMA InitIInv == Init => IInv
<1> SUFFICES ASSUME Init PROVE IInv
  OBVIOUS
<1> USE DEF Init
<1>1. TypeOK
  BY RegistrationAssumption DEF TypeOK, Openly
<1>2. LogInv
  BY DEF LogInv, NoncesIssued, ChallengeRemembers, BootBound, ReplayRejected,
         AcceptedInOrder, AcceptedInTime, RegistryFollowsDigest
<1> QED
  BY <1>1, <1>2 DEF IInv, OkGrounded, NodesAddress, BeliefGrounded

\* A message the upstream node handles is a REGISTER.
LEMMA RequestTyped ==
  ASSUME TypeOK, NEW m \in wire, m.type = "REGISTER"
  PROVE  /\ m \in Register
         /\ m.peer \in Peers /\ m.call \in Nat /\ m.nonce \in Nat /\ m.nc \in Nat
         /\ m.expires \in {0, 1} /\ m.digest \in BOOLEAN
BY DEF TypeOK, Register, Response

\* Sweeping expired challenges leaves a challenge alone or removes it.
LEMMA SweepLemma ==
  ASSUME TypeOK
  PROVE  /\ Unexpired \in [Peers -> Challenge \cup {NoChallenge}]
         /\ \A p \in Peers : Unexpired[p] # NoChallenge =>
              /\ Unexpired[p] = challenges[p]
              /\ challenges[p] \in Challenge
              /\ now < challenges[p].expiresAt
BY DEF TypeOK, Unexpired, Challenge, NoChallenge, Nonces

\* What the network delivers next: what it had, and what is sent.
LEMMA DeliverLemma ==
  ASSUME TypeOK, NEW m \in wire, NEW sent \in SUBSET (Register \cup Response), Deliver(m, sent)
  PROVE  /\ wire' \in SUBSET (Register \cup Response)
         /\ wire' \subseteq wire \cup sent
BY DEF Deliver, TypeOK

\* Steps that leave the log and the registry alone.
LEMMA SameLog ==
  ASSUME UNCHANGED <<registered, acceptLog, boot, openly, network>>
  PROVE  /\ BootBound => BootBound'
         /\ ReplayRejected => ReplayRejected'
         /\ AcceptedInOrder => AcceptedInOrder'
         /\ RegistryFollowsDigest => RegistryFollowsDigest'
         /\ issuedAt' = issuedAt /\ AcceptedInTime => AcceptedInTime'
<1>1. /\ BootBound => BootBound'
      /\ ReplayRejected => ReplayRejected'
      /\ RegistryFollowsDigest => RegistryFollowsDigest'
  BY DEF BootBound, ReplayRejected, RegistryFollowsDigest
<1>2. AcceptedInOrder => AcceptedInOrder'
  BY DEF AcceptedInOrder
<1>3. issuedAt' = issuedAt /\ AcceptedInTime => AcceptedInTime'
  BY DEF AcceptedInTime
<1> QED
  BY <1>1, <1>2, <1>3

\* An answer is typed and of the peer that asked.
LEMMA ReplyTyped ==
  ASSUME NEW m \in Register, NEW type \in {"401", "200", "403"}, NEW nonce \in Nat
  PROVE  /\ Reply(type, m, nonce) \in Response
         /\ Reply(type, m, nonce).type = type
         /\ Reply(type, m, nonce).peer = m.peer
BY DEF Reply, Response, Register

\* What was taken stays taken, in steps that add to the log and to openly.
LEMMA TakenStays ==
  ASSUME IInv, UNCHANGED network, NEW n \in Nodes, n \in TakenNodes,
         \A i \in 1..Len(acceptLog) : i \in 1..Len(acceptLog') /\ acceptLog'[i] = acceptLog[i],
         openly[n] # "never" => openly'[n] # "never"
  PROVE  n \in TakenNodes'
BY DEF TakenNodes

\* The messages in flight and the nodes' beliefs are grounded after a step if what is
\* sent is.
LEMMA GroundedStep ==
  ASSUME IInv, UNCHANGED <<clientRegistered, network>>,
         TakenNodes \subseteq TakenNodes',
         \A r \in wire' \ wire : r.peer \in Nodes =>
           /\ r.type = "200" => r.peer \in TakenNodes'
           /\ r.type = "REGISTER" => r.digest = network.digest
           /\ r.type = "401" => network.digest = TRUE
  PROVE  OkGrounded' /\ NodesAddress' /\ BeliefGrounded'
<1>1. OkGrounded'
  BY DEF IInv, OkGrounded
<1>2. NodesAddress'
  BY DEF IInv, NodesAddress
<1>3. BeliefGrounded'
  BY DEF IInv, BeliefGrounded, TakenNodes
<1> QED
  BY <1>1, <1>2, <1>3

\* In a step that takes no REGISTER nothing changes that TakenNodes reads.
LEMMA SameTaken ==
  ASSUME UNCHANGED <<acceptLog, openly, network>>
  PROVE  TakenNodes' = TakenNodes
BY DEF TakenNodes

-----------------------------------------------------------------------------
(* The upstream node                                                       *)

\* the challenge keeps it,
LEMMA ChallengeStep ==
  ASSUME IInv, NEW m \in wire, m.type = "REGISTER", m.digest, issueChallenge(m),
         UNCHANGED <<now, registrationRequested, clientRegistered, calls, boot, network>>
  PROVE  IInv'
<1> DEFINE n == Len(issuedAt) + 1
           new == [nonce |-> n, expiresAt |-> now + Lifetime,
                   lastNonceCount |-> 0, usedWithoutNonceCount |-> FALSE]
           sent == {Reply("401", m, n)}
<1> USE DEF IInv, TypeOK
<1>1. /\ issuedAt' = Append(issuedAt, now)
      /\ challenges' = [Unexpired EXCEPT ![m.peer] = new]
      /\ Deliver(m, sent)
      /\ UNCHANGED <<registered, acceptLog, openly>>
  BY DEF issueChallenge
<1>2. m \in Register /\ m.peer \in Peers
  BY RequestTyped
<1>3. /\ Len(issuedAt) \in Nat /\ n \in Nonces /\ Lifetime \in Nat /\ now \in Nat
      /\ issuedAt' \in Seq(Nat) /\ Len(issuedAt') = n
      /\ issuedAt'[n] = now
      /\ \A k \in 1..Len(issuedAt) : issuedAt'[k] = issuedAt[k]
  BY <1>1, RegistrationAssumption DEF Nonces
<1>4. new \in Challenge /\ new # NoChallenge
  BY <1>3 DEF Challenge, NoChallenge, Nonces
<1>5. /\ sent \in SUBSET (Register \cup Response)
      /\ \A r \in sent : r.type = "401" /\ r.peer = m.peer
  BY <1>2, <1>3, ReplyTyped DEF Nonces
<1>6. wire' \in SUBSET (Register \cup Response) /\ wire' \subseteq wire \cup sent
  BY <1>1, <1>5, DeliverLemma
<1>7. TypeOK'
  BY <1>1, <1>2, <1>3, <1>4, <1>6, SweepLemma
<1>8. \A p \in Peers : challenges'[p] # NoChallenge =>
        \/ p = m.peer /\ challenges'[p] = new
        \/ p # m.peer /\ challenges'[p] = challenges[p] /\ challenges[p] # NoChallenge
  BY <1>1, <1>2, SweepLemma
<1>9. NoncesIssued'
  <2>1. \A i \in 1..Len(acceptLog') : acceptLog'[i].request.nonce \in 1..Len(issuedAt')
    <3>1. \A i \in 1..Len(acceptLog) : acceptLog[i].request.nonce \in 1..Len(issuedAt)
      BY DEF LogInv, NoncesIssued
    <3> HIDE DEF IInv, TypeOK, n
    <3> QED
      BY <1>1, <1>3, <3>1
  <2>2. ASSUME NEW p \in Peers, challenges'[p] # NoChallenge
        PROVE  /\ challenges'[p].nonce \in 1..Len(issuedAt')
               /\ challenges'[p].expiresAt = issuedAt'[challenges'[p].nonce] + Lifetime
    <3>1. CASE challenges'[p] = new
      BY <1>3, <3>1 DEF Nonces
    <3>2. CASE challenges'[p] = challenges[p] /\ challenges[p] # NoChallenge
      <4>1. /\ challenges[p].nonce \in 1..Len(issuedAt)
            /\ challenges[p].expiresAt = issuedAt[challenges[p].nonce] + Lifetime
        BY <3>2 DEF LogInv, NoncesIssued
      <4> QED
        BY <1>3, <3>2, <4>1, SMTT(60)
    <3> QED
      BY <1>8, <2>2, <3>1, <3>2
  <2> QED
    BY <2>1, <2>2 DEF NoncesIssued
<1>10. ChallengeRemembers'
  <2> SUFFICES ASSUME NEW p \in Peers, NEW i \in 1..Len(acceptLog'),
                      challenges'[p] # NoChallenge, acceptLog'[i].request.peer = p
               PROVE  /\ acceptLog'[i].request.nonce <= challenges'[p].nonce
                      /\ acceptLog'[i].request.nonce = challenges'[p].nonce =>
                           IF acceptLog'[i].request.nc > 0
                           THEN acceptLog'[i].request.nc <= challenges'[p].lastNonceCount
                           ELSE challenges'[p].usedWithoutNonceCount
    BY DEF ChallengeRemembers
  <2>1. CASE challenges'[p] = new
    <3>1. acceptLog'[i].request.nonce \in 1..Len(issuedAt)
      BY <1>1 DEF LogInv, NoncesIssued
    <3>2. challenges'[p].nonce = Len(issuedAt) + 1
      BY <2>1
    <3> HIDE DEF IInv, TypeOK, n, new
    <3> QED
      BY <1>3, <3>1, <3>2
  <2>2. CASE challenges'[p] = challenges[p] /\ challenges[p] # NoChallenge
    BY <1>1, <2>2 DEF LogInv, ChallengeRemembers
  <2> QED
    BY <1>8, <2>1, <2>2
<1>11. BootBound' /\ ReplayRejected' /\ AcceptedInOrder' /\ RegistryFollowsDigest'
  BY <1>1, SameLog DEF LogInv
<1>12. AcceptedInTime'
  BY <1>1, <1>3 DEF LogInv, AcceptedInTime, NoncesIssued
<1>13. OkGrounded' /\ NodesAddress' /\ BeliefGrounded'
  <2>1. m.peer \in Nodes => network.digest = TRUE
    BY <1>2, RequestTyped DEF NodesAddress
  <2>2. TakenNodes \subseteq TakenNodes'
    BY <1>1, SameTaken
  <2> HIDE DEF IInv, TypeOK, sent
  <2> QED
    BY <1>5, <1>6, <2>1, <2>2, GroundedStep
<1> QED
  BY <1>7, <1>9, <1>10, <1>11, <1>12, <1>13 DEF LogInv

\* a rejection does,
LEMMA RejectStep ==
  ASSUME IInv, NEW m \in wire, m.type = "REGISTER", rejectRegister(m),
         UNCHANGED <<now, registrationRequested, clientRegistered, calls, boot, network>>
  PROVE  IInv'
<1> USE DEF IInv, TypeOK
<1>1. /\ challenges' = Unexpired
      /\ Deliver(m, {Reply("403", m, 0)})
      /\ UNCHANGED <<registered, issuedAt, acceptLog, openly>>
  BY DEF rejectRegister
<1>2. {Reply("403", m, 0)} \in SUBSET (Register \cup Response) /\ Reply("403", m, 0).type = "403"
  BY RequestTyped, ReplyTyped
<1>3. wire' \in SUBSET (Register \cup Response) /\ wire' \subseteq wire \cup {Reply("403", m, 0)}
  BY <1>1, <1>2, DeliverLemma
<1>4. TypeOK'
  BY <1>1, <1>3, SweepLemma
<1>5. \A p \in Peers : challenges'[p] # NoChallenge => challenges'[p] = challenges[p]
  BY <1>1, SweepLemma
<1>6. NoncesIssued' /\ ChallengeRemembers'
  BY <1>1, <1>5 DEF LogInv, NoncesIssued, ChallengeRemembers
<1>7. BootBound' /\ ReplayRejected' /\ AcceptedInOrder' /\ AcceptedInTime' /\ RegistryFollowsDigest'
  BY <1>1, SameLog DEF LogInv
<1>8. OkGrounded' /\ NodesAddress' /\ BeliefGrounded'
  <2>1. TakenNodes \subseteq TakenNodes'
    BY <1>1, SameTaken
  <2> HIDE DEF IInv, TypeOK
  <2> QED
    BY <1>2, <1>3, <2>1, GroundedStep
<1> QED
  BY <1>4, <1>6, <1>7, <1>8 DEF LogInv

\* The heart of the argument: an accepted answer is for the newest challenge of
\* its peer, and differs from every answer the challenge remembers.
LEMMA AcceptStep ==
  ASSUME IInv, NEW m \in wire, m.type = "REGISTER", m.digest, m.nonce # 0,
         verifyChallenge(m), acceptRegister(m),
         UNCHANGED <<now, registrationRequested, clientRegistered, calls, boot, network>>
  PROVE  IInv'
<1> DEFINE p == m.peer
           c == challenges[p]
           used == IF m.nc > 0 THEN [c EXCEPT !.lastNonceCount = m.nc]
                               ELSE [c EXCEPT !.usedWithoutNonceCount = TRUE]
           n == Len(acceptLog)
           entry == [request |-> m, at |-> now]
<1> USE DEF IInv, TypeOK
<1>1. /\ m \in Register /\ p \in Peers /\ m.nonce \in Nat /\ m.nc \in Nat /\ m.expires \in {0, 1}
  BY RequestTyped
<1>2. /\ Unexpired[p] = c /\ c # NoChallenge /\ c \in Challenge /\ now < c.expiresAt
      /\ m.nonce = c.nonce
      /\ IF m.nc > 0 THEN m.nc > c.lastNonceCount ELSE ~c.usedWithoutNonceCount
  BY <1>1, SweepLemma DEF verifyChallenge
<1>3. /\ challenges' = [Unexpired EXCEPT ![p] = used]
      /\ registered' = [registered EXCEPT ![p] = (m.expires > 0)]
      /\ acceptLog' = Append(acceptLog, entry)
      /\ openly' = NoLonger(openly, {p})
      /\ Deliver(m, {Reply("200", m, 0)})
      /\ UNCHANGED issuedAt
  BY <1>1, <1>2, SweepLemma DEF acceptRegister
<1>4. /\ used \in Challenge /\ used # NoChallenge
      /\ used.nonce = c.nonce /\ used.expiresAt = c.expiresAt
      /\ m.nc > 0 => used.lastNonceCount = m.nc
                     /\ used.usedWithoutNonceCount = c.usedWithoutNonceCount
      /\ ~(m.nc > 0) => used.usedWithoutNonceCount
                        /\ used.lastNonceCount = c.lastNonceCount
  BY <1>1, <1>2 DEF Challenge, NoChallenge, Nonces
<1>5. /\ n \in Nat /\ Len(acceptLog') = n + 1 /\ acceptLog'[n + 1] = entry
      /\ acceptLog' \in Seq(Accepted)
      /\ \A i \in 1..n : acceptLog'[i] = acceptLog[i]
      /\ \A i \in 1..n : acceptLog[i] \in Accepted
  <2>1. entry \in Accepted
    BY <1>1 DEF Accepted
  <2>2. acceptLog \in Seq(Accepted)
    OBVIOUS
  <2> HIDE DEF entry, IInv, TypeOK
  <2> QED
    BY <1>3, <2>1, <2>2
<1>6. \A i \in 1..n :
        /\ acceptLog[i].request \in Register /\ acceptLog[i].request.nonce \in Nat
        /\ acceptLog[i].request.nc \in Nat
  BY <1>5 DEF Accepted, Register
<1>7. /\ {Reply("200", m, 0)} \in SUBSET (Register \cup Response)
      /\ Reply("200", m, 0).peer = p /\ Reply("200", m, 0).type = "200"
  BY <1>1, ReplyTyped
<1>8. wire' \in SUBSET (Register \cup Response) /\ wire' \subseteq wire \cup {Reply("200", m, 0)}
  BY <1>3, <1>7, DeliverLemma
<1>9. TypeOK'
  <2>1. openly' \in [Peers -> Openly]
    BY <1>3 DEF NoLonger, Openly
  <2> QED
    <3>1. /\ challenges' \in [Peers -> Challenge \cup {NoChallenge}]
          /\ registered' \in [Peers -> BOOLEAN]
      BY <1>1, <1>3, <1>4, SweepLemma
    <3>2. issuedAt' \in Seq(Nat) /\ acceptLog' \in Seq(Accepted)
      BY <1>3, <1>5
    <3>3. /\ now' \in Nat /\ boot' \in Nat /\ network' \in Network
          /\ calls' \in [Peers -> Nat]
          /\ registrationRequested' \in [Nodes -> BOOLEAN]
          /\ clientRegistered' \in [Nodes -> BOOLEAN]
      OBVIOUS
    <3> QED
      BY <1>8, <2>1, <3>1, <3>2, <3>3
<1>10. c.nonce \in 1..Len(issuedAt) /\ c.expiresAt = issuedAt[c.nonce] + Lifetime
  BY <1>1, <1>2 DEF LogInv, NoncesIssued
<1>11. \A q \in Peers : challenges'[q] # NoChallenge =>
         \/ q = p /\ challenges'[q] = used
         \/ q # p /\ challenges'[q] = challenges[q]
  BY <1>1, <1>3, SweepLemma
<1>12. NoncesIssued'
  <2>1. \A i \in 1..Len(acceptLog') : acceptLog'[i].request.nonce \in 1..Len(issuedAt')
    <3> TAKE i \in 1..Len(acceptLog')
    <3>1. CASE i \in 1..n
      BY <1>3, <1>5, <3>1 DEF LogInv, NoncesIssued
    <3>2. CASE i = n + 1
      BY <1>2, <1>3, <1>5, <1>10, <3>2
    <3> QED
      BY <1>5, <3>1, <3>2
  <2>2. ASSUME NEW q \in Peers, challenges'[q] # NoChallenge
        PROVE  /\ challenges'[q].nonce \in 1..Len(issuedAt')
               /\ challenges'[q].expiresAt = issuedAt'[challenges'[q].nonce] + Lifetime
    <3>1. CASE q = p /\ challenges'[q] = used
      <4> HIDE DEF used, c
      <4> QED
        BY <1>3, <1>4, <1>10, <3>1
    <3>2. CASE q # p /\ challenges'[q] = challenges[q]
      BY <1>3, <2>2, <3>2 DEF LogInv, NoncesIssued
    <3> QED
      BY <1>11, <2>2, <3>1, <3>2
  <2> QED
    BY <2>1, <2>2 DEF NoncesIssued
<1>13. ChallengeRemembers'
  <2> SUFFICES ASSUME NEW q \in Peers, NEW i \in 1..Len(acceptLog'),
                      challenges'[q] # NoChallenge, acceptLog'[i].request.peer = q
               PROVE  /\ acceptLog'[i].request.nonce <= challenges'[q].nonce
                      /\ acceptLog'[i].request.nonce = challenges'[q].nonce =>
                           IF acceptLog'[i].request.nc > 0
                           THEN acceptLog'[i].request.nc <= challenges'[q].lastNonceCount
                           ELSE challenges'[q].usedWithoutNonceCount
    BY DEF ChallengeRemembers
  <2>1. CASE i = n + 1
    <3>0. acceptLog'[i].request = m /\ q = p
      BY <1>5, <2>1
    <3>1. acceptLog'[i].request = m /\ q = p /\ challenges'[q] = used
      BY <1>11, <3>0
    <3> HIDE DEF used, c, IInv, TypeOK
    <3> QED
      BY <1>1, <1>2, <1>4, <3>1
  <2>2. CASE i \in 1..n /\ q # p
    BY <1>5, <1>11, <2>2, ZenonT(60) DEF LogInv, ChallengeRemembers
  <2>3. CASE i \in 1..n /\ q = p
    <3>1. /\ acceptLog[i].request.nonce <= c.nonce
          /\ acceptLog[i].request.nonce = c.nonce =>
               IF acceptLog[i].request.nc > 0
               THEN acceptLog[i].request.nc <= c.lastNonceCount
               ELSE c.usedWithoutNonceCount
      BY <1>2, <1>5, <2>3 DEF LogInv, ChallengeRemembers
    <3>2. c.lastNonceCount \in Nat
      BY <1>2 DEF Challenge
    <3>3. challenges'[q] = used
      BY <1>11, <2>3
    <3> QED
      BY <1>1, <1>2, <1>4, <1>5, <1>6, <2>3, <3>1, <3>2, <3>3, SMTT(60)
  <2> QED
    BY <1>5, <2>1, <2>2, <2>3
<1>14. /\ \A i \in 1..n : acceptLog[i].request # m
       /\ \A i \in 1..n : acceptLog[i].request.peer = p =>
         /\ acceptLog[i].request.nonce <= m.nonce
         /\ acceptLog[i].request.nonce = m.nonce /\ acceptLog[i].request.nc > 0 /\ m.nc > 0
              => acceptLog[i].request.nc < m.nc
  <2> SUFFICES ASSUME NEW i \in 1..n, acceptLog[i].request.peer = p
               PROVE  /\ acceptLog[i].request.nonce <= m.nonce
                      /\ acceptLog[i].request # m
                      /\ acceptLog[i].request.nonce = m.nonce /\ acceptLog[i].request.nc > 0
                         /\ m.nc > 0 => acceptLog[i].request.nc < m.nc
    OBVIOUS
  <2>1. /\ acceptLog[i].request.nonce <= c.nonce
        /\ acceptLog[i].request.nonce = c.nonce =>
             IF acceptLog[i].request.nc > 0
             THEN acceptLog[i].request.nc <= c.lastNonceCount
             ELSE c.usedWithoutNonceCount
    BY <1>1, <1>2 DEF LogInv, ChallengeRemembers
  <2>2. c.lastNonceCount \in Nat
    BY <1>2 DEF Challenge
  <2> QED
    BY <1>1, <1>2, <1>6, <2>1, <2>2
<1>15. ReplayRejected'
  <2> SUFFICES ASSUME NEW i \in 1..n + 1, NEW j \in 1..n + 1, i # j
               PROVE  acceptLog'[i].request # acceptLog'[j].request
    BY <1>5 DEF ReplayRejected
  <2>1. CASE i \in 1..n /\ j \in 1..n
    BY <1>5, <2>1 DEF LogInv, ReplayRejected
  <2>2. \A k \in 1..n : acceptLog[k].request # m
    BY <1>14
  <2>3. acceptLog'[n + 1].request = m
    BY <1>5
  <2>4. CASE i \in 1..n /\ j = n + 1
    BY <1>5, <2>2, <2>3, <2>4
  <2>5. CASE i = n + 1 /\ j \in 1..n
    BY <1>5, <2>2, <2>3, <2>5
  <2> QED
    BY <1>5, <2>1, <2>4, <2>5
<1>16. AcceptedInOrder'
  <2> SUFFICES ASSUME NEW i \in 1..n + 1, NEW j \in 1..n + 1, i < j,
                      acceptLog'[i].request.peer = acceptLog'[j].request.peer
               PROVE  /\ acceptLog'[i].request.nonce <= acceptLog'[j].request.nonce
                      /\ acceptLog'[i].request.nonce = acceptLog'[j].request.nonce
                         /\ acceptLog'[i].request.nc > 0 /\ acceptLog'[j].request.nc > 0
                           => acceptLog'[i].request.nc < acceptLog'[j].request.nc
    BY <1>5 DEF AcceptedInOrder
  <2>0. AcceptedInOrder
    BY DEF LogInv
  <2>1. CASE j \in 1..n
    <3>1. i \in 1..n /\ acceptLog'[i] = acceptLog[i] /\ acceptLog'[j] = acceptLog[j]
      BY <1>5, <2>1
    <3> HIDE DEF IInv, TypeOK
    <3> QED
      BY <2>0, <2>1, <3>1 DEF AcceptedInOrder
  <2>2. CASE j = n + 1
    <3>1. i \in 1..n /\ acceptLog'[i] = acceptLog[i] /\ acceptLog'[j].request = m
      BY <1>5, <2>2
    <3> HIDE DEF IInv, TypeOK
    <3> QED
      BY <1>14, <3>1
  <2>3. j \in 1..n \/ j = n + 1
    <3> HIDE DEF IInv, TypeOK
    <3> QED
      BY <1>5
  <2> QED
    BY <2>1, <2>2, <2>3
<1>17. AcceptedInTime'
  <2> SUFFICES ASSUME NEW i \in 1..n + 1
               PROVE  acceptLog'[i].at < issuedAt'[acceptLog'[i].request.nonce] + Lifetime
    BY <1>5 DEF AcceptedInTime
  <2>1. CASE i \in 1..n
    BY <1>3, <1>5, <2>1 DEF LogInv, AcceptedInTime
  <2>2. CASE i = n + 1
    BY <1>2, <1>3, <1>5, <1>10, <2>2, SMTT(60)
  <2> QED
    BY <1>5, <2>1, <2>2
<1>18. BootBound' /\ boot' = boot /\ boot \in Nat /\ boot <= n
  BY <1>5 DEF LogInv, BootBound
<1>19. RegistryFollowsDigest'
  <2> DEFINE Newest(log, q, i) == /\ log[i].request.peer = q
                                  /\ log[i].request.expires > 0
                                  /\ \A j \in i + 1..Len(log) : log[j].request.peer # q
  <2> SUFFICES ASSUME NEW q \in Peers
               PROVE  openly'[q] # "now" =>
                        (registered'[q] <=> \E i \in boot + 1..n + 1 : Newest(acceptLog', q, i))
    BY <1>5, <1>18, ZenonT(60) DEF RegistryFollowsDigest
  <2>1. CASE q = p
    <3>1. ASSUME NEW i \in boot + 1..n + 1, Newest(acceptLog', q, i) PROVE i = n + 1
      <4>1. i \in Nat /\ i <= n + 1 /\ Len(acceptLog') = n + 1 /\ n \in Nat
        BY <1>5, <1>18
      <4>2. CASE i < n + 1
        <5>1. n + 1 \in i + 1..Len(acceptLog')
          BY <4>1, <4>2
        <5>2. acceptLog'[n + 1].request.peer = q
          BY <1>5, <2>1
        <5> QED
          BY <3>1, <5>1, <5>2
      <4> QED
        BY <4>1, <4>2, SMTT(60)
    <3>2. Newest(acceptLog', q, n + 1) <=> m.expires > 0
      BY <1>5, <2>1
    <3>3. registered'[q] <=> m.expires > 0
      BY <1>1, <1>3, <2>1
    <3>4. n + 1 \in boot + 1..n + 1
      BY <1>5, <1>18
    <3> HIDE DEF Newest
    <3> QED
      BY <3>1, <3>2, <3>3, <3>4
  <2>2. CASE q # p
    <3>1. ~Newest(acceptLog', q, n + 1)
      BY <1>5, <2>2
    <3>2. ASSUME NEW i \in boot + 1..n
          PROVE  Newest(acceptLog', q, i) <=> Newest(acceptLog, q, i)
      <4>1. i \in 1..n /\ acceptLog'[i] = acceptLog[i] /\ Len(acceptLog') = n + 1
        BY <1>5, <1>18
      <4>2. acceptLog'[n + 1].request.peer # q
        BY <1>5, <2>2
      <4>3. \A j \in i + 1..n : acceptLog'[j] = acceptLog[j]
        BY <1>5, <4>1
      <4>4. \A j : j \in i + 1..n + 1 <=> j \in i + 1..n \/ j = n + 1
        <5>1. i \in Nat /\ n \in Nat /\ i <= n
          BY <1>5, <4>1
        <5> HIDE DEF n, IInv, TypeOK
        <5> QED
          BY <5>1
      <4> HIDE DEF IInv, TypeOK
      <4> QED
        BY <4>1, <4>2, <4>3, <4>4
    <3>3. registered'[q] = registered[q]
      BY <1>1, <1>3, <2>2
    <3>4. openly'[q] # "now" =>
            (registered[q] <=> \E i \in boot + 1..n : Newest(acceptLog, q, i))
      <4>1. openly'[q] # "now" => openly[q] # "now"
        BY <1>3, <2>2 DEF NoLonger
      <4> QED
        BY <4>1 DEF LogInv, RegistryFollowsDigest
    <3>5. \A i : i \in boot + 1..n + 1 <=> i \in boot + 1..n \/ i = n + 1
      BY <1>5, <1>18
    <3> HIDE DEF Newest
    <3> QED
      BY <3>1, <3>2, <3>3, <3>4, <3>5
  <2> QED
    BY <2>1, <2>2
<1>20. OkGrounded' /\ NodesAddress' /\ BeliefGrounded'
  <2>1. TakenNodes \subseteq TakenNodes'
    <3> SUFFICES ASSUME NEW k \in TakenNodes PROVE k \in TakenNodes'
      OBVIOUS
    <3>0. k \in Nodes
      BY DEF TakenNodes
    <3>1. openly[k] # "never" => openly'[k] # "never"
      BY <1>3, <3>0 DEF NoLonger, Peers
    <3>2. \A i \in 1..Len(acceptLog) : i \in 1..Len(acceptLog') /\ acceptLog'[i] = acceptLog[i]
      BY <1>5
    <3> HIDE DEF IInv, TypeOK, entry, n
    <3> QED
      BY <3>0, <3>1, <3>2, TakenStays
  <2>2. ASSUME p \in Nodes PROVE p \in TakenNodes'
    <3>1. network'.digest = TRUE
      BY <2>2, RequestTyped DEF NodesAddress
    <3>2. n + 1 \in 1..Len(acceptLog') /\ acceptLog'[n + 1].request.peer = p
      BY <1>5
    <3> HIDE DEF IInv, TypeOK, entry, n, p
    <3> QED
      BY <2>2, <3>1, <3>2 DEF TakenNodes
  <2> HIDE DEF IInv, TypeOK, p
  <2> QED
    BY <1>7, <1>8, <2>1, <2>2, GroundedStep
<1> QED
  BY <1>9, <1>12, <1>13, <1>15, <1>16, <1>17, <1>18, <1>19, <1>20 DEF LogInv

\* A REGISTER taken without Digest leaves the log alone, and marks its peer,
LEMMA UndigestedStep ==
  ASSUME IInv, NEW m \in wire, m.type = "REGISTER", ~m.digest, acceptUndigested(m),
         UNCHANGED <<now, registrationRequested, clientRegistered, calls, boot, network>>
  PROVE  IInv'
<1> USE DEF IInv, TypeOK
<1>1. /\ challenges' = Unexpired
      /\ registered' = [registered EXCEPT ![m.peer] = (m.expires > 0)]
      /\ openly' = [openly EXCEPT ![m.peer] = "now"]
      /\ Deliver(m, {Reply("200", m, 0)})
      /\ UNCHANGED <<issuedAt, acceptLog>>
  BY DEF acceptUndigested
<1>2. /\ m.peer \in Peers /\ m.expires \in {0, 1} /\ m.digest \in BOOLEAN
      /\ {Reply("200", m, 0)} \in SUBSET (Register \cup Response)
      /\ Reply("200", m, 0).type = "200" /\ Reply("200", m, 0).peer = m.peer
  BY RequestTyped, ReplyTyped
<1>3. wire' \in SUBSET (Register \cup Response) /\ wire' \subseteq wire \cup {Reply("200", m, 0)}
  BY <1>1, <1>2, DeliverLemma
<1>4. TypeOK'
  <2>1. openly' \in [Peers -> Openly] /\ registered' \in [Peers -> BOOLEAN]
    BY <1>1, <1>2 DEF Openly
  <2> QED
    BY <1>1, <1>3, <2>1, SweepLemma
<1>5. \A p \in Peers : challenges'[p] # NoChallenge => challenges'[p] = challenges[p]
  BY <1>1, SweepLemma
<1>6. NoncesIssued' /\ ChallengeRemembers'
  BY <1>1, <1>5 DEF LogInv, NoncesIssued, ChallengeRemembers
<1>7. BootBound' /\ ReplayRejected' /\ AcceptedInTime'
  BY <1>1 DEF LogInv, BootBound, ReplayRejected, AcceptedInTime
<1>8. AcceptedInOrder'
  BY <1>1 DEF LogInv, AcceptedInOrder
<1>9. RegistryFollowsDigest'
  <2>1. \A p \in Peers : openly'[p] # "now" =>
          openly[p] # "now" /\ registered'[p] = registered[p]
    BY <1>1, <1>2
  <2>2. boot' = boot /\ acceptLog' = acceptLog /\ RegistryFollowsDigest
    BY <1>1 DEF LogInv
  <2> HIDE DEF IInv, TypeOK
  <2> QED
    BY <2>1, <2>2 DEF RegistryFollowsDigest
<1>10. OkGrounded' /\ NodesAddress' /\ BeliefGrounded'
  <2>1. TakenNodes \subseteq TakenNodes'
    BY <1>1, <1>2 DEF TakenNodes, Peers
  <2>2. ASSUME m.peer \in Nodes PROVE m.peer \in TakenNodes'
    <3>1. ~network'.digest
      BY <2>2 DEF NodesAddress
    <3>2. openly'[m.peer] # "never"
      BY <1>1, <1>2
    <3> QED
      BY <2>2, <3>1, <3>2 DEF TakenNodes
  <2> HIDE DEF IInv, TypeOK
  <2> QED
    BY <1>2, <1>3, <2>1, <2>2, GroundedStep
<1> QED
  BY <1>4, <1>6, <1>7, <1>8, <1>9, <1>10 DEF LogInv

\* the restart of the upstream node does,
LEMMA RestartStep ==
  ASSUME IInv, Restart
  PROVE  IInv'
<1> USE DEF IInv, TypeOK
<1>1. /\ registered' = [p \in Peers |-> FALSE]
      /\ challenges' = [p \in Peers |-> NoChallenge]
      /\ boot' = Len(acceptLog)
      /\ openly' = NoLonger(openly, Peers)
      /\ UNCHANGED <<wire, now, registrationRequested, clientRegistered, calls, issuedAt, acceptLog,
                     network>>
  BY DEF Restart
<1>2. TypeOK' /\ BootBound'
  <2>1. openly' \in [Peers -> Openly]
    BY <1>1 DEF NoLonger, Openly
  <2> QED
    BY <1>1, <2>1 DEF BootBound
<1>3. NoncesIssued' /\ ChallengeRemembers'
  BY <1>1 DEF LogInv, NoncesIssued, ChallengeRemembers
<1>4. ReplayRejected' /\ AcceptedInTime' /\ RegistryFollowsDigest'
  <2>1. ReplayRejected'
    BY <1>1 DEF LogInv, ReplayRejected
  <2>2. AcceptedInTime'
    BY <1>1 DEF LogInv, AcceptedInTime
  <2>3. RegistryFollowsDigest'
    <3>1. Len(acceptLog) \in Nat /\ boot' = Len(acceptLog) /\ acceptLog' = acceptLog
      BY <1>1
    <3>2. ~ \E i : i \in boot' + 1..Len(acceptLog')
      BY <3>1
    <3> QED
      BY <1>1, <3>2 DEF RegistryFollowsDigest
  <2> QED
    BY <2>1, <2>2, <2>3
<1>5. AcceptedInOrder'
  BY <1>1 DEF LogInv, AcceptedInOrder
<1>6. OkGrounded' /\ NodesAddress' /\ BeliefGrounded'
  <2>1. TakenNodes \subseteq TakenNodes'
    BY <1>1 DEF TakenNodes, NoLonger, Peers
  <2> HIDE DEF IInv, TypeOK
  <2> QED
    BY <1>1, <2>1, GroundedStep
<1> QED
  BY <1>2, <1>3, <1>4, <1>5, <1>6 DEF LogInv

-----------------------------------------------------------------------------
(* Clock and peers: the upstream node stands still                         *)

\* A step of the downstream nodes leaves what the upstream node has logged.
LEMMA SameUpstream ==
  ASSUME LogInv, UNCHANGED <<registered, challenges, issuedAt, acceptLog, boot, openly, network>>
  PROVE  LogInv'
<1>1. NoncesIssued' /\ ChallengeRemembers'
  BY DEF LogInv, NoncesIssued, ChallengeRemembers
<1> QED
  BY <1>1, SameLog DEF LogInv

\* What is no REGISTER is an answer, and the REGISTER that answers it is typed.
LEMMA AnswerTyped ==
  ASSUME TypeOK, NEW m \in wire, m.type # "REGISTER", NEW nc \in Nat, NEW expires \in {0, 1}
  PROVE  /\ m \in Response
         /\ Authorized(m) \in Register /\ Authorized(m).type = "REGISTER"
         /\ Authorized(m).digest = TRUE /\ Authorized(m).peer = m.peer
         /\ [Authorized(m) EXCEPT !.nc = nc, !.expires = expires] \in Register
         /\ [Authorized(m) EXCEPT !.nc = nc, !.expires = expires].peer = m.peer
BY DEF TypeOK, Register, Response, Authorized

\* Every step of a downstream node keeps the invariant,
LEMMA PeerStep ==
  ASSUME IInv,
         \/ Tick
         \/ \E n \in Nodes : RegisterRefresh(n) \/ \E sent \in SendResults : RequestRegistration(n, sent)
         \/ \E p \in Foreign, digest \in BOOLEAN, expires \in {0, 1} :
              ForeignRegister(p, digest, expires)
         \/ \E m \in wire : \/ \E sent \in SendResults : RegisterResponse(m, sent)
                            \/ \E nc \in 1..MaxNc, expires \in {0, 1} : ForeignResponse(m, nc, expires)
  PROVE  IInv'
<1> USE DEF IInv
<1>0. \A p \in Peers, digest \in BOOLEAN, expires \in {0, 1} :
        LET m == Plain(p, digest, expires)
        IN  m \in Register /\ m.type = "REGISTER" /\ m.peer = p /\ m.digest = digest
  BY DEF TypeOK, Plain, Register
<1>a. UNCHANGED <<acceptLog, openly, network>> => TakenNodes \subseteq TakenNodes'
  BY SameTaken
<1>b. Nodes \cap Foreign = {}
  BY RegistrationAssumption
<1>1. CASE Tick
  <2>1. /\ now' = now + 1
        /\ UNCHANGED <<wire, registered, challenges, registrationRequested, clientRegistered,
                       calls, issuedAt, acceptLog, boot, openly, network>>
    BY <1>1 DEF Tick
  <2>2. TypeOK'
    BY <2>1 DEF TypeOK
  <2>3. wire' \subseteq wire
    BY <2>1
  <2>4. OkGrounded' /\ NodesAddress' /\ BeliefGrounded'
    BY <1>a, <2>1, <2>3, GroundedStep
  <2> QED
    BY <2>1, <2>2, <2>4, SameUpstream
<1>2. ASSUME NEW n \in Nodes, RegisterRefresh(n) \/ \E sent \in SendResults : RequestRegistration(n, sent)
      PROVE  IInv'
  <2>1. /\ calls' = [calls EXCEPT ![n] = @ + 1]
        /\ wire' \in {wire, wire \cup {Plain(n, network.digest, 1)}}
        /\ \/ registrationRequested' = registrationRequested
           \/ \E sent \in BOOLEAN :
                registrationRequested' = [registrationRequested EXCEPT ![n] = sent]
        /\ UNCHANGED <<now, registered, challenges, clientRegistered, issuedAt, acceptLog, boot,
                       openly, network>>
    BY <1>2 DEF RegisterRefresh, RequestRegistration, SendResults
  <2>2. n \in Peers
    BY DEF Peers
  <2>3. TypeOK'
    <3>1. calls' \in [Peers -> Nat] /\ wire' \in SUBSET (Register \cup Response)
      BY <1>0, <2>1, <2>2 DEF TypeOK, Network
    <3>2. registrationRequested' \in [Nodes -> BOOLEAN]
      BY <2>1 DEF TypeOK
    <3> QED
      BY <2>1, <3>1, <3>2 DEF TypeOK
  <2>4. OkGrounded' /\ NodesAddress' /\ BeliefGrounded'
    <3> DEFINE m == Plain(n, network.digest, 1)
    <3>1. m.type = "REGISTER" /\ m.digest = network.digest
      BY DEF Plain
    <3>2. wire' \subseteq wire \cup {m}
      BY <2>1
    <3> HIDE DEF m, IInv
    <3> QED
      BY <1>a, <2>1, <3>1, <3>2, GroundedStep DEF IInv
  <2> QED
    BY <2>1, <2>3, <2>4, SameUpstream
<1>3. ASSUME NEW p \in Foreign, NEW digest \in BOOLEAN, NEW expires \in {0, 1},
             ForeignRegister(p, digest, expires)
      PROVE  IInv'
  <2>1. /\ calls' = [calls EXCEPT ![p] = @ + 1]
        /\ wire' = wire \cup {Plain(p, digest, expires)}
        /\ UNCHANGED <<now, registered, challenges, registrationRequested, clientRegistered,
                       issuedAt, acceptLog, boot, openly, network>>
    BY <1>3 DEF ForeignRegister
  <2>2. p \in Peers
    BY DEF Peers
  <2>3. TypeOK'
    BY <1>0, <2>1, <2>2 DEF TypeOK
  <2>4. OkGrounded' /\ NodesAddress' /\ BeliefGrounded'
    <3> DEFINE m == Plain(p, digest, expires)
    <3>1. m.peer \notin Nodes
      BY <1>b DEF Plain
    <3>2. wire' \subseteq wire \cup {m}
      BY <2>1
    <3> HIDE DEF m, IInv
    <3> QED
      BY <1>a, <2>1, <3>1, <3>2, GroundedStep DEF IInv
  <2> QED
    BY <2>1, <2>3, <2>4, SameUpstream
<1>4. ASSUME NEW m \in wire, NEW sent \in SendResults, RegisterResponse(m, sent) PROVE IInv'
  <2> DEFINE answer == IF m.type = "401" /\ sent THEN {Authorized(m)} ELSE {}
  <2>1. /\ m.type # "REGISTER" /\ m.peer \in Nodes
        /\ Deliver(m, answer)
        /\ clientRegistered' = IF m.type = "200" THEN [clientRegistered EXCEPT ![m.peer] = TRUE]
                                                 ELSE clientRegistered
        /\ UNCHANGED <<now, registered, challenges, registrationRequested, calls, issuedAt,
                       acceptLog, boot, openly, network>>
    BY <1>4 DEF RegisterResponse
  <2>2. /\ answer \in SUBSET (Register \cup Response)
        /\ \A r \in answer : r.type = "REGISTER" /\ r.digest = network.digest
    <3>1. m.type = "401" => network.digest = TRUE
      BY <2>1 DEF NodesAddress
    <3> QED
      BY <2>1, <3>1, AnswerTyped, 0 \in Nat, 0 \in {0, 1}
  <2>3. wire' \in SUBSET (Register \cup Response) /\ wire' \subseteq wire \cup answer
    BY <2>1, <2>2, DeliverLemma
  <2>4. TypeOK'
    BY <2>1, <2>3 DEF TypeOK
  <2>5. OkGrounded' /\ NodesAddress'
    <3> HIDE DEF answer
    <3> QED
      BY <1>a, <2>1, <2>2, <2>3 DEF OkGrounded, NodesAddress
  <2>6. BeliefGrounded'
    <3>1. ASSUME NEW k \in Nodes, clientRegistered'[k] PROVE k \in TakenNodes
      <4>1. clientRegistered \in [Nodes -> BOOLEAN]
        BY DEF TypeOK
      <4>2. CASE m.type = "200" /\ k = m.peer
        BY <4>2 DEF OkGrounded
      <4>3. CASE ~(m.type = "200" /\ k = m.peer)
        <5>1. clientRegistered[k]
          BY <2>1, <3>1, <4>1, <4>3
        <5> QED
          BY <5>1 DEF BeliefGrounded, TakenNodes
      <4> QED
        BY <4>2, <4>3
    <3> QED
      BY <1>a, <2>1, <3>1 DEF BeliefGrounded, TakenNodes
  <2> QED
    BY <2>1, <2>4, <2>5, <2>6, SameUpstream
<1>5. ASSUME NEW m \in wire, NEW nc \in 1..MaxNc, NEW expires \in {0, 1},
             ForeignResponse(m, nc, expires)
      PROVE  IInv'
  <2> DEFINE answer == IF m.type = "401"
                       THEN {[Authorized(m) EXCEPT !.nc = nc, !.expires = expires]} ELSE {}
  <2>1. /\ m.type # "REGISTER" /\ m.peer \in Foreign
        /\ Deliver(m, answer)
        /\ UNCHANGED <<now, registered, challenges, registrationRequested, clientRegistered,
                       calls, issuedAt, acceptLog, boot, openly, network>>
    BY <1>5 DEF ForeignResponse
  <2>2. nc \in Nat
    BY RegistrationAssumption
  <2>3. answer \in SUBSET (Register \cup Response) /\ \A r \in answer : r.peer \notin Nodes
    <3>1. /\ [Authorized(m) EXCEPT !.nc = nc, !.expires = expires] \in Register
          /\ [Authorized(m) EXCEPT !.nc = nc, !.expires = expires].peer \notin Nodes
      BY <1>b, <2>1, <2>2, AnswerTyped
    <3>2. answer \subseteq {[Authorized(m) EXCEPT !.nc = nc, !.expires = expires]}
      OBVIOUS
    <3> HIDE DEF answer
    <3> QED
      BY <3>1, <3>2, Zenon
  <2>4. wire' \in SUBSET (Register \cup Response) /\ wire' \subseteq wire \cup answer
    BY <2>1, <2>3, DeliverLemma
  <2>5. TypeOK'
    BY <2>1, <2>4 DEF TypeOK
  <2>6. OkGrounded' /\ NodesAddress' /\ BeliefGrounded'
    <3> HIDE DEF answer, IInv
    <3> QED
      BY <1>a, <2>1, <2>3, <2>4, GroundedStep DEF IInv
  <2> QED
    BY <2>1, <2>5, <2>6, SameUpstream
<1> QED
  BY <1>1, <1>2, <1>3, <1>4, <1>5

-----------------------------------------------------------------------------
\* and so does every step.
LEMMA NextIInv == IInv /\ [Next]_vars => IInv'
<1> SUFFICES ASSUME IInv, [Next]_vars PROVE IInv'
  OBVIOUS
<1>1. ASSUME NEW m \in wire, RegisterRequest(m) PROVE IInv'
  <2>1. /\ m.type = "REGISTER"
        /\ UNCHANGED <<now, registrationRequested, clientRegistered, calls, boot, network>>
        /\ \/ ~m.digest /\ acceptUndigested(m)
           \/ m.digest /\ m.nonce = 0 /\ issueChallenge(m)
           \/ m.digest /\ m.nonce # 0 /\ verifyChallenge(m) /\ acceptRegister(m)
           \/ m.digest /\ m.nonce # 0 /\ ~verifyChallenge(m) /\ rejectRegister(m)
    BY <1>1 DEF RegisterRequest
  <2> QED
    BY <2>1, UndigestedStep, ChallengeStep, AcceptStep, RejectStep
<1>2. CASE Restart
  BY <1>2, RestartStep
<1>3. CASE Start \/ Tick
  BY <1>3, PeerStep DEF Start
<1>4. CASE Receive
  BY <1>1, <1>4, PeerStep DEF Receive
<1>5. CASE UNCHANGED vars
  <2>1. UNCHANGED <<wire, now, registered, challenges, registrationRequested, clientRegistered,
                    calls, issuedAt, acceptLog, boot, openly, network>>
    BY <1>5 DEF vars
  <2>2. TypeOK'
    BY <2>1 DEF IInv, TypeOK
  <2>3. wire' \subseteq wire /\ TakenNodes \subseteq TakenNodes'
    BY <2>1, SameTaken
  <2>4. OkGrounded' /\ NodesAddress' /\ BeliefGrounded'
    BY <2>1, <2>3, GroundedStep
  <2> QED
    BY <2>1, <2>2, <2>4, SameUpstream DEF IInv
<1> QED
  BY <1>2, <1>3, <1>4, <1>5 DEF Next

\* The inductive invariant holds in every reachable state.
THEOREM Inductive == Spec => []IInv
  BY InitIInv, NextIInv, PTL DEF Spec

\* Every variable keeps its type; above all a cached challenge always carries a
\* nonce that was really issued.
THEOREM TypeCorrect == Spec => []TypeOK
<1>1. IInv => TypeOK
  BY DEF IInv
<1> QED
  BY <1>1, Inductive, PTL

\* However often the network repeats or reorders it and however often the upstream
\* node restarts, verifyChallenge accepts no REGISTER twice, and only answers to
\* the newest challenge of a peer, with growing nonce counts.
THEOREM OnceInOrder == Spec => []AcceptedOnceInOrder
<1>1. IInv => AcceptedOnceInOrder
  BY DEF IInv, LogInv, AcceptedOnceInOrder
<1> QED
  BY <1>1, Inductive, PTL

\* No challenge is good for longer than its lifetime.
THEOREM NoLateAnswer == Spec => []AcceptedInTime
<1>1. IInv => AcceptedInTime
  BY DEF IInv, LogInv
<1> QED
  BY <1>1, Inductive, PTL

\* The registry of the upstream node and the belief of the downstream nodes rest
\* on accepted digests, or on REGISTERs addressed to where none is asked for: no
\* challenged, rejected, late or repeated REGISTER changes either.
THEOREM RegistrationGrounded == Spec => []RegistrationsGrounded
<1>1. IInv => RegistrationsGrounded
  BY DEF IInv, LogInv, RegistrationsGrounded
<1> QED
  BY <1>1, Inductive, PTL
=============================================================================
