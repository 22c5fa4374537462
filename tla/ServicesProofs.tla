--------------------------- MODULE ServicesProofs ---------------------------
(***************************************************************************)
(* Proofs about the programs beside the node: the platforms that register  *)
(* with one another (PlatformRegistration) and the Go business layer       *)
(* (Accounts), for every number of them, of their users and requests.      *)
(***************************************************************************)
EXTENDS Accounts, PlatformRegistration, SequenceTheorems, TLAPS

(* PlatformRegistration: types, and why the ends disagree.                 *)

\* What a platform is told has a reason, as what it believes.
Explained ==
  /\ \A m \in wire : m.type = "200" /\ Regular(m.peer) => Backed(m.peer)
  /\ SplitExplained

\* Handling a message takes at most that message away and adds what is sent.
LEMMA DeliverBound ==
  ASSUME NEW m, NEW sent, Deliver(m, sent), TypeOK
  PROVE  /\ wire' \subseteq wire \cup sent
         /\ faults' \in 0..MaxFaults
BY PlatformAssumption DEF Deliver, Fault, TypeOK

\* The faults are counted up to their bound.
LEMMA FaultBound ==
  ASSUME Fault, TypeOK
  PROVE  faults' \in 0..MaxFaults
BY PlatformAssumption DEF Fault, TypeOK

\* An answer is a message of the node that asked.
LEMMA AnswerFacts ==
  ASSUME NEW m \in Message, NEW code \in {"200", "401", "403", "404"}
  PROVE  /\ Answer(m, code) \in Message
         /\ Answer(m, code).type = code
         /\ Answer(m, code).peer = m.peer
BY DEF Answer, Message

-----------------------------------------------------------------------------
(* Types                                                                   *)

\* The types hold initially,
LEMMA InitTypeOK == Init => TypeOK
<1>. SUFFICES ASSUME Init PROVE TypeOK
  OBVIOUS
<1>1. open \in [Peers -> [Slots -> {"none", "plain", "auth"}]]
  BY DEF Init
<1>2. /\ marking \in [Peers -> Nat] /\ stamping \in [Peers -> Nat]
      /\ \A p \in Peers : marking[p] + stamping[p] <= MaxThreads
  BY PlatformAssumption DEF Init
<1>3. /\ up \in [Peers -> BOOLEAN] /\ believed \in [Peers -> BOOLEAN]
      /\ refreshing \in [Peers -> BOOLEAN] /\ registered \in [Peers -> BOOLEAN]
      /\ stale \in [Peers -> BOOLEAN]
  BY DEF Init
<1>4. faults \in 0..MaxFaults
  BY PlatformAssumption DEF Init
<1>. QED
  BY <1>1, <1>2, <1>3, <1>4 DEF Init, TypeOK

\* A request that is answered at all is admitted or refused.
LEMMA RegisterOutcomes ==
  ASSUME NEW m, HandleRegister(m)
  PROVE  \/ Admit(m)
         \/ \E code \in {"401", "404"} : Refuse(m, code)
BY DEF HandleRegister

\* the register handler keeps them,
LEMMA HandleRegisterTypes ==
  ASSUME TypeOK, NEW m \in wire, HandleRegister(m)
  PROVE  TypeOK'
<1>1. m \in Message /\ m.peer \in Peers
  BY DEF TypeOK, Message
<1>2. PICK code \in {"200", "401", "404"} : Deliver(m, {Answer(m, code)})
  BY RegisterOutcomes DEF Admit, Refuse
<1>3. wire' \in SUBSET Message /\ faults' \in 0..MaxFaults
  BY <1>1, <1>2, AnswerFacts, DeliverBound DEF TypeOK
<1>4. /\ marking' \in [Peers -> Nat]
      /\ \A p \in Peers : marking'[p] + stamping[p] <= MaxThreads
  <2>1. CASE UNCHANGED marking
    BY <2>1 DEF TypeOK
  <2>2. CASE /\ marking[m.peer] + stamping[m.peer] < MaxThreads
             /\ marking' = [marking EXCEPT ![m.peer] = @ + 1]
    BY <2>2, <1>1, PlatformAssumption DEF TypeOK
  <2>. QED
    BY <2>1, <2>2, RegisterOutcomes DEF Admit, Refuse
<1>. QED
  BY <1>3, <1>4 DEF HandleRegister, TypeOK, config, subVars

\* the heartbeat handler does,
LEMMA HandleHeartBeatTypes ==
  ASSUME TypeOK, NEW m \in wire, HandleHeartBeat(m)
  PROVE  TypeOK'
<1>1. m \in Message /\ m.peer \in Peers
  BY DEF TypeOK, Message
<1>2. PICK code \in {"200", "403"} : Deliver(m, {Answer(m, code)})
  BY DEF HandleHeartBeat
<1>3. wire' \in SUBSET Message /\ faults' \in 0..MaxFaults
  BY <1>1, <1>2, AnswerFacts, DeliverBound DEF TypeOK
<1>4. stale' \in [Peers -> BOOLEAN]
  BY <1>1 DEF HandleHeartBeat, TypeOK
<1>. QED
  BY <1>3, <1>4 DEF HandleHeartBeat, TypeOK, config, subVars

\* the end of a connection does,
LEMMA CloseTypes ==
  ASSUME TypeOK, NEW p \in Peers, NEW s \in Slots, NEW code, Callback(p, s, code)
  PROVE  /\ open' \in [Peers -> [Slots -> {"none", "plain", "auth"}]]
         /\ believed' \in [Peers -> BOOLEAN]
         /\ refreshing' \in [Peers -> BOOLEAN]
<1>1. open' \in [Peers -> [Slots -> {"none", "plain", "auth"}]]
  <2>1. Close(p, s)
    BY DEF Callback, client_cb, response_callback
  <2>. QED
    BY <2>1 DEF Close, TypeOK
<1>2. believed' \in [Peers -> BOOLEAN]
  <2>1. CASE s \in HeartBeatSlots
    BY <2>1 DEF Callback, response_callback, TypeOK
  <2>2. CASE s \notin HeartBeatSlots
    BY <2>2 DEF Callback, client_cb, TypeOK
  <2>. QED
    BY <2>1, <2>2
<1>3. refreshing' \in [Peers -> BOOLEAN]
  BY DEF Callback, client_cb, response_callback, TypeOK
<1>. QED
  BY <1>1, <1>2, <1>3

\* the client's handling of an answer does,
LEMMA HandleResponseTypes ==
  ASSUME TypeOK, NEW m \in wire, HandleResponse(m)
  PROVE  TypeOK'
<1> DEFINE again == [m EXCEPT !.type = "REGISTER", !.auth = TRUE]
<1>1. m \in Message /\ m.peer \in Peers /\ m.slot \in Slots
  BY DEF TypeOK, Message
<1>2. again \in Message
  BY <1>1 DEF Message
<1>3. Deliver(m, {}) \/ Deliver(m, {again})
  BY DEF HandleResponse
<1>4. wire' \in SUBSET Message /\ faults' \in 0..MaxFaults
  <2>1. wire' \subseteq wire \cup {again}
    BY <1>3, DeliverBound
  <2>2. faults' \in 0..MaxFaults
    BY <1>3, DeliverBound
  <2>. QED
    BY <1>2, <2>1, <2>2 DEF TypeOK
<1>5. /\ open' \in [Peers -> [Slots -> {"none", "plain", "auth"}]]
      /\ believed' \in [Peers -> BOOLEAN]
      /\ refreshing' \in [Peers -> BOOLEAN]
  <2>1. CASE UNCHANGED <<open, believed, refreshing>>
    BY <2>1 DEF TypeOK
  <2>2. CASE /\ open' = [open EXCEPT ![m.peer][m.slot] = "auth"]
             /\ UNCHANGED <<believed, refreshing>>
    BY <2>2, <1>1 DEF TypeOK
  <2>3. CASE Callback(m.peer, m.slot, m.type)
    BY <2>3, <1>1, CloseTypes
  <2>. QED
    BY <2>1, <2>2, <2>3 DEF HandleResponse
<1>. QED
  BY <1>4, <1>5 DEF HandleResponse, TypeOK, config, supVars

\* its next request does,
LEMMA RequestTypes ==
  ASSUME TypeOK, NEW p \in Peers, NEW slots \in SUBSET Slots,
         NEW type \in {"REGISTER", "MESSAGE"}, Request(p, slots, type)
  PROVE  TypeOK'
<1>1. PICK s \in slots :
        /\ open' = [open EXCEPT ![p][s] = "plain"]
        /\ wire' = wire \cup {[type |-> type, peer |-> p, slot |-> s, auth |-> FALSE]}
        /\ UNCHANGED <<config, up, believed, refreshing, supVars, faults>>
  BY DEF Request
<1>2. wire' \in SUBSET Message
  <2>1. [type |-> type, peer |-> p, slot |-> s, auth |-> FALSE] \in Message
    BY DEF Message
  <2>. QED
    BY <1>1, <2>1 DEF TypeOK
<1>3. open' \in [Peers -> [Slots -> {"none", "plain", "auth"}]]
  BY <1>1 DEF TypeOK
<1>. QED
  BY <1>1, <1>2, <1>3 DEF TypeOK, config, supVars

\* and so does every step.
LEMMA NextTypeOK == TypeOK /\ [Next]_vars => TypeOK'
<1>. SUFFICES ASSUME TypeOK, [Next]_vars PROVE TypeOK'
  OBVIOUS
<1>1. ASSUME NEW p \in Peers, SetRegister(p) PROVE TypeOK'
  <2>1. /\ marking' \in [Peers -> Nat] /\ stamping' \in [Peers -> Nat]
        /\ \A q \in Peers : marking'[q] + stamping'[q] <= MaxThreads
    BY <1>1, PlatformAssumption DEF SetRegister, TypeOK
  <2>2. registered' \in [Peers -> BOOLEAN] /\ dropped' \in SUBSET Peers
    BY <1>1 DEF SetRegister, TypeOK
  <2>. QED
    BY <1>1, <2>1, <2>2 DEF SetRegister, TypeOK, config, subVars
<1>2. ASSUME NEW p \in Peers, SetLastRegTime(p) PROVE TypeOK'
  <2>1. /\ stamping' \in [Peers -> Nat]
        /\ \A q \in Peers : marking[q] + stamping'[q] <= MaxThreads
    BY <1>2, PlatformAssumption DEF SetLastRegTime, TypeOK
  <2>2. stale' \in [Peers -> BOOLEAN]
    BY <1>2 DEF SetLastRegTime, TypeOK
  <2>. QED
    BY <1>2, <2>1, <2>2 DEF SetLastRegTime, TypeOK, config, subVars
<1>3. ASSUME NEW p \in Peers, TimePasses(p) PROVE TypeOK'
  BY <1>3 DEF TimePasses, TypeOK, config, subVars
<1>4. ASSUME NEW p \in Peers, RegisterProc(p) \/ RefreshTimer(p) \/ HeartBeatProc(p) PROVE TypeOK'
  BY <1>4, RequestTypes DEF RegisterProc, RefreshTimer, HeartBeatProc, Slots, ClientSlots
<1>5. ASSUME NEW p \in Peers, SubStops(p) PROVE TypeOK'
  <2>1. open' \in [Peers -> [Slots -> {"none", "plain", "auth"}]]
    BY <1>5 DEF SubStops, TypeOK
  <2>. QED
    BY <1>5, <2>1, FaultBound DEF SubStops, TypeOK, config, supVars
<1>6. ASSUME NEW p \in Peers, SubStarts(p) PROVE TypeOK'
  BY <1>6 DEF SubStarts, TypeOK, config, supVars
<1>7. ASSUME NEW p \in Peers, NEW s \in Slots, Receive(p, s) PROVE TypeOK'
  BY <1>7, HandleRegisterTypes, HandleHeartBeatTypes, HandleResponseTypes DEF Receive
<1>8. ASSUME NEW p \in Peers, NEW s \in Slots, Timeout(p, s) PROVE TypeOK'
  BY <1>8, CloseTypes DEF Timeout, TypeOK, config, supVars
<1>9. ASSUME NEW p \in Peers, NEW s \in Slots, TimeoutTooSoon(p, s) PROVE TypeOK'
  BY <1>9, CloseTypes, FaultBound DEF TimeoutTooSoon, TypeOK, config, supVars
<1>10. CASE EventLoopEnds
  BY <1>10 DEF EventLoopEnds, TypeOK, config, subVars
<1>11. CASE RegisterCheckProc
  BY <1>11 DEF RegisterCheckProc, TypeOK, config, subVars
<1>12. CASE SupRestart
  <2>1. /\ marking' \in [Peers -> Nat] /\ stamping' \in [Peers -> Nat]
        /\ \A q \in Peers : marking'[q] + stamping'[q] <= MaxThreads
    BY <1>12, PlatformAssumption DEF SupRestart
  <2>. QED
    BY <1>12, <2>1, FaultBound DEF SupRestart, TypeOK, config, subVars
<1>13. ASSUME NEW m \in wire, Lose(m) PROVE TypeOK'
  BY <1>13, FaultBound DEF Lose, TypeOK, config, subVars, supVars
<1>14. CASE UNCHANGED vars
  BY <1>14 DEF vars, TypeOK, config, subVars, supVars
<1>. QED
  BY <1>1, <1>2, <1>3, <1>4, <1>5, <1>6, <1>7, <1>8, <1>9, <1>10, <1>11, <1>12, <1>13, <1>14 DEF Next

\* Types, and the bound on threads that have answered and not recorded yet.
THEOREM TypeCorrect == Spec => []TypeOK
<1>. QED
  BY InitTypeOK, NextTypeOK, PTL DEF Spec

-----------------------------------------------------------------------------
(* Why the ends disagree                                                   *)

\* Initially there is nothing to explain,
LEMMA InitExplained == Init => Explained
BY DEF Init, Explained, SplitExplained

\* Explained survives a step that says nothing new, believes nothing new and
\* takes no reason away.
LEMMA ExplainedKept ==
  ASSUME Explained, TypeOK,
         \A m \in wire' : m.type = "200" => m \in wire,
         \A p \in Peers : believed'[p] => believed[p],
         \A p \in Peers : Backed(p) => Backed(p)',
         UNCHANGED config
  PROVE  Explained'
<1>1. \A p : Regular(p)' <=> Regular(p)
  BY DEF Regular, config
<1>2. \A m \in wire : m.peer \in Peers
  BY DEF TypeOK, Message
<1>3. ASSUME NEW m \in wire', m.type = "200", Regular(m.peer)' PROVE Backed(m.peer)'
  BY <1>1, <1>2, <1>3 DEF Explained
<1>4. ASSUME NEW p \in Peers, Regular(p)', believed'[p] PROVE Backed(p)'
  BY <1>1, <1>4 DEF Explained, SplitExplained
<1>. QED
  BY <1>3, <1>4 DEF Explained, SplitExplained

\* the register handler explains what it answers,
LEMMA HandleRegisterExplained ==
  ASSUME TypeOK, Explained, NEW m \in wire, HandleRegister(m)
  PROVE  Explained'
<1>1. m \in Message /\ m.peer \in Peers
  BY DEF TypeOK, Message
<1>2. /\ UNCHANGED <<known, secured, lasting, believed, registered, dropped>>
      /\ UNCHANGED config
  BY DEF HandleRegister, config, subVars
<1>3. \A p \in Peers : Backed(p) => Backed(p)'
  <2>1. \/ UNCHANGED marking
        \/ marking' = [marking EXCEPT ![m.peer] = @ + 1]
    BY RegisterOutcomes DEF Admit, Refuse
  <2>2. \A p \in Peers : marking[p] > 0 => marking'[p] > 0
    BY <1>1, <2>1 DEF TypeOK
  <2>. QED
    BY <1>2, <2>2 DEF Backed
<1>4. CASE \E code \in {"401", "404"} : Refuse(m, code)
  <2>1. PICK code \in {"401", "404"} : Deliver(m, {Answer(m, code)})
    BY <1>4 DEF Refuse
  <2>2. wire' \subseteq wire \cup {Answer(m, code)}
    BY <2>1, DeliverBound
  <2>3. Answer(m, code).type # "200"
    BY <1>1, AnswerFacts
  <2>4. \A p \in Peers : believed'[p] => believed[p]
    BY <1>2
  <2>5. \A n \in wire' : n.type = "200" => n \in wire
    BY <2>2, <2>3
  <2>. QED
    BY <2>4, <2>5, <1>2, <1>3, ExplainedKept
<1>5. CASE Admit(m)
  <2>1. wire' \subseteq wire \cup {Answer(m, "200")} /\ Answer(m, "200").peer = m.peer
    BY <1>5, <1>1, DeliverBound, AnswerFacts DEF Admit
  <2>2. Regular(m.peer) => marking'[m.peer] > 0
    BY <1>5, <1>1 DEF Admit, Regular, TypeOK
  <2>3. \A p : Regular(p)' <=> Regular(p)
    BY <1>2 DEF Regular
  <2>4. \A n \in wire : n.peer \in Peers
    BY DEF TypeOK, Message
  <2>5. ASSUME NEW n \in wire', n.type = "200", Regular(n.peer)' PROVE Backed(n.peer)'
    <3>1. CASE n \in wire
      BY <3>1, <2>3, <2>4, <2>5, <1>3 DEF Explained
    <3>2. CASE n = Answer(m, "200")
      BY <3>2, <2>1, <2>2, <2>3, <2>5 DEF Backed
    <3>. QED
      BY <3>1, <3>2, <2>1
  <2>6. SplitExplained'
    BY <2>3, <1>2, <1>3 DEF Explained, SplitExplained
  <2>. QED
    BY <2>5, <2>6 DEF Explained
<1>. QED
  BY <1>4, <1>5, RegisterOutcomes

\* the heartbeat handler does,
LEMMA HandleHeartBeatExplained ==
  ASSUME TypeOK, Explained, NEW m \in wire, HandleHeartBeat(m)
  PROVE  Explained'
<1>1. m \in Message /\ m.peer \in Peers
  BY DEF TypeOK, Message
<1>2. UNCHANGED <<known, secured, lasting, believed, registered, marking, dropped>>
  BY DEF HandleHeartBeat, config, subVars
<1>3. PICK code \in {"200", "403"} :
        Deliver(m, {Answer(m, code)}) /\ (code = "200" => registered[m.peer])
  BY DEF HandleHeartBeat
<1>4. wire' \subseteq wire \cup {Answer(m, code)}
  BY <1>3, DeliverBound
<1>5. Answer(m, code).type = code /\ Answer(m, code).peer = m.peer
  BY <1>1, AnswerFacts
<1>6. \A p : (Regular(p)' <=> Regular(p)) /\ (Backed(p)' <=> Backed(p))
  BY <1>2 DEF Regular, Backed
<1>7. ASSUME NEW n \in wire', n.type = "200", Regular(n.peer)' PROVE Backed(n.peer)'
  <2>1. CASE n \in wire
    BY <2>1, <1>6, <1>7 DEF Explained
  <2>2. CASE n = Answer(m, code)
    BY <2>2, <1>2, <1>3, <1>5, <1>7 DEF Backed
  <2>. QED
    BY <2>1, <2>2, <1>4
<1>8. SplitExplained'
  BY <1>2, <1>6 DEF Explained, SplitExplained
<1>. QED
  BY <1>7, <1>8 DEF Explained

\* A belief begins with a 200 for a REGISTER.
LEMMA CallbackBelief ==
  ASSUME TypeOK, NEW p \in Peers, NEW s \in Slots, NEW code, Callback(p, s, code)
  PROVE  \A q \in Peers : believed'[q] => believed[q] \/ (q = p /\ code = "200")
<1>1. CASE s \in HeartBeatSlots
  BY <1>1 DEF Callback, response_callback, TypeOK
<1>2. CASE s \notin HeartBeatSlots
  BY <1>2 DEF Callback, client_cb, TypeOK
<1>. QED
  BY <1>1, <1>2

\* the client believes what was answered,
LEMMA HandleResponseExplained ==
  ASSUME TypeOK, Explained, NEW m \in wire, HandleResponse(m)
  PROVE  Explained'
<1> DEFINE again == [m EXCEPT !.type = "REGISTER", !.auth = TRUE]
<1>1. m \in Message /\ m.peer \in Peers /\ m.slot \in Slots
  BY DEF TypeOK, Message
<1>2. UNCHANGED <<known, secured, lasting, registered, marking, dropped>>
  BY DEF HandleResponse, config, supVars
<1>3. wire' \subseteq wire \cup {again}
  BY DeliverBound DEF HandleResponse
<1>4. again.type = "REGISTER"
  BY <1>1 DEF Message
<1>5. \A p : (Regular(p)' <=> Regular(p)) /\ (Backed(p)' <=> Backed(p))
  BY <1>2 DEF Regular, Backed
<1>6. \A q \in Peers : believed'[q] => believed[q] \/ (q = m.peer /\ m.type = "200")
  BY <1>1, CallbackBelief DEF HandleResponse
<1>7. ASSUME NEW n \in wire', n.type = "200", Regular(n.peer)' PROVE Backed(n.peer)'
  BY <1>3, <1>4, <1>5, <1>7 DEF Explained
<1>8. ASSUME NEW q \in Peers, Regular(q)', believed'[q] PROVE Backed(q)'
  BY <1>5, <1>6, <1>8 DEF Explained, SplitExplained
<1>. QED
  BY <1>7, <1>8 DEF Explained, SplitExplained

\* its next request changes no belief,
LEMMA RequestExplained ==
  ASSUME TypeOK, Explained, NEW p \in Peers, NEW slots \in SUBSET Slots,
         NEW type \in {"REGISTER", "MESSAGE"}, Request(p, slots, type)
  PROVE  Explained'
<1>1. PICK s \in slots :
        /\ wire' = wire \cup {[type |-> type, peer |-> p, slot |-> s, auth |-> FALSE]}
        /\ UNCHANGED <<config, believed, supVars>>
  BY DEF Request
<1>2. \A m \in wire' : m.type = "200" => m \in wire
  BY <1>1
<1>3. \A q \in Peers : Backed(q) => Backed(q)'
  BY <1>1 DEF Backed, supVars
<1>4. \A q \in Peers : believed'[q] => believed[q]
  BY <1>1
<1>. QED
  BY <1>1, <1>2, <1>3, <1>4, ExplainedKept

\* and every step leaves all of it explained.
LEMMA NextExplained == TypeOK /\ Explained /\ [Next]_vars => Explained'
<1>. SUFFICES ASSUME TypeOK, Explained, [Next]_vars PROVE Explained'
  OBVIOUS
<1>1. ASSUME NEW p \in Peers, SetRegister(p) PROVE Explained'
  <2>1. UNCHANGED <<known, secured, lasting, wire, believed>>
    BY <1>1 DEF SetRegister, config, subVars
  <2>2. ASSUME NEW q \in Peers, Regular(q), Backed(q) PROVE Backed(q)'
    BY <1>1, <2>2 DEF SetRegister, Backed, Regular, TypeOK
  <2>3. \A q : Regular(q)' <=> Regular(q)
    BY <2>1 DEF Regular
  <2>4. \A m \in wire : m.peer \in Peers
    BY DEF TypeOK, Message
  <2>. QED
    BY <2>1, <2>2, <2>3, <2>4 DEF Explained, SplitExplained
<1>2. ASSUME NEW p \in Peers, SetLastRegTime(p) \/ TimePasses(p) PROVE Explained'
  BY <1>2 DEF SetLastRegTime, TimePasses, Explained, SplitExplained, Backed, Regular, config, subVars
<1>3. ASSUME NEW p \in Peers, RegisterProc(p) \/ RefreshTimer(p) \/ HeartBeatProc(p) PROVE Explained'
  BY <1>3, RequestExplained DEF RegisterProc, RefreshTimer, HeartBeatProc, Slots, ClientSlots
<1>4. ASSUME NEW p \in Peers, SubStops(p) PROVE Explained'
  <2>1. \A q \in Peers : believed'[q] => believed[q]
    BY <1>4 DEF SubStops, TypeOK
  <2>. QED
    BY <1>4, <2>1 DEF SubStops, Explained, SplitExplained, Backed, Regular, config, supVars
<1>5. ASSUME NEW p \in Peers, SubStarts(p) PROVE Explained'
  BY <1>5 DEF SubStarts, Explained, SplitExplained, Backed, Regular, config, supVars
<1>6. ASSUME NEW p \in Peers, NEW s \in Slots, Receive(p, s) PROVE Explained'
  BY <1>6, HandleRegisterExplained, HandleHeartBeatExplained, HandleResponseExplained DEF Receive
<1>7. ASSUME NEW p \in Peers, NEW s \in Slots, Timeout(p, s) \/ TimeoutTooSoon(p, s) PROVE Explained'
  <2>1. Callback(p, s, "408") /\ UNCHANGED <<known, secured, lasting, wire, registered, marking, dropped>>
    BY <1>7 DEF Timeout, TimeoutTooSoon, config, supVars
  <2>2. \A q \in Peers : believed'[q] => believed[q]
    BY <2>1, CallbackBelief
  <2>. QED
    BY <2>1, <2>2 DEF Explained, SplitExplained, Backed, Regular
<1>8. CASE EventLoopEnds
  BY <1>8 DEF EventLoopEnds, Explained, SplitExplained, Backed, Regular, config, subVars
<1>9. CASE RegisterCheckProc
  <2>1. \A q \in Peers : Backed(q) => Backed(q)'
    BY <1>9 DEF RegisterCheckProc, Backed, TypeOK
  <2>2. UNCHANGED <<wire, believed, config>>
    BY <1>9 DEF RegisterCheckProc, subVars
  <2>. QED
    BY <2>1, <2>2, ExplainedKept
<1>10. CASE SupRestart
  <2>1. \A q \in Peers : Backed(q)'
    BY <1>10 DEF SupRestart, Backed
  <2>2. UNCHANGED <<wire, believed, config>>
    BY <1>10 DEF SupRestart, subVars
  <2>. QED
    BY <2>1, <2>2, ExplainedKept
<1>11. ASSUME NEW m \in wire, Lose(m) PROVE Explained'
  BY <1>11 DEF Lose, Explained, SplitExplained, Backed, Regular, config, subVars, supVars
<1>12. CASE UNCHANGED vars
  BY <1>12 DEF vars, Explained, SplitExplained, Backed, Regular, config, subVars, supVars
<1>. QED
  BY <1>1, <1>2, <1>3, <1>4, <1>5, <1>6, <1>7, <1>8, <1>9, <1>10, <1>11, <1>12 DEF Next

\* For any number of platforms, transactions, threads and faults, a platform
\* believes in a registration that the superior does not hold only while the
\* superior's thread is still to record it, or after a restart or an expiry.
THEOREM SplitSafety == Spec => []SplitExplained
<1>1. Explained => SplitExplained
  BY DEF Explained
<1>. QED
  BY InitTypeOK, NextTypeOK, InitExplained, NextExplained, <1>1, PTL DEF Spec

-----------------------------------------------------------------------------
(* Accounts, for every set of users and requests and every bound.  Sessions *)
(* are numbered by logins, so no number ahead of the count is in use; the   *)
(* rest is an exchange of one claim for another.                            *)

\* A session in use has been opened by a login.
SessionsNumbered ==
  /\ \A t \in 1..Len(refresh) : refresh[t].session <= sessions
  /\ \A h \in Requests : Carries(h) => request[h].session <= sessions

\* A request has seen the status its user has now.
SeenCurrent ==
  \A h \in Requests : request[h] # Idle => account[request[h].user] \in request[h].seen

\* The inductive invariant.
AccountsInv == AccountsTypeOK /\ SessionsNumbered /\ SeenCurrent /\ SessionExclusive /\ RequestsAuthorized

USE AccountsAssumption

-----------------------------------------------------------------------------
\* It holds when the service starts,
LEMMA InitAccountsInv == AccountsInit => AccountsInv
<1> SUFFICES ASSUME AccountsInit PROVE AccountsInv
  OBVIOUS
<1>1. AccountsTypeOK
  BY DEF AccountsInit, AccountsTypeOK, Status, NoAccount, Idle, Roles
<1>2. SessionsNumbered /\ SeenCurrent /\ SessionExclusive /\ RequestsAuthorized
  BY DEF AccountsInit, SessionsNumbered, SeenCurrent, SessionExclusive, RequestsAuthorized, Carries, Idle
<1> QED
  BY <1>1, <1>2 DEF AccountsInv

\* The users found have a role, once they are active.
LEMMA ActiveStatus ==
  ASSUME AccountsTypeOK, NEW u \in Users, account[u].active
  PROVE  account[u] \in Status /\ account[u].role \in Roles
BY DEF AccountsTypeOK, Status, NoAccount

\* A running request keeps its claims when another status of its user is added
\* to what it has seen.
LEMMA SeeingLemma ==
  ASSUME NEW r \in Running \cup {Idle}, NEW u \in Users, NEW status \in Status
  PROVE  /\ Seeing(r, u, status) \in Running \cup {Idle}
         /\ Seeing(r, u, status).step = r.step
         /\ r # Idle => /\ Seeing(r, u, status).session = r.session
                        /\ Seeing(r, u, status).role = r.role
                        /\ Seeing(r, u, status).user = r.user
                        /\ r.seen \subseteq Seeing(r, u, status).seen
<1>1. CASE r = Idle
  BY <1>1 DEF Seeing, Idle
<1>2. CASE r # Idle
  BY <1>2 DEF Seeing, Running
<1> QED
  BY <1>1, <1>2

\* What the tables and the requests say of sessions.
LEMMA SessionNumbers ==
  ASSUME AccountsInv
  PROVE  /\ sessions \in Nat /\ Len(refresh) \in Nat
         /\ \A t \in 1..Len(refresh) :
              refresh[t] \in Token /\ refresh[t].session \in Nat /\ refresh[t].session <= sessions
         /\ \A k \in Requests : Carries(k) =>
              /\ request[k] \in Running
              /\ request[k].session \in Nat /\ request[k].session <= sessions
<1>1. sessions \in Nat /\ Len(refresh) \in Nat
  BY DEF AccountsInv, AccountsTypeOK
<1>2. \A t \in 1..Len(refresh) : refresh[t] \in Token
  BY DEF AccountsInv, AccountsTypeOK
<1>3. \A k \in Requests : Carries(k) => request[k] \in Running
  BY DEF AccountsInv, AccountsTypeOK, Carries, Idle
<1> QED
  BY <1>1, <1>2, <1>3 DEF AccountsInv, SessionsNumbered, Token, Running

\* A request starts, or goes on to its next call, without touching a table: it may
\* carry a session only if it did, or if the session is a new login's.
GoesOn(h, r) ==
  /\ request' = [request EXCEPT ![h] = r]
  /\ sessions' \in Nat /\ sessions <= sessions'
  /\ r.step \in {"find", "tokens"} =>
       \/ Carries(h) /\ r.session = request[h].session
       \/ r.session = sessions + 1 /\ r.session <= sessions'
  /\ r.step = "change" => [active |-> TRUE, role |-> "admin"] \in r.seen
  /\ r.step = "tokens" => [active |-> TRUE, role |-> r.role] \in r.seen
  /\ r # Idle => account[r.user] \in r.seen
  /\ UNCHANGED <<account, refresh, access, held, changes>>

\* a step of a request keeps it,
LEMMA RequestStep ==
  ASSUME AccountsInv, NEW h \in Requests, NEW r \in Running \cup {Idle}, GoesOn(h, r)
  PROVE  AccountsInv'
<1> USE DEF GoesOn
<1>1. AccountsTypeOK'
  BY DEF AccountsInv, AccountsTypeOK
<1>2. /\ request'[h] = r
      /\ \A k \in Requests : k # h => request'[k] = request[k]
  BY DEF AccountsInv, AccountsTypeOK
<1>3. \A k \in Requests : k # h => Carries(k)' = Carries(k)
  BY <1>2 DEF Carries
<1>4. Carries(h)' <=> r.step \in {"find", "tokens"}
  BY <1>2 DEF Carries
<1>5. \A k \in Requests : Carries(k) => request[k].session \in Nat /\ request[k].session <= sessions
  BY SessionNumbers
<1>6. \A t \in 1..Len(refresh) : refresh[t].session \in Nat /\ refresh[t].session <= sessions
  BY SessionNumbers
<1>7. SessionsNumbered'
  BY <1>2, <1>3, <1>4, <1>5, <1>6 DEF SessionsNumbered, AccountsInv, AccountsTypeOK
<1>8. SessionExclusive'
  <2>1. \A t, v \in 1..Len(refresh) :
          t # v /\ ~refresh[t].revoked /\ ~refresh[v].revoked =>
            refresh[t].session # refresh[v].session
    BY DEF AccountsInv, SessionExclusive
  <2>2. ASSUME NEW k \in Requests, NEW t \in 1..Len(refresh), Carries(k)', ~refresh[t].revoked
        PROVE  request'[k].session # refresh[t].session
    BY <1>2, <1>3, <1>4, <1>6, <2>2 DEF AccountsInv, AccountsTypeOK, SessionExclusive
  <2>3. ASSUME NEW k \in Requests, NEW l \in Requests, k # l, Carries(k)', Carries(l)'
        PROVE  request'[k].session # request'[l].session
    <3>1. CASE k # h /\ l # h
      BY <1>2, <1>3, <2>3, <3>1 DEF AccountsInv, SessionExclusive
    <3>2. CASE k = h
      BY <1>2, <1>3, <1>4, <1>5, <2>3, <3>2 DEF AccountsInv, AccountsTypeOK, SessionExclusive
    <3>3. CASE l = h
      BY <1>2, <1>3, <1>4, <1>5, <2>3, <3>3 DEF AccountsInv, AccountsTypeOK, SessionExclusive
    <3> QED
      BY <3>1, <3>2, <3>3
  <2> QED
    BY <2>1, <2>2, <2>3 DEF SessionExclusive
<1>9. RequestsAuthorized' /\ SeenCurrent'
  BY <1>2 DEF RequestsAuthorized, SeenCurrent, AccountsInv
<1> QED
  BY <1>1, <1>7, <1>8, <1>9 DEF AccountsInv

\* A token is revoked, and a request without a session takes over its session or
\* ends.
LEMMA RevokeStep ==
  ASSUME AccountsInv, NEW h \in Requests, NEW t \in 1..Len(refresh), NEW r \in Running \cup {Idle},
         UseRefresh(t), ~Carries(h),
         r = Idle \/ (r.step = "find" /\ r.session = refresh[t].session),
         r # Idle => account[r.user] \in r.seen,
         request' = [request EXCEPT ![h] = r],
         UNCHANGED <<account, access, held, sessions, changes>>
  PROVE  AccountsInv'
<1>1. /\ refresh[t] \in Token /\ ~refresh[t].revoked
      /\ refresh' = [refresh EXCEPT ![t].revoked = TRUE]
  BY SessionNumbers DEF UseRefresh, Live
<1>2. /\ refresh' \in Seq(Token) /\ Len(refresh') = Len(refresh)
      /\ \A v \in 1..Len(refresh) : refresh'[v].session = refresh[v].session
      /\ \A v \in 1..Len(refresh) : v # t => refresh'[v] = refresh[v]
      /\ refresh'[t].revoked
  <2>1. PICK row \in Token : row = [refresh[t] EXCEPT !.revoked = TRUE]
    BY <1>1 DEF Token
  <2>2. row.session = refresh[t].session /\ row.revoked
    BY <1>1, <2>1 DEF Token
  <2>3. refresh' = [refresh EXCEPT ![t] = row]
    BY <1>1, <2>1
  <2> QED
    BY <2>2, <2>3, ExceptSeq DEF AccountsInv, AccountsTypeOK
<1>3. AccountsTypeOK'
  BY <1>2 DEF AccountsInv, AccountsTypeOK
<1>4. /\ request'[h] = r
      /\ \A k \in Requests : k # h => request'[k] = request[k] /\ Carries(k)' = Carries(k)
      /\ Carries(h)' => r.session = refresh[t].session
  BY DEF AccountsInv, AccountsTypeOK, Carries, Idle
<1>5. SessionsNumbered'
  <2>1. \A v \in 1..Len(refresh') : refresh'[v].session <= sessions'
    BY <1>2, SessionNumbers
  <2>2. \A k \in Requests : Carries(k)' => request'[k].session <= sessions'
    BY <1>4, SessionNumbers
  <2> QED
    BY <2>1, <2>2 DEF SessionsNumbered
<1>6. SessionExclusive'
  <2>1. ASSUME NEW x \in 1..Len(refresh), NEW v \in 1..Len(refresh), x # v,
               ~refresh'[x].revoked, ~refresh'[v].revoked
        PROVE  refresh'[x].session # refresh'[v].session
    BY <1>2, <2>1 DEF AccountsInv, SessionExclusive
  <2>2. ASSUME NEW k \in Requests, NEW v \in 1..Len(refresh), Carries(k)', ~refresh'[v].revoked
        PROVE  request'[k].session # refresh'[v].session
    BY <1>1, <1>2, <1>4, <2>2 DEF AccountsInv, SessionExclusive
  <2>3. ASSUME NEW k \in Requests, NEW l \in Requests, k # l, Carries(k)', Carries(l)'
        PROVE  request'[k].session # request'[l].session
    BY <1>1, <1>4, <2>3 DEF AccountsInv, SessionExclusive
  <2> QED
    BY <1>2, <2>1, <2>2, <2>3 DEF SessionExclusive
<1>7. RequestsAuthorized' /\ SeenCurrent'
  BY <1>4 DEF AccountsInv, RequestsAuthorized, SeenCurrent, Idle
<1> QED
  BY <1>3, <1>5, <1>6, <1>7 DEF AccountsInv

\* A request ends and leaves its session to a new token.
LEMMA TokensStep ==
  ASSUME AccountsInv, NEW h \in Requests, NEW answered \in BOOLEAN, Tokens(h, answered)
  PROVE  AccountsInv'
<1> DEFINE r == request[h]
           n == Len(refresh) + 1
           row == [user |-> r.user, revoked |-> FALSE, expired |-> FALSE, session |-> r.session]
<1>1. Carries(h) /\ r \in Running /\ n \in Nat /\ row \in Token
  <2>1. Carries(h)
    BY DEF Tokens, Carries
  <2>2. r \in Running /\ n \in Nat
    BY <2>1, SessionNumbers
  <2> QED
    BY <2>1, <2>2 DEF Running, Token
<1>2. /\ refresh' = Append(refresh, row)
      /\ request' = [request EXCEPT ![h] = Idle]
      /\ UNCHANGED <<account, sessions, changes>>
  BY DEF Tokens, SaveRefresh
<1> HIDE DEF row
<1>3. /\ refresh' \in Seq(Token) /\ Len(refresh') = n /\ refresh'[n] = row
      /\ \A t \in 1..Len(refresh) : refresh'[t] = refresh[t]
  BY <1>1, <1>2 DEF AccountsInv, AccountsTypeOK
<1>4. 1..Len(refresh') = 1..Len(refresh) \cup {n}
  BY <1>3, SessionNumbers
<1>5. /\ request'[h] = Idle /\ ~Carries(h)'
      /\ \A k \in Requests : k # h => request'[k] = request[k] /\ Carries(k)' = Carries(k)
  BY <1>2 DEF AccountsInv, AccountsTypeOK, Carries, Idle
<1>6. AccountsTypeOK'
  <2>1. access' \in SUBSET [user : Users, role : Roles]
    <3>1. r.user \in Users /\ r.role \in Roles
      BY <1>1 DEF AccountsInv, RequestsAuthorized, Tokens, Running, Status, NoAccount
    <3>2. access' \subseteq access \cup {[user |-> r.user, role |-> r.role]}
      BY DEF Tokens, AnswerTokens
    <3> QED
      BY <3>1, <3>2 DEF AccountsInv, AccountsTypeOK
  <2>2. held' \in SUBSET (1..Len(refresh'))
    <3>1. held' \subseteq held \cup {n}
      BY DEF Tokens, AnswerTokens
    <3> QED
      BY <1>4, <3>1 DEF AccountsInv, AccountsTypeOK
  <2> QED
    BY <1>2, <1>3, <2>1, <2>2 DEF AccountsInv, AccountsTypeOK
<1>7. row.session = r.session
  BY DEF row
<1>8. SessionsNumbered'
  BY <1>1, <1>2, <1>3, <1>4, <1>5, <1>7, SessionNumbers DEF SessionsNumbered
<1>9. SessionExclusive'
  <2>1. ASSUME NEW t \in 1..Len(refresh'), NEW v \in 1..Len(refresh'), t # v,
               ~refresh'[t].revoked, ~refresh'[v].revoked
        PROVE  refresh'[t].session # refresh'[v].session
    BY <1>1, <1>3, <1>4, <1>7, <2>1 DEF AccountsInv, SessionExclusive
  <2>2. ASSUME NEW k \in Requests, NEW t \in 1..Len(refresh'), Carries(k)', ~refresh'[t].revoked
        PROVE  request'[k].session # refresh'[t].session
    BY <1>1, <1>3, <1>4, <1>5, <1>7, <2>2 DEF AccountsInv, SessionExclusive
  <2>3. ASSUME NEW k \in Requests, NEW l \in Requests, k # l, Carries(k)', Carries(l)'
        PROVE  request'[k].session # request'[l].session
    BY <1>5, <2>3 DEF AccountsInv, SessionExclusive
  <2> QED
    BY <2>1, <2>2, <2>3 DEF SessionExclusive
<1>10. RequestsAuthorized' /\ SeenCurrent'
  BY <1>2, <1>5 DEF AccountsInv, RequestsAuthorized, SeenCurrent, Idle
<1> QED
  BY <1>6, <1>8, <1>9, <1>10 DEF AccountsInv

\* the end of a session's lifetime does,
LEMMA ExpireStep ==
  ASSUME AccountsInv, NEW t \in 1..Len(refresh), Expire(t)
  PROVE  AccountsInv'
<1>1. refresh[t] \in Token /\ refresh' = [refresh EXCEPT ![t].expired = TRUE]
  BY SessionNumbers DEF Expire
<1>2. PICK row \in Token : row = [refresh[t] EXCEPT !.expired = TRUE]
  BY <1>1 DEF Token
<1>3. row.session = refresh[t].session /\ row.revoked = refresh[t].revoked
  BY <1>1, <1>2 DEF Token
<1>4. refresh' = [refresh EXCEPT ![t] = row]
  BY <1>1, <1>2
<1>5. /\ refresh' \in Seq(Token) /\ Len(refresh') = Len(refresh)
      /\ \A v \in 1..Len(refresh) : /\ refresh'[v].session = refresh[v].session
                                    /\ refresh'[v].revoked = refresh[v].revoked
  BY <1>3, <1>4, ExceptSeq DEF AccountsInv, AccountsTypeOK
<1>6. UNCHANGED <<account, access, held, request, sessions, changes>>
  BY DEF Expire
<1>7. AccountsTypeOK'
  BY <1>5, <1>6 DEF AccountsInv, AccountsTypeOK
<1>8. SessionsNumbered' /\ SessionExclusive'
  BY <1>5, <1>6 DEF AccountsInv, SessionsNumbered, SessionExclusive, Carries
<1>9. RequestsAuthorized' /\ SeenCurrent'
  BY <1>6 DEF AccountsInv, RequestsAuthorized, SeenCurrent
<1> QED
  BY <1>7, <1>8, <1>9 DEF AccountsInv

\* A user changes: requests of the user see it, and keep what they saw before.
LEMMA ChangeStep ==
  ASSUME AccountsInv, NEW h \in Requests, NEW u \in Users, NEW status \in Status,
         request[h].step = "change", Changed(h, u, status)
  PROVE  AccountsInv'
<1>1. /\ account' = [account EXCEPT ![u] = status]
      /\ request' = [k \in Requests |-> IF k = h THEN Idle ELSE Seeing(request[k], u, status)]
      /\ changes' = changes + 1
      /\ UNCHANGED <<refresh, access, held, sessions>>
  BY DEF Changed, SetStatus
<1>2. \A k \in Requests : request[k] \in Running \cup {Idle}
  BY DEF AccountsInv, AccountsTypeOK
<1>3. /\ request' \in [Requests -> Running \cup {Idle}]
      /\ request'[h] = Idle
  BY <1>1, <1>2, SeeingLemma
<1>4. AccountsTypeOK'
  BY <1>1, <1>3 DEF AccountsInv, AccountsTypeOK
<1>5. ASSUME NEW k \in Requests, request'[k].step # "idle"
      PROVE  /\ k # h /\ request[k] # Idle
             /\ request'[k].step = request[k].step
             /\ request'[k].session = request[k].session
             /\ request'[k].role = request[k].role
             /\ request[k].seen \subseteq request'[k].seen
             /\ request'[k] = Seeing(request[k], u, status)
             /\ request'[k].user = request[k].user
  <2>1. k # h /\ request'[k] = Seeing(request[k], u, status)
    BY <1>1, <1>3, <1>5 DEF Idle
  <2>2. request[k] # Idle
    BY <1>2, <1>5, <2>1, SeeingLemma DEF Idle
  <2> QED
    BY <1>2, <2>1, <2>2, SeeingLemma
<1>6. \A k \in Requests : Carries(k)' =>
        Carries(k) /\ request'[k].session = request[k].session
  BY <1>5 DEF Carries
<1>7. SessionsNumbered' /\ SessionExclusive'
  BY <1>1, <1>6 DEF AccountsInv, SessionsNumbered, SessionExclusive
<1>8. RequestsAuthorized'
  BY <1>5 DEF AccountsInv, RequestsAuthorized
<1>9. ASSUME NEW k \in Requests, request'[k] # Idle
      PROVE  account'[request'[k].user] \in request'[k].seen
  <2>1. request'[k].step # "idle"
    BY <1>3, <1>9 DEF Running
  <2>2. request[k] \in Running /\ account[request[k].user] \in request[k].seen
    BY <1>2, <1>5, <2>1 DEF AccountsInv, SeenCurrent
  <2>3. CASE request[k].user = u
    <3>1. request'[k] = [request[k] EXCEPT !.seen = @ \cup {status}]
      BY <1>5, <2>1, <2>3 DEF Seeing
    <3>2. status \in request'[k].seen
      BY <2>2, <3>1 DEF Running
    <3> QED
      BY <1>1, <1>5, <2>1, <2>3, <3>2 DEF AccountsInv, AccountsTypeOK
  <2>4. CASE request[k].user # u
    BY <1>1, <1>5, <2>1, <2>2, <2>4 DEF AccountsInv, AccountsTypeOK, Running
  <2> QED
    BY <2>3, <2>4
<1> QED
  BY <1>4, <1>7, <1>8, <1>9 DEF AccountsInv, SeenCurrent

\* A request that begins has seen the status its user has.
LEMMA BeginLemma ==
  ASSUME AccountsTypeOK, NEW u \in Users, NEW session \in Nat,
         NEW step \in {"find", "tokens", "revoke", "change"}
  PROVE  /\ Begin(step, u, session) \in Running
         /\ Begin(step, u, session).step = step
         /\ Begin(step, u, session).session = session
         /\ Begin(step, u, session).role = account[u].role
         /\ Begin(step, u, session).user = u
         /\ Begin(step, u, session).seen = {account[u]}
<1>1. account[u] \in Status \cup {NoAccount}
  BY DEF AccountsTypeOK
<1>2. account[u].role \in Roles \cup {"none"}
  BY <1>1 DEF Status, NoAccount
<1> QED
  BY <1>1, <1>2 DEF Begin, Running

\* The status of an active user.
LEMMA ActiveSeen ==
  ASSUME AccountsTypeOK, NEW u \in Users, account[u].active
  PROVE  account[u] = [active |-> TRUE, role |-> account[u].role]
BY DEF AccountsTypeOK, Status, NoAccount

-----------------------------------------------------------------------------
\* and so does every other step.
LEMMA NextAccountsInv == AccountsInv /\ [AccountsNext]_accountsVars => AccountsInv'
<1> SUFFICES ASSUME AccountsInv, [AccountsNext]_accountsVars PROVE AccountsInv'
  OBVIOUS
<1>0. /\ AccountsTypeOK /\ sessions \in Nat
      /\ \A t \in held : t \in 1..Len(refresh)
      /\ Idle \in Running \cup {Idle}
      /\ \A h \in Requests : request[h] = Idle => ~Carries(h)
  BY DEF AccountsInv, AccountsTypeOK, Carries, Idle
<1>1. ASSUME NEW h \in Requests, NEW u \in Users, Login(h, u)
      PROVE  AccountsInv'
  <2> DEFINE r == Begin("tokens", u, sessions + 1)
  <2>1. r \in Running /\ r.step = "tokens" /\ r.session = sessions + 1 /\ account[r.user] \in r.seen
    BY <1>0, BeginLemma
  <2>2. [active |-> TRUE, role |-> r.role] \in r.seen
    BY <1>0, <1>1, BeginLemma, ActiveSeen DEF Login
  <2>3. /\ request' = [request EXCEPT ![h] = r] /\ sessions' = sessions + 1
        /\ UNCHANGED <<account, refresh, access, held, changes>>
    BY <1>1 DEF Login
  <2> HIDE DEF r
  <2>4. GoesOn(h, r)
    BY <1>0, <2>1, <2>2, <2>3 DEF GoesOn
  <2> QED
    BY <1>0, <2>1, <2>4, RequestStep
<1>2. ASSUME NEW h \in Requests, NEW t \in held, NEW answered \in BOOLEAN, Refresh(h, t, answered)
      PROVE  AccountsInv'
  <2> DEFINE b == Begin("find", refresh[t].user, refresh[t].session)
             r == IF answered THEN b ELSE Idle
  <2>1. refresh[t].user \in Users /\ refresh[t].session \in Nat
    BY <1>0, SessionNumbers DEF Token
  <2>2. /\ b \in Running /\ b.step = "find" /\ b.session = refresh[t].session
        /\ account[b.user] \in b.seen
    BY <1>0, <2>1, BeginLemma
  <2>3. request' = [request EXCEPT ![h] = r]
    BY <1>0, <1>2 DEF Refresh, AccountsTypeOK
  <2> HIDE DEF b
  <2>4. /\ r \in Running \cup {Idle}
        /\ r = Idle \/ (r.step = "find" /\ r.session = refresh[t].session)
        /\ r # Idle => account[r.user] \in r.seen
    BY <2>2
  <2>5. /\ UseRefresh(t) /\ ~Carries(h)
        /\ UNCHANGED <<account, access, held, sessions, changes>>
    BY <1>0, <1>2 DEF Refresh
  <2> HIDE DEF r
  <2> QED
    BY <1>0, <2>3, <2>4, <2>5, RevokeStep
<1>3. ASSUME NEW h \in Requests, RefreshFind(h)
      PROVE  AccountsInv'
  <2> DEFINE u == request[h].user
             c == [request[h] EXCEPT !.step = "tokens", !.role = account[u].role]
             r == IF account[u].active THEN c ELSE Idle
  <2>1. Carries(h) /\ request[h] \in Running /\ u \in Users /\ account[u] \in request[h].seen
    <3>1. Carries(h)
      BY <1>3 DEF RefreshFind, Carries
    <3>2. request[h] # Idle
      BY <1>3 DEF RefreshFind, Idle
    <3> QED
      BY <3>1, <3>2, SessionNumbers DEF Running, AccountsInv, SeenCurrent
  <2>2. request' = [request EXCEPT ![h] = r]
    BY <1>3 DEF RefreshFind
  <2>3. account[u].active =>
          /\ c \in Running /\ c.step = "tokens" /\ c.session = request[h].session
          /\ c.user = u /\ c.role = account[u].role /\ c.seen = request[h].seen
    BY <1>0, <2>1, ActiveStatus DEF Running
  <2>4. account[u].active => account[u] = [active |-> TRUE, role |-> account[u].role]
    BY <1>0, <2>1, ActiveSeen
  <2> HIDE DEF c
  <2>5. /\ r \in Running \cup {Idle}
        /\ r.step \in {"find", "tokens"} => r.session = request[h].session
        /\ r.step # "change"
        /\ r.step = "tokens" => [active |-> TRUE, role |-> r.role] \in r.seen
        /\ r # Idle => account[r.user] \in r.seen
    BY <2>1, <2>3, <2>4 DEF Idle
  <2>6. UNCHANGED <<account, refresh, access, held, sessions, changes>>
    BY <1>3 DEF RefreshFind
  <2> HIDE DEF r, u
  <2>7. GoesOn(h, r)
    BY <1>0, <2>1, <2>2, <2>5, <2>6 DEF GoesOn
  <2> QED
    BY <1>0, <2>5, <2>7, RequestStep
<1>4. ASSUME NEW h \in Requests, NEW a \in access, Logout(h, a) \/ AdminRequest(h, a)
      PROVE  AccountsInv'
  <2>1. a.user \in Users
    BY DEF AccountsInv, AccountsTypeOK
  <2>2. PICK step \in {"revoke", "change"} :
          /\ request' = [request EXCEPT ![h] = Begin(step, a.user, 0)]
          /\ step = "change" => account[a.user].active /\ account[a.user].role = "admin"
    BY <1>4 DEF Logout, AdminRequest
  <2> DEFINE r == Begin(step, a.user, 0)
  <2>3. r \in Running /\ r.step = step /\ account[r.user] \in r.seen
    BY <1>0, <2>1, BeginLemma
  <2>4. step = "change" => [active |-> TRUE, role |-> "admin"] \in r.seen
    BY <1>0, <2>1, <2>2, BeginLemma, ActiveSeen
  <2>5. UNCHANGED <<account, refresh, access, held, sessions, changes>>
    BY <1>4 DEF Logout, AdminRequest
  <2>6. request' = [request EXCEPT ![h] = r]
    BY <2>2
  <2> HIDE DEF r
  <2>7. GoesOn(h, r)
    BY <1>0, <2>3, <2>4, <2>5, <2>6 DEF GoesOn
  <2> QED
    BY <1>0, <2>3, <2>7, RequestStep
<1>5. ASSUME NEW h \in Requests, NEW t \in held, Revoke(h, t)
      PROVE  AccountsInv'
  <2>1. ~Carries(h)
    BY <1>5 DEF Revoke, Carries
  <2>2. /\ UseRefresh(t) /\ request' = [request EXCEPT ![h] = Idle]
        /\ UNCHANGED <<account, access, held, sessions, changes>>
    BY <1>5 DEF Revoke
  <2> QED
    BY <1>0, <2>1, <2>2, RevokeStep
<1>6. ASSUME NEW h \in Requests, NEW u \in Users, NEW status \in Status,
             Create(h, u, status) \/ Update(h, u, status)
      PROVE  AccountsInv'
  BY <1>6, ChangeStep DEF Create, Update
<1>7. ASSUME NEW h \in Requests, Ends(h)
      PROVE  AccountsInv'
  <2>1. /\ request' = [request EXCEPT ![h] = Idle]
        /\ UNCHANGED <<account, refresh, access, held, sessions, changes>>
    BY <1>7 DEF Ends
  <2>2. Idle.step = "idle"
    BY DEF Idle
  <2>3. GoesOn(h, Idle)
    BY <1>0, <2>1, <2>2 DEF GoesOn
  <2> QED
    BY <1>0, <2>3, RequestStep
<1>8. ASSUME NEW a \in access, AccessExpires(a)
      PROVE  AccountsInv'
  BY <1>8, SMTT(60) DEF AccessExpires, AccountsInv, AccountsTypeOK, SessionsNumbered, SeenCurrent, SessionExclusive,
              RequestsAuthorized, Carries
<1>9. CASE UNCHANGED accountsVars
  BY <1>9 DEF accountsVars, AccountsInv, AccountsTypeOK, SessionsNumbered, SeenCurrent, SessionExclusive,
              RequestsAuthorized, Carries
<1> QED
  BY <1>1, <1>2, <1>3, <1>4, <1>5, <1>6, <1>7, <1>8, <1>9, TokensStep, ExpireStep
  DEF AccountsNext, Session, WithAccess

\* The invariant holds throughout.
LEMMA AccountsInductive == AccountsSpec => []AccountsInv
BY InitAccountsInv, NextAccountsInv, PTL DEF AccountsSpec

-----------------------------------------------------------------------------
\* Nothing new: each token and each request has a session the user had.
LEMMA OnlyEndCriterion ==
  ASSUME NEW u \in Users,
         \A t \in 1..Len(refresh') :
           refresh'[t].user = u /\ ~refresh'[t].revoked /\ ~refresh'[t].expired =>
             refresh'[t].session \in SessionsOf(u),
         \A h \in Requests :
           Carries(h)' /\ request'[h].user = u => request'[h].session \in SessionsOf(u)
  PROVE  SessionsOf(u)' \subseteq SessionsOf(u)
BY DEF SessionsOf, Live

\* What is there already.
LEMMA SessionsHeld ==
  /\ \A u \in Users, t \in 1..Len(refresh) :
       refresh[t].user = u /\ Live(t) => refresh[t].session \in SessionsOf(u)
  /\ \A u \in Users, h \in Requests :
       Carries(h) /\ request[h].user = u => request[h].session \in SessionsOf(u)
BY DEF SessionsOf

\* Revoking and expiry: rows keep their user and session.
LEMMA RowsKept ==
  ASSUME AccountsInv, NEW t \in 1..Len(refresh), UseRefresh(t) \/ Expire(t)
  PROVE  /\ Len(refresh') = Len(refresh)
         /\ \A v \in 1..Len(refresh) :
              /\ refresh'[v].user = refresh[v].user
              /\ refresh'[v].session = refresh[v].session
              /\ ~refresh'[v].revoked /\ ~refresh'[v].expired => Live(v)
<1>1. refresh[t] \in Token
  BY SessionNumbers
<1>2. PICK row \in Token :
        /\ refresh' = [refresh EXCEPT ![t] = row]
        /\ row.user = refresh[t].user /\ row.session = refresh[t].session
        /\ row.revoked \/ row.expired
  <2>1. CASE UseRefresh(t)
    <3>1. PICK row \in Token : row = [refresh[t] EXCEPT !.revoked = TRUE]
      BY <1>1 DEF Token
    <3>2. row.user = refresh[t].user /\ row.session = refresh[t].session /\ row.revoked
      BY <1>1, <3>1 DEF Token
    <3>3. refresh' = [refresh EXCEPT ![t] = row]
      BY <2>1, <3>1 DEF UseRefresh
    <3> QED
      BY <3>2, <3>3
  <2>2. CASE Expire(t)
    <3>1. PICK row \in Token : row = [refresh[t] EXCEPT !.expired = TRUE]
      BY <1>1 DEF Token
    <3>2. row.user = refresh[t].user /\ row.session = refresh[t].session /\ row.expired
      BY <1>1, <3>1 DEF Token
    <3>3. refresh' = [refresh EXCEPT ![t] = row]
      BY <2>2, <3>1 DEF Expire
    <3> QED
      BY <3>2, <3>3
  <2> QED
    BY <2>1, <2>2
<1> QED
  BY <1>2, ExceptSeq DEF AccountsInv, AccountsTypeOK, Live

\* No step gives an account that stays inactive a session.
LEMMA OnlyEndStep ==
  ASSUME AccountsInv, [AccountsNext]_accountsVars, NEW u \in Users, ~account[u].active, ~account'[u].active
  PROVE  SessionsOf(u)' \subseteq SessionsOf(u)
<1>0. /\ AccountsTypeOK /\ \A t \in held : t \in 1..Len(refresh)
      /\ \A h \in Requests : request[h] = Idle => ~Carries(h)
      /\ ~(Idle.step \in {"find", "tokens"})
  BY DEF AccountsInv, AccountsTypeOK, Carries, Idle
<1>1. ASSUME NEW h \in Requests, NEW v \in Users, Login(h, v)
      PROVE  SessionsOf(u)' \subseteq SessionsOf(u)
  <2>1. /\ request' = [request EXCEPT ![h] = Begin("tokens", v, sessions + 1)]
        /\ refresh' = refresh /\ v # u
    BY <1>1 DEF Login
  <2>2. Begin("tokens", v, sessions + 1).user = v
    BY DEF Begin
  <2>3. \A k \in Requests : Carries(k)' /\ request'[k].user = u =>
          Carries(k) /\ request'[k] = request[k]
    BY <1>0, <2>1, <2>2 DEF Carries, AccountsTypeOK
  <2> QED
    BY <2>1, <2>3, SessionsHeld, OnlyEndCriterion DEF Live
<1>2. ASSUME NEW h \in Requests, NEW t \in held, NEW answered \in BOOLEAN, Refresh(h, t, answered)
      PROVE  SessionsOf(u)' \subseteq SessionsOf(u)
  <2>1. /\ t \in 1..Len(refresh) /\ Live(t) /\ UseRefresh(t)
        /\ refresh[t].user \in Users
    BY <1>0, <1>2, SessionNumbers DEF Refresh, UseRefresh, Token
  <2> DEFINE b == Begin("find", refresh[t].user, refresh[t].session)
  <2>2. b.user = refresh[t].user /\ b.session = refresh[t].session
    BY DEF Begin
  <2>3. request' = request \/ request' = [request EXCEPT ![h] = b]
    BY <1>2 DEF Refresh
  <2> HIDE DEF b
  <2>4. \A k \in Requests : Carries(k)' /\ request'[k].user = u =>
          \/ Carries(k) /\ request'[k] = request[k]
          \/ refresh[t].user = u /\ request'[k].session = refresh[t].session
    BY <1>0, <2>2, <2>3 DEF Carries, AccountsTypeOK
  <2> QED
    BY <2>1, <2>4, RowsKept, SessionsHeld, OnlyEndCriterion
<1>3. ASSUME NEW h \in Requests, RefreshFind(h)
      PROVE  SessionsOf(u)' \subseteq SessionsOf(u)
  <2>1. Carries(h) /\ request[h] \in Running /\ refresh' = refresh
    <3>1. Carries(h)
      BY <1>3 DEF RefreshFind, Carries
    <3> QED
      BY <1>3, <3>1, SessionNumbers DEF RefreshFind
  <2>2. \A k \in Requests : Carries(k)' =>
          Carries(k) /\ request'[k].user = request[k].user /\ request'[k].session = request[k].session
    BY <1>0, <1>3, <2>1 DEF RefreshFind, Carries, AccountsTypeOK, Running
  <2> QED
    BY <2>1, <2>2, SessionsHeld, OnlyEndCriterion DEF Live
<1>4. ASSUME NEW h \in Requests, NEW answered \in BOOLEAN, Tokens(h, answered)
      PROVE  SessionsOf(u)' \subseteq SessionsOf(u)
  <2> DEFINE row == [user |-> request[h].user, revoked |-> FALSE, expired |-> FALSE,
                     session |-> request[h].session]
  <2>1. Carries(h) /\ request[h] \in Running
    <3>1. Carries(h)
      BY <1>4 DEF Tokens, Carries
    <3> QED
      BY <3>1, SessionNumbers
  <2>2. row \in Token
    BY <2>1 DEF Token, Running
  <2>3. refresh' = Append(refresh, row) /\ request' = [request EXCEPT ![h] = Idle]
    BY <1>4 DEF Tokens, SaveRefresh
  <2>4. row.user = request[h].user /\ row.session = request[h].session
    OBVIOUS
  <2> HIDE DEF row
  <2>5. \A t \in 1..Len(refresh') : (t \in 1..Len(refresh) /\ refresh'[t] = refresh[t]) \/ refresh'[t] = row
    BY <2>2, <2>3 DEF AccountsInv, AccountsTypeOK
  <2>6. \A k \in Requests : Carries(k)' => Carries(k) /\ request'[k] = request[k]
    BY <1>0, <2>3 DEF Carries, AccountsTypeOK
  <2> QED
    BY <2>1, <2>4, <2>5, <2>6, SessionsHeld, OnlyEndCriterion DEF Live
<1>5. ASSUME NEW h \in Requests, NEW a \in access, Logout(h, a) \/ AdminRequest(h, a)
      PROVE  SessionsOf(u)' \subseteq SessionsOf(u)
  <2>1. PICK step \in {"revoke", "change"} :
          request' = [request EXCEPT ![h] = Begin(step, a.user, 0)]
    BY <1>5 DEF Logout, AdminRequest
  <2>2. Begin(step, a.user, 0).step = step
    BY DEF Begin
  <2>3. \A k \in Requests : Carries(k)' => Carries(k) /\ request'[k] = request[k]
    BY <1>0, <2>1, <2>2 DEF Carries, AccountsTypeOK
  <2>4. refresh' = refresh
    BY <1>5 DEF Logout, AdminRequest
  <2> QED
    BY <2>3, <2>4, SessionsHeld, OnlyEndCriterion DEF Live
<1>6. ASSUME NEW h \in Requests, NEW t \in held, Revoke(h, t)
      PROVE  SessionsOf(u)' \subseteq SessionsOf(u)
  <2>1. t \in 1..Len(refresh) /\ UseRefresh(t) /\ request' = [request EXCEPT ![h] = Idle]
    BY <1>0, <1>6 DEF Revoke
  <2>2. \A k \in Requests : Carries(k)' => Carries(k) /\ request'[k] = request[k]
    BY <1>0, <2>1 DEF Carries, AccountsTypeOK
  <2> QED
    BY <2>1, <2>2, RowsKept, SessionsHeld, OnlyEndCriterion
<1>7. ASSUME NEW h \in Requests, NEW v \in Users, NEW status \in Status,
             Create(h, v, status) \/ Update(h, v, status)
      PROVE  SessionsOf(u)' \subseteq SessionsOf(u)
  <2>1. /\ request' = [k \in Requests |-> IF k = h THEN Idle ELSE Seeing(request[k], v, status)]
        /\ refresh' = refresh
    BY <1>7 DEF Create, Update, Changed
  <2>2. \A k \in Requests : request[k] \in Running \cup {Idle}
    BY <1>0 DEF AccountsTypeOK
  <2>3. ASSUME NEW k \in Requests, Carries(k)'
        PROVE  /\ Carries(k) /\ request'[k].user = request[k].user
               /\ request'[k].session = request[k].session
    <3>1. k # h /\ request'[k] = Seeing(request[k], v, status)
      BY <1>0, <2>1, <2>3 DEF Carries
    <3>2. Carries(k)
      BY <2>2, <2>3, <3>1, SeeingLemma DEF Carries
    <3> QED
      BY <1>0, <2>2, <3>1, <3>2, SeeingLemma
  <2> QED
    BY <2>1, <2>3, SessionsHeld, OnlyEndCriterion DEF Live
<1>8. ASSUME NEW h \in Requests, Ends(h)
      PROVE  SessionsOf(u)' \subseteq SessionsOf(u)
  <2>1. \A k \in Requests : Carries(k)' => Carries(k) /\ request'[k] = request[k]
    BY <1>0, <1>8 DEF Ends, Carries, AccountsTypeOK
  <2>2. refresh' = refresh
    BY <1>8 DEF Ends
  <2> QED
    BY <2>1, <2>2, SessionsHeld, OnlyEndCriterion DEF Live
<1>9. ASSUME NEW t \in 1..Len(refresh), Expire(t)
      PROVE  SessionsOf(u)' \subseteq SessionsOf(u)
  <2>1. request' = request
    BY <1>9 DEF Expire
  <2> QED
    BY <1>9, <2>1, RowsKept, SessionsHeld, OnlyEndCriterion DEF Carries
<1>10. CASE UNCHANGED accountsVars \/ \E a \in access : AccessExpires(a)
  <2>1. refresh' = refresh /\ request' = request
    BY <1>10 DEF accountsVars, AccessExpires
  <2> QED
    BY <2>1, SessionsHeld, OnlyEndCriterion DEF Live, Carries
<1> QED
  BY <1>1, <1>2, <1>3, <1>4, <1>5, <1>6, <1>7, <1>8, <1>9, <1>10 DEF AccountsNext, Session, WithAccess

-----------------------------------------------------------------------------
\* The types of the tables, the tokens and the requests.
THEOREM AccountsTypeCorrect == AccountsSpec => []AccountsTypeOK
<1>1. AccountsInv => AccountsTypeOK
  BY DEF AccountsInv
<1> QED
  BY <1>1, AccountsInductive, PTL

\* Whatever runs at the same time, fails or loses its answer, a login has one
\* usable refresh token, or one request about to store the next.
THEOREM OneHeir == AccountsSpec => []SessionExclusive
<1>1. AccountsInv => SessionExclusive
  BY DEF AccountsInv
<1> QED
  BY <1>1, AccountsInductive, PTL

\* Changes to users and new tokens are the work of requests whose user was
\* entitled to them while they ran.
THEOREM Authorized == AccountsSpec => []RequestsAuthorized
<1>1. AccountsInv => RequestsAuthorized
  BY DEF AccountsInv
<1> QED
  BY <1>1, AccountsInductive, PTL

\* Once a user is deactivated, the sessions the user has can be used up, but no
\* request in flight, token or login adds to them.
THEOREM DeactivationHolds == AccountsSpec => SessionsOnlyEnd
<1>1. AccountsInv /\ [AccountsNext]_accountsVars =>
        [\A u \in Users : ~account[u].active /\ ~account'[u].active =>
           SessionsOf(u)' \subseteq SessionsOf(u)]_accountsVars
  BY OnlyEndStep
<1> QED
  BY <1>1, AccountsInductive, PTL DEF AccountsSpec, SessionsOnlyEnd
=============================================================================
