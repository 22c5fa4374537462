------------------------ MODULE PlatformRegistration ------------------------
(***************************************************************************)
(* The separate programs SipSubService and SipSupService: subordinate      *)
(* platforms register with a superior platform, hold a belief about it and *)
(* correct the belief by heartbeats.                                       *)
(*                                                                         *)
(* The superior handles every request on a thread of its own: it answers a *)
(* REGISTER first and writes the registration down afterwards, in two      *)
(* critical sections.  The subordinate registers every 3 s while it does   *)
(* not believe to be registered, and sends a heartbeat every 10 s while it *)
(* does; each request is a transaction that ends with an answer or a 408.  *)
(***************************************************************************)
EXTENDS Naturals

CONSTANTS
  Peers,                                        \* subordinate platforms
  RegisterSlots, RefreshSlots, HeartBeatSlots,  \* transactions open at a time
  MaxThreads,                                   \* bound on a platform's threads that record
  MaxFaults                                     \* bound on losses, early 408s and crashes

ClientSlots == RegisterSlots \cup RefreshSlots
Slots       == ClientSlots \cup HeartBeatSlots

ASSUME PlatformAssumption ==
  /\ ClientSlots \cap HeartBeatSlots = {}
  /\ MaxThreads \in Nat
  /\ MaxFaults \in Nat

VARIABLES
  known,       \* the superior's configuration lists the platform
  secured,     \* both ends are configured for Digest
  lasting,     \* the platform's `expires` is not 0
  wire,        \* messages in flight
  open,        \* subordinate: state of each transaction
  up,          \* subordinate: the process runs
  believed,    \* subordinate: SupDomainInfo::registered
  refreshing,  \* subordinate: a pjsip_regc refreshes by itself
  registered,  \* superior: SubDomainInfo::registered
  stale,       \* superior: lastRegTime is at least `expires` old
  marking,     \* superior: threads that have answered 200, before setRegister
  stamping,    \* superior: threads between setRegister and setLastRegTime
  timer,       \* superior: the thread of RegisterCheckProc runs
  dropped,     \* history: forgotten or expired since the last setRegister
  faults       \* faults left

config  == <<known, secured, lasting>>
subVars == <<open, up, believed, refreshing>>
supVars == <<registered, stale, marking, stamping, timer, dropped>>
vars    == <<config, wire, subVars, supVars, faults>>

Message == [type : {"REGISTER", "MESSAGE", "200", "401", "403", "404"},
            peer : Peers, slot : Slots, auth : BOOLEAN]

\* lastRegTime is 0 at first, which is older than `expires`.
Init ==
  /\ known \in [Peers -> BOOLEAN]
  /\ secured \in [Peers -> BOOLEAN]
  /\ lasting \in [Peers -> BOOLEAN]
  /\ wire = {}
  /\ open = [p \in Peers |-> [s \in Slots |-> "none"]]
  /\ up = [p \in Peers |-> TRUE]
  /\ believed = [p \in Peers |-> FALSE]
  /\ refreshing = [p \in Peers |-> FALSE]
  /\ registered = [p \in Peers |-> FALSE]
  /\ stale = [p \in Peers |-> TRUE]
  /\ marking = [p \in Peers |-> 0]
  /\ stamping = [p \in Peers |-> 0]
  /\ timer = FALSE
  /\ dropped = {}
  /\ faults = MaxFaults

-----------------------------------------------------------------------------
(* Network                                                                 *)

Fault == faults > 0 /\ faults' = faults - 1

\* Message m is handled and those in sent leave; m may come once more.
Deliver(m, sent) ==
  \/ wire' = (wire \ {m}) \cup sent /\ UNCHANGED faults
  \/ wire' = wire \cup sent /\ Fault

Answer(m, code) == [m EXCEPT !.type = code]

InFlight(p, s) == \E m \in wire : m.peer = p /\ m.slot = s

\* A message is lost for good, or answering it fails and nothing is recorded.
Lose(m) ==
  /\ Fault
  /\ wire' = wire \ {m}
  /\ UNCHANGED <<config, subVars, supVars>>

-----------------------------------------------------------------------------
(* Superior platform                                                       *)

\* getAuth has no return for a platform that is not configured: in a build
\* without optimisation its value is whatever the register holds.
AsksForDigest(p) == IF known[p] THEN {secured[p]} ELSE BOOLEAN

\* The answer is sent; setRegister and setLastRegTime are still to come, and
\* find nothing when the platform is not configured.
Admit(m) ==
  /\ marking[m.peer] + stamping[m.peer] < MaxThreads
  /\ marking' = IF known[m.peer] THEN [marking EXCEPT ![m.peer] = @ + 1] ELSE marking
  /\ Deliver(m, {Answer(m, "200")})

Refuse(m, code) ==
  /\ Deliver(m, {Answer(m, code)})
  /\ UNCHANGED marking

\* Mutant: the Digest path forgets `registered=true`.
HandleRegister_Forgotten(m) ==
  /\ m.type = "REGISTER"
  /\ \E digest \in AsksForDigest(m.peer) :
       \/ digest /\ ~m.auth /\ Refuse(m, "401")
       \/ digest /\ m.auth /\ Refuse(m, "200")
       \/ ~digest /\ known[m.peer] /\ Admit(m)
       \/ ~digest /\ ~known[m.peer] /\ Refuse(m, "404")
  /\ UNCHANGED <<config, subVars, registered, stale, stamping, timer, dropped>>

\* dealWithAuthorRegister accepts any nonce and does not ask whether the
\* platform is configured; dealWithRegister does.
HandleRegister(m) ==
  /\ m.type = "REGISTER"
  /\ \E digest \in AsksForDigest(m.peer) :
       \/ digest /\ ~m.auth /\ Refuse(m, "401")
       \/ digest /\ m.auth /\ Admit(m)
       \/ ~digest /\ known[m.peer] /\ Admit(m)
       \/ ~digest /\ ~known[m.peer] /\ Refuse(m, "404")
  /\ UNCHANGED <<config, subVars, registered, stale, stamping, timer, dropped>>

\* Mutant: the thread comes back to setRegister.
SetRegister_Again(p) ==
  /\ marking[p] > 0
  /\ stamping' = [stamping EXCEPT ![p] = @ + 1]
  /\ registered' = [registered EXCEPT ![p] = lasting[p]]
  /\ dropped' = dropped \ {p}
  /\ UNCHANGED <<config, wire, subVars, marking, stale, timer, faults>>

\* `expires` 0 takes the registration back.
SetRegister(p) ==
  /\ marking[p] > 0
  /\ marking' = [marking EXCEPT ![p] = @ - 1]
  /\ stamping' = [stamping EXCEPT ![p] = @ + 1]
  /\ registered' = [registered EXCEPT ![p] = lasting[p]]
  /\ dropped' = dropped \ {p}
  /\ UNCHANGED <<config, wire, subVars, stale, timer, faults>>

SetLastRegTime(p) ==
  /\ stamping[p] > 0
  /\ stamping' = [stamping EXCEPT ![p] = @ - 1]
  /\ stale' = [stale EXCEPT ![p] = ~lasting[p]]
  /\ UNCHANGED <<config, wire, subVars, registered, marking, timer, dropped, faults>>

\* Mutant: a heartbeat of a platform that is not registered is answered 200.
HandleHeartBeat_Lenient(m) ==
  /\ m.type = "MESSAGE"
  /\ stale' = IF registered[m.peer] THEN [stale EXCEPT ![m.peer] = FALSE] ELSE stale
  /\ Deliver(m, {Answer(m, "200")})
  /\ UNCHANGED <<config, subVars, registered, marking, stamping, timer, dropped>>

\* SipHeartBeat::HeartBeatMessage, under globalLock from the search to the answer.
HandleHeartBeat(m) ==
  /\ m.type = "MESSAGE"
  /\ stale' = IF registered[m.peer] THEN [stale EXCEPT ![m.peer] = FALSE] ELSE stale
  /\ Deliver(m, {Answer(m, IF registered[m.peer] THEN "200" ELSE "403")})
  /\ UNCHANGED <<config, subVars, registered, marking, stamping, timer, dropped>>

\* main starts the timer after event_base_dispatch, which returns at most when
\* the event loop is broken off.
EventLoopEnds ==
  /\ ~timer
  /\ timer' = TRUE
  /\ UNCHANGED <<config, wire, subVars, registered, stale, marking, stamping, dropped, faults>>

\* The timer thread, under globalLock.
RegisterCheckProc ==
  /\ timer
  /\ registered' = [p \in Peers |-> registered[p] /\ ~stale[p]]
  /\ dropped' = dropped \cup {p \in Peers : registered[p] /\ stale[p]}
  /\ UNCHANGED <<config, wire, subVars, stale, marking, stamping, timer, faults>>

\* `expires` goes by: nothing is under way for so long, and a platform that runs
\* sends more often than that.
TimePasses(p) ==
  /\ ~up[p] /\ marking[p] = 0 /\ stamping[p] = 0
  /\ \A s \in Slots : ~InFlight(p, s)
  /\ stale' = [stale EXCEPT ![p] = TRUE]
  /\ UNCHANGED <<config, wire, subVars, registered, marking, stamping, timer, dropped, faults>>

SupRestart ==
  /\ Fault
  /\ registered' = [p \in Peers |-> FALSE]
  /\ stale' = [p \in Peers |-> TRUE]
  /\ marking' = [p \in Peers |-> 0]
  /\ stamping' = [p \in Peers |-> 0]
  /\ timer' = FALSE
  /\ dropped' = Peers
  /\ UNCHANGED <<config, wire, subVars>>

-----------------------------------------------------------------------------
(* Subordinate platform                                                    *)

\* A transaction starts in a free slot with its request.
Request(p, slots, type) ==
  \E s \in slots :
    /\ up[p] /\ open[p][s] = "none" /\ ~InFlight(p, s)
    /\ open' = [open EXCEPT ![p][s] = "plain"]
    /\ wire' = wire \cup {[type |-> type, peer |-> p, slot |-> s, auth |-> FALSE]}
    /\ UNCHANGED <<config, up, believed, refreshing, supVars, faults>>

\* SipRegister::RegisterProc and gbRegister, every 3 s.
RegisterProc(p) == ~believed[p] /\ Request(p, RegisterSlots, "REGISTER")

\* pjsip_regc_register was told to refresh the registration by itself.
RefreshTimer(p) == refreshing[p] /\ Request(p, RefreshSlots, "REGISTER")

\* SipHeartBeat::HeartBeatProc and gbHeartBeat, every 10 s.
HeartBeatProc(p) == believed[p] /\ Request(p, HeartBeatSlots, "MESSAGE")

Close(p, s) == open' = [open EXCEPT ![p][s] = "none"]

\* client_cb: only a 200 changes anything.
client_cb(p, s, code) ==
  /\ Close(p, s)
  /\ IF code = "200"
     THEN /\ believed' = [believed EXCEPT ![p] = TRUE]
          /\ refreshing' = [refreshing EXCEPT ![p] = @ \/ lasting[p]]
     ELSE UNCHANGED <<believed, refreshing>>

\* response_callback: whatever is not a 200 takes the belief away, the 408 of an
\* old heartbeat too.
response_callback(p, s, code) ==
  /\ Close(p, s)
  /\ believed' = [believed EXCEPT ![p] = @ /\ code = "200"]
  /\ UNCHANGED refreshing

Callback(p, s, code) ==
  IF s \in HeartBeatSlots THEN response_callback(p, s, code) ELSE client_cb(p, s, code)

\* An answer ends its transaction, a challenge is met by a second one, and an
\* answer to a transaction that has ended is dropped.
HandleResponse(m) ==
  LET waiting   == open[m.peer][m.slot] = IF m.auth THEN "auth" ELSE "plain"
      challenge == m.type = "401" /\ secured[m.peer] /\ ~m.auth
  IN
  /\ m.type \in {"200", "401", "403", "404"}
  /\ \/ /\ ~waiting
        /\ Deliver(m, {})
        /\ UNCHANGED <<open, believed, refreshing>>
     \/ /\ waiting /\ challenge
        /\ Deliver(m, {[m EXCEPT !.type = "REGISTER", !.auth = TRUE]})
        /\ open' = [open EXCEPT ![m.peer][m.slot] = "auth"]
        /\ UNCHANGED <<believed, refreshing>>
     \/ /\ waiting /\ ~challenge
        /\ Deliver(m, {})
        /\ Callback(m.peer, m.slot, m.type)
  /\ UNCHANGED <<config, up, supVars>>

\* A transaction ends with a 408: no message of it is left ...
Timeout(p, s) ==
  /\ open[p][s] # "none" /\ ~InFlight(p, s)
  /\ Callback(p, s, "408")
  /\ UNCHANGED <<config, wire, up, supVars, faults>>

\* ... or the answer is late.
TimeoutTooSoon(p, s) ==
  /\ open[p][s] # "none" /\ InFlight(p, s) /\ Fault
  /\ Callback(p, s, "408")
  /\ UNCHANGED <<config, wire, up, supVars>>

\* The process is killed; it has no other end.
SubStops(p) ==
  /\ up[p] /\ Fault
  /\ up' = [up EXCEPT ![p] = FALSE]
  /\ believed' = [believed EXCEPT ![p] = FALSE]
  /\ refreshing' = [refreshing EXCEPT ![p] = FALSE]
  /\ open' = [open EXCEPT ![p] = [s \in Slots |-> "none"]]
  /\ UNCHANGED <<config, wire, supVars>>

SubStarts(p) ==
  /\ ~up[p]
  /\ up' = [up EXCEPT ![p] = TRUE]
  /\ UNCHANGED <<config, wire, open, believed, refreshing, supVars, faults>>

-----------------------------------------------------------------------------
Receive(p, s) ==
  \E m \in wire :
    /\ m.peer = p /\ m.slot = s
    /\ HandleRegister(m) \/ HandleHeartBeat(m) \/ HandleResponse(m)

Next ==
  \/ \E p \in Peers :
       \/ SetRegister(p) \/ SetLastRegTime(p) \/ TimePasses(p)
       \/ RegisterProc(p) \/ RefreshTimer(p) \/ HeartBeatProc(p)
       \/ SubStops(p) \/ SubStarts(p)
       \/ \E s \in Slots : Receive(p, s) \/ Timeout(p, s) \/ TimeoutTooSoon(p, s)
  \/ EventLoopEnds \/ RegisterCheckProc \/ SupRestart
  \/ \E m \in wire : Lose(m)

\* Messages that are not lost arrive, threads and timers run on, and the clock.
\* Nothing makes the event loop end or a killed process start.
Fairness ==
  /\ \A p \in Peers :
       /\ WF_vars(SetRegister(p)) /\ WF_vars(SetLastRegTime(p)) /\ WF_vars(TimePasses(p))
       /\ WF_vars(RegisterProc(p)) /\ WF_vars(HeartBeatProc(p))
       /\ \A s \in Slots : WF_vars(Receive(p, s)) /\ WF_vars(Timeout(p, s))
  /\ WF_vars(RegisterCheckProc)

Spec == Init /\ [][Next]_vars

FairSpec == Spec /\ Fairness

-----------------------------------------------------------------------------
(* Properties                                                              *)

TypeOK ==
  /\ known \in [Peers -> BOOLEAN]
  /\ secured \in [Peers -> BOOLEAN]
  /\ lasting \in [Peers -> BOOLEAN]
  /\ wire \in SUBSET Message
  /\ open \in [Peers -> [Slots -> {"none", "plain", "auth"}]]
  /\ up \in [Peers -> BOOLEAN]
  /\ believed \in [Peers -> BOOLEAN]
  /\ refreshing \in [Peers -> BOOLEAN]
  /\ registered \in [Peers -> BOOLEAN]
  /\ stale \in [Peers -> BOOLEAN]
  /\ marking \in [Peers -> Nat]
  /\ stamping \in [Peers -> Nat]
  /\ \A p \in Peers : marking[p] + stamping[p] <= MaxThreads
  /\ timer \in BOOLEAN
  /\ dropped \in SUBSET Peers
  /\ faults \in 0..MaxFaults

Regular(p) == known[p] /\ lasting[p]

Backed(p) == registered[p] \/ marking[p] > 0 \/ p \in dropped

\* The ends disagree about a registration for three reasons only: the thread that
\* has answered the REGISTER has not written it down yet, the superior has been
\* restarted since, or the registration has expired.  No order of late answers,
\* repeated requests and concurrent threads makes a fourth.
SplitExplained == \A p \in Peers : Regular(p) /\ believed[p] => Backed(p)

\* Whatever was lost, late or restarted, a platform that runs is registered at
\* both ends again, although its belief changes only by answers; and one that is
\* gone is given up, provided that the timer for it runs.
PeersReconcile ==
  \A p \in Peers :
    /\ (Regular(p) /\ up[p]) ~> ((believed[p] /\ registered[p]) \/ ~up[p])
    /\ (timer /\ ~up[p]) ~> (~registered[p] \/ up[p] \/ ~timer)
=============================================================================
