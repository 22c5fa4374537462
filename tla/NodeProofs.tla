------------------------------ MODULE NodeProofs ------------------------------
(***************************************************************************)
(* Proofs about a node as a whole: NodeLifecycle, which starts and stops   *)
(* it, and Presence, which keeps it registered upstream.  The two models   *)
(* share no state; each has its own specification.                         *)
(***************************************************************************)
EXTENDS NodeLifecycle, Presence, TLAPS

(***************************************************************************)
(* What start and stop of the runtime guarantee, for every number of tasks *)
(* and clients.  The invariant says for each place of the host thread what *)
(* of the node exists there; the mutex ties the management thread to it.   *)
(***************************************************************************)

\* No task has a thread.
TasksGone == \A t \in Tasks : tasks[t] = "none"

\* Where the host is inside stop, and inside the stop of the management socket.
StopPhases == {"stopTask", "joinTask", "stopAdapters", "stopCapabilities", "stopSip",
               "joinEvents", "destroy"}

ServerStopPhases == {"stopServer", "closeServer", "joinServer"}

\* Who holds the mutex: a command, or a start, which keeps it if it fails.
MutexInv ==
  /\ mutex = "manager" <=> manager = "command"
  /\ host \in {"startCapabilities", "command"} => mutex = "host"
  /\ mutex = "host" => host \in {"startCapabilities", "command"} \cup StopPhases

\* A running runtime has a whole node, and only then is there a server to talk to.
RunningInv ==
  /\ running => host \in {"idle", "command"} /\ NodeWhole
  /\ host = "command" \/ manager = "command" => running
  /\ manager # "none" => running \/ host \in ServerStopPhases
  /\ listening => running \/ host \in {"stopServer", "closeServer"}
  /\ sipRunning => events # "none"

\* What is left of the node at each place of the host thread.
HostInv ==
  /\ host \in {"idle", "killed"} /\ ~running =>
       ~sipRunning /\ events = "none" /\ capabilities = 0 /\ TasksGone /\ ~adapters
  /\ host = "startCapabilities" =>
       /\ sipRunning
       /\ \A t \in Tasks : IF t <= capabilities THEN tasks[t] \in {"waiting", "running"}
                                               ELSE tasks[t] = "none"
  /\ host \in ServerStopPhases => NodeWhole
  /\ host \in {"stopTask", "joinTask"} =>
       /\ capabilities = NumTasks
       /\ step >= 1
       /\ \A t \in Tasks : t < step => tasks[t] = "none"
       /\ host = "joinTask" => step \in Tasks
  /\ host \in {"stopAdapters", "stopCapabilities", "stopSip", "joinEvents", "destroy"} => TasksGone
  /\ host \in {"stopSip", "joinEvents", "destroy"} => capabilities = 0
  /\ host \in {"joinEvents", "destroy"} => ~sipRunning
  /\ host = "destroy" => events = "none"

\* The inductive invariant.
LifecycleInv == LifecycleTypeOK /\ MutexInv /\ RunningInv /\ HostInv

-----------------------------------------------------------------------------
\* The places step and capabilities start from.
LEMMA Bounds == 0 \in 0..NumTasks + 1 /\ 1 \in 0..NumTasks + 1 /\ 0 \in 0..NumTasks
  BY LifecycleAssumption

\* It holds of a runtime that was never started,
LEMMA InitLifecycleInv == LifecycleInit => LifecycleInv
<1> SUFFICES ASSUME LifecycleInit PROVE LifecycleInv
  OBVIOUS
<1>1. LifecycleTypeOK
  BY Bounds DEF LifecycleInit, LifecycleTypeOK, HostStates
<1>2. MutexInv /\ RunningInv
  BY DEF LifecycleInit, MutexInv, RunningInv, StopPhases, ServerStopPhases
<1>3. HostInv
  BY DEF LifecycleInit, HostInv, TasksGone, ServerStopPhases
<1> QED
  BY <1>1, <1>2, <1>3 DEF LifecycleInv

\* and of one whose process has died.
LEMMA KilledStep == Killed => LifecycleInv'
<1> SUFFICES ASSUME Killed PROVE LifecycleInv'
  OBVIOUS
<1>1. LifecycleTypeOK'
  BY Bounds DEF Killed, LifecycleTypeOK, HostStates
<1>2. MutexInv' /\ RunningInv'
  BY DEF Killed, MutexInv, RunningInv, StopPhases, ServerStopPhases
<1>3. HostInv'
  BY DEF Killed, HostInv, TasksGone, ServerStopPhases
<1> QED
  BY <1>1, <1>2, <1>3 DEF LifecycleInv

\* Every step of the host thread keeps the invariant.
LEMMA HostStep == LifecycleInv /\ Host => LifecycleInv'
<1> SUFFICES ASSUME LifecycleInv, Host PROVE LifecycleInv'
  OBVIOUS
<1> USE LifecycleAssumption
        DEF LifecycleInv, LifecycleTypeOK, HostStates, MutexInv, RunningInv, HostInv, NodeWhole, TasksGone,
            Tasks, StopPhases, ServerStopPhases, serverVars, nodeVars
<1>1. ASSUME NEW bound \in BOOLEAN, Start(bound) PROVE LifecycleInv'
  <2>1. LifecycleTypeOK'
    BY <1>1 DEF Start
  <2>2. MutexInv' /\ RunningInv'
    BY <1>1 DEF Start
  <2>3. HostInv'
    BY <1>1 DEF Start
  <2> QED
    BY <2>1, <2>2, <2>3 DEF LifecycleInv
<1>2. CASE StartCapability
  BY <1>2 DEF StartCapability
<1>3. ASSUME NEW enabled \in ManagementMode, NEW ok \in BOOLEAN, StartServer(enabled, ok) PROVE LifecycleInv'
  <2>1. LifecycleTypeOK'
    BY <1>3, Bounds DEF StartServer
  <2>2. MutexInv' /\ RunningInv'
    BY <1>3 DEF StartServer
  <2>3. HostInv'
    BY <1>3 DEF StartServer
  <2> QED
    BY <2>1, <2>2, <2>3 DEF LifecycleInv
<1>4. CASE Stop
  BY <1>4, ZenonT(60) DEF Stop
<1>5. CASE StopServer
  BY <1>5 DEF StopServer
<1>6. CASE CloseServer
  BY <1>6 DEF CloseServer
<1>7. CASE JoinServer
  BY <1>7 DEF JoinServer
<1>8. CASE StopTask
  BY <1>8 DEF StopTask
<1>9. CASE JoinTask
  BY <1>9 DEF JoinTask
<1>10. CASE StopAdapters
  BY <1>10 DEF StopAdapters
<1>11. CASE StopCapability
  BY <1>11 DEF StopCapability
<1>12. CASE StopSip
  BY <1>12 DEF StopSip
<1>13. CASE JoinEvents
  BY <1>13 DEF JoinEvents
<1>14. CASE Destroy
  <2>1. LifecycleTypeOK'
    BY <1>14, Bounds DEF Destroy
  <2>2. MutexInv' /\ RunningInv'
    BY <1>14 DEF Destroy
  <2>3. HostInv'
    BY <1>14 DEF Destroy
  <2> QED
    BY <2>1, <2>2, <2>3 DEF LifecycleInv
<1>15. CASE Command
  BY <1>15 DEF Command
<1>16. ASSUME NEW opensStream \in BOOLEAN, CommandDone(opensStream) PROVE LifecycleInv'
  BY <1>16 DEF CommandDone
<1> QED
  BY <1>1, <1>2, <1>3, <1>4, <1>5, <1>6, <1>7, <1>8, <1>9, <1>10, <1>11, <1>12, <1>13, <1>14, <1>15, <1>16 DEF Host

\* So does every step of the management thread, which is not there while the node
\* is taken apart.
LEMMA ManagerStep == LifecycleInv /\ Manager => LifecycleInv'
<1> SUFFICES ASSUME LifecycleInv, Manager PROVE LifecycleInv'
  OBVIOUS
<1> USE LifecycleAssumption
        DEF LifecycleInv, LifecycleTypeOK, HostStates, MutexInv, RunningInv, HostInv, NodeWhole, TasksGone,
            Tasks, StopPhases, ServerStopPhases, serverVars, nodeVars
<1>1. ASSUME NEW c \in Clients, Accept(c) PROVE LifecycleInv'
  BY <1>1 DEF Accept
<1>2. CASE AcceptFails
  BY <1>2 DEF AcceptFails, NextClient
<1>3. CASE Read
  BY <1>3 DEF Read, Dismiss, NextClient
<1>4. CASE Lock
  BY <1>4 DEF Lock
<1>5. ASSUME NEW opensStream \in BOOLEAN, ManagerCommandDone(opensStream) PROVE LifecycleInv'
  BY <1>5 DEF ManagerCommandDone
<1>6. ASSUME NEW large \in BOOLEAN, SendReply(large) PROVE LifecycleInv'
  <2>1. CASE Killed
    BY <2>1, KilledStep
  <2>2. CASE ~Killed
    BY <1>6, <2>2 DEF SendReply, Dismiss, NextClient
  <2> QED
    BY <2>1, <2>2
<1>7. CASE ReplyTaken
  BY <1>7 DEF ReplyTaken, Dismiss, NextClient
<1> QED
  BY <1>1, <1>2, <1>3, <1>4, <1>5, <1>6, <1>7 DEF Manager

\* So does the SIP event thread, which runs until JoinEvents has waited for it.
LEMMA EventsStep == LifecycleInv /\ Events => LifecycleInv'
<1> SUFFICES ASSUME LifecycleInv, Events PROVE LifecycleInv'
  OBVIOUS
<1> USE LifecycleAssumption
        DEF LifecycleInv, LifecycleTypeOK, HostStates, MutexInv, RunningInv, HostInv, NodeWhole, TasksGone,
            Tasks, StopPhases, ServerStopPhases, serverVars, nodeVars
<1>1. CASE Dispatch
  BY <1>1 DEF Dispatch
<1>2. ASSUME NEW opensStream \in BOOLEAN, DispatchDone(opensStream) PROVE LifecycleInv'
  BY <1>2 DEF DispatchDone
<1>3. CASE EventLoopEnds
  BY <1>3 DEF EventLoopEnds
<1> QED
  BY <1>1, <1>2, <1>3 DEF Events

\* So does a task, which runs only between its start and its join.
LEMMA TaskStep == ASSUME LifecycleInv, NEW t \in Tasks, Task(t) PROVE LifecycleInv'
  BY LifecycleAssumption DEF Task, TaskRuns, TaskWaits, TaskEnds, TaskState, LifecycleInv, LifecycleTypeOK, HostStates,
     MutexInv, RunningInv, HostInv, NodeWhole, TasksGone, Tasks, StopPhases, ServerStopPhases,
     serverVars, nodeVars

\* a client of the management socket keeps it,
LEMMA ClientStep == ASSUME LifecycleInv, NEW c \in Clients, Client(c) PROVE LifecycleInv'
  BY DEF Client, Connect, Write, Close, Await, HangUp, ClientState, LifecycleInv, LifecycleTypeOK, HostStates,
     MutexInv, RunningInv, HostInv, NodeWhole, TasksGone, serverVars, nodeVars

\* so does whoever launches the process again,
LEMMA RelaunchStep == LifecycleInv /\ Relaunch => LifecycleInv'
  BY DEF Relaunch, LifecycleInv, LifecycleTypeOK, HostStates, MutexInv, RunningInv, HostInv, NodeWhole,
     TasksGone, StopPhases, ServerStopPhases, serverVars, nodeVars

\* and so does every step.
LEMMA NextLifecycleInv == LifecycleInv /\ [LifecycleNext]_lifecycleVars => LifecycleInv'
<1> SUFFICES ASSUME LifecycleInv, [LifecycleNext]_lifecycleVars PROVE LifecycleInv'
  OBVIOUS
<1>1. CASE UNCHANGED lifecycleVars
  BY <1>1 DEF lifecycleVars, LifecycleInv, LifecycleTypeOK, MutexInv, RunningInv, HostInv, NodeWhole, TasksGone
<1>2. CASE LifecycleNext
  BY <1>2, HostStep, ManagerStep, EventsStep, TaskStep, ClientStep, RelaunchStep DEF LifecycleNext
<1> QED
  BY <1>1, <1>2

\* The invariant holds of every behaviour of the runtime.
THEOREM LifecycleInductive == LifecycleSpec => []LifecycleInv
  BY InitLifecycleInv, NextLifecycleInv, PTL DEF LifecycleSpec

\* The types of the runtime's state.
THEOREM LifecycleTypeCorrect == LifecycleSpec => []LifecycleTypeOK
<1> LifecycleInv => LifecycleTypeOK
  BY DEF LifecycleInv
<1> QED
  BY LifecycleInductive, PTL

\* After stop, or a start that failed, nothing of the node is left, whatever SIP
\* messages, commands and tasks were under way when it was stopped.
THEOREM NothingLeft == LifecycleSpec => []QuietAfterStop
<1> LifecycleInv => QuietAfterStop
  BY DEF LifecycleInv, LifecycleTypeOK, MutexInv, RunningInv, HostInv, TasksGone, StopPhases, ServerStopPhases,
     QuietAfterStop
<1> QED
  BY LifecycleInductive, PTL

\* A command, of the management socket or the host, works on a whole node.
THEOREM CommandSafety == LifecycleSpec => []CommandOnWholeNode
<1> LifecycleInv => CommandOnWholeNode
  BY DEF LifecycleInv, RunningInv, CommandOnWholeNode
<1> QED
  BY LifecycleInductive, PTL

\* A task runs only while its capability is started.
THEOREM TaskSafety == LifecycleSpec => []TaskOnLiveCapability
<1> LifecycleInv => TaskOnLiveCapability
  BY LifecycleAssumption DEF LifecycleInv, LifecycleTypeOK, HostStates, RunningInv, HostInv, NodeWhole, TasksGone,
     Tasks, ServerStopPhases, TaskOnLiveCapability
<1> QED
  BY LifecycleInductive, PTL

(***************************************************************************)
(* Presence, for every set of peers and any number of commands and faults: *)
(* the types of its state, and whose keepalives are heard.                 *)
(***************************************************************************)

\* Nothing says that a node is registered, and no node sends a keepalive,
\* before the upstream node has accepted it.
Grounded ==
  /\ \A m \in wire : m.type \in {"200", "MESSAGE"} => m.peer \in admitted
  /\ \A p \in Peers : clientRegistered[p] => p \in admitted
  /\ KeepaliveGrounded

\* Handling a message takes at most that message away and adds what is sent.
LEMMA DeliverBound ==
  ASSUME NEW m, NEW sent, Deliver(m, sent), TypeOK
  PROVE  /\ wire' \subseteq wire \cup sent
         /\ faults' \in 0..MaxFaults
BY PresenceAssumption DEF Deliver, Fault, TypeOK

\* The faults are counted up to their bound.
LEMMA FaultBound ==
  ASSUME Fault, TypeOK
  PROVE  faults' \in 0..MaxFaults
BY PresenceAssumption DEF Fault, TypeOK

\* A message in flight is a keepalive or belongs to a REGISTER.
LEMMA WireTypes ==
  ASSUME TypeOK, NEW m \in wire
  PROVE  /\ m.peer \in Peers
         /\ m.type # "MESSAGE" => m \in Register
         /\ m.type = "MESSAGE" => m \in Keepalive
BY DEF TypeOK, Register, Keepalive

\* An answer is a message of the node that asked.
LEMMA ReplyTypes ==
  ASSUME NEW m \in Register, NEW t \in {"401", "200", "403"}, NEW n \in Nonces \cup {NoNonce}
  PROVE  /\ Reply(m, t, n) \in Register
         /\ Reply(m, t, n).type = t
         /\ Reply(m, t, n).peer = m.peer
BY DEF Reply, Register

-----------------------------------------------------------------------------
(* Types                                                                   *)

\* The types hold initially,
LEMMA InitTypeOK == Init => TypeOK
BY PresenceAssumption DEF Init, TypeOK, Challenge, NoChallenge, NoNonce

\* the REGISTER's handler keeps them,
LEMMA RegisterRequestTypes ==
  ASSUME TypeOK, NEW m \in wire, RegisterRequest(m)
  PROVE  TypeOK'
<1>1. m \in Register
  BY WireTypes DEF RegisterRequest
<1>2. m.peer \in Peers
  BY <1>1 DEF Register
<1>3. CASE rejectRegister(m)
  <2>1. Reply(m, "403", NoNonce) \in Register
    BY <1>1, ReplyTypes
  <2>2. wire' \subseteq wire \cup {Reply(m, "403", NoNonce)} /\ faults' \in 0..MaxFaults
    BY <1>3, DeliverBound DEF rejectRegister
  <2>. QED
    BY <2>1, <2>2, <1>3
       DEF RegisterRequest, rejectRegister, TypeOK, upstreamVars, downstreamVars
<1>4. CASE issueChallenge(m)
  <2>1. PICK n \in Nonces :
          /\ challenges' = [challenges EXCEPT ![m.peer] = [nonce |-> n, used |-> FALSE]]
          /\ Deliver(m, {Reply(m, "401", n)})
          /\ UNCHANGED <<registered, lastKeepalive, admitted>>
    BY <1>4 DEF issueChallenge, FreshNonces
  <2>2. Reply(m, "401", n) \in Register
    BY <1>1, ReplyTypes
  <2>3. wire' \subseteq wire \cup {Reply(m, "401", n)} /\ faults' \in 0..MaxFaults
    BY <2>1, DeliverBound
  <2>4. challenges' \in [Peers -> Challenge]
    BY <2>1 DEF TypeOK, Challenge
  <2>. QED
    BY <2>1, <2>2, <2>3, <2>4 DEF RegisterRequest, TypeOK, downstreamVars
<1>5. CASE acceptRegister(m) /\ m.peer \in Trusted
  <2>1. Reply(m, "200", NoNonce) \in Register
    BY <1>1, ReplyTypes
  <2>2. wire' \subseteq wire \cup {Reply(m, "200", NoNonce)} /\ faults' \in 0..MaxFaults
    BY <1>5, DeliverBound DEF acceptRegister
  <2>3. challenges' \in [Peers -> Challenge]
    BY <1>5, <1>2 DEF acceptRegister, TypeOK, Challenge
  <2>4. registered' \in [Peers -> BOOLEAN] /\ admitted' \in SUBSET Trusted
    BY <1>5, <1>2 DEF acceptRegister, TypeOK
  <2>. QED
    BY <2>1, <2>2, <2>3, <2>4, <1>5 DEF RegisterRequest, acceptRegister, TypeOK, downstreamVars
<1>. QED
  BY <1>3, <1>4, <1>5 DEF RegisterRequest

\* the answer's handler does,
LEMMA RegisterResponseTypes ==
  ASSUME TypeOK, NEW m \in wire, RegisterResponse(m)
  PROVE  TypeOK'
<1>1. m \in Register
  BY WireTypes DEF RegisterResponse
<1>2. [m EXCEPT !.type = "REGISTER"] \in Register
  BY <1>1 DEF Register
<1>3. wire' \subseteq wire \cup {[m EXCEPT !.type = "REGISTER"]} /\ faults' \in 0..MaxFaults
  BY DeliverBound DEF RegisterResponse
<1>4. clientRegistered' \in [Peers -> BOOLEAN]
  BY <1>1 DEF RegisterResponse, TypeOK, Register
<1>. QED
  BY <1>2, <1>3, <1>4 DEF RegisterResponse, TypeOK, upstreamVars

\* the keepalive's handler does,
LEMMA KeepaliveRequestTypes ==
  ASSUME TypeOK, NEW m \in wire, KeepaliveRequest(m)
  PROVE  TypeOK'
<1>1. wire' \subseteq wire /\ faults' \in 0..MaxFaults
  BY DeliverBound DEF KeepaliveRequest
<1>2. lastKeepalive' \in [Peers -> BOOLEAN]
  BY WireTypes DEF KeepaliveRequest, TypeOK
<1>. QED
  BY <1>1, <1>2 DEF KeepaliveRequest, TypeOK, downstreamVars

\* and so does every step.
LEMMA NextTypeOK == TypeOK /\ [Next]_vars => TypeOK'
<1>. SUFFICES ASSUME TypeOK, [Next]_vars PROVE TypeOK'
  OBVIOUS
<1>1. ASSUME NEW p \in Peers, NEW c \in Calls, ReceiveRegister(p, c) PROVE TypeOK'
  BY <1>1, RegisterRequestTypes, RegisterResponseTypes DEF ReceiveRegister
<1>2. ASSUME NEW p \in Peers, ReceiveKeepalive(p) PROVE TypeOK'
  BY <1>2, KeepaliveRequestTypes DEF ReceiveKeepalive
<1>3. ASSUME NEW p \in Peers, RequestRegistration(p) PROVE TypeOK'
  BY <1>3, PresenceAssumption DEF RequestRegistration, TypeOK, upstreamVars
<1>4. ASSUME NEW p \in Peers, RequestSent(p) PROVE TypeOK'
  <2>1. Plain(p, "command") \in Register
    BY DEF Plain, Register, Calls
  <2>2. wire' \subseteq wire \cup {Plain(p, "command")} /\ faults' \in 0..MaxFaults
    BY <1>4, FaultBound DEF RequestSent, TypeOK
  <2>3. registrationRequested' \in [Peers -> BOOLEAN] /\ commanding' \in [Peers -> BOOLEAN]
    BY <1>4 DEF RequestSent, TypeOK
  <2>. QED
    BY <1>4, <2>1, <2>2, <2>3 DEF RequestSent, TypeOK, upstreamVars
<1>5. ASSUME NEW p \in Peers, RegisterRefresh(p) PROVE TypeOK'
  BY <1>5 DEF RegisterRefresh, TypeOK, upstreamVars, downstreamVars, Plain, Register, Calls
<1>6. ASSUME NEW p \in Peers, KeepaliveTask(p) PROVE TypeOK'
  BY <1>6 DEF KeepaliveTask, TypeOK, upstreamVars, downstreamVars, Keepalive
<1>7. ASSUME NEW p \in Peers, ChallengeLapses(p) PROVE TypeOK'
  BY <1>7 DEF ChallengeLapses, TypeOK, downstreamVars, Challenge, NoChallenge, NoNonce
<1>8. ASSUME NEW p \in Peers, NodeRestart(p) PROVE TypeOK'
  BY <1>8, FaultBound DEF NodeRestart, TypeOK, upstreamVars
<1>9. CASE UpstreamRestart
  BY <1>9, FaultBound DEF UpstreamRestart, TypeOK, downstreamVars, Challenge, NoChallenge, NoNonce
<1>10. ASSUME NEW m \in wire, Lose(m) PROVE TypeOK'
  BY <1>10, FaultBound DEF Lose, TypeOK, upstreamVars, downstreamVars
<1>11. CASE UNCHANGED vars
  BY <1>11 DEF vars, TypeOK
<1>. QED
  BY <1>1, <1>2, <1>3, <1>4, <1>5, <1>6, <1>7, <1>8, <1>9, <1>10, <1>11 DEF Next

\* Types, and with them that only configured peers are ever accepted.
THEOREM TypeCorrect == Spec => []TypeOK
<1>. QED
  BY InitTypeOK, NextTypeOK, PTL DEF Spec

-----------------------------------------------------------------------------
(* Keepalives are heard only from peers that have been accepted            *)

\* Initially nobody is registered,
LEMMA InitGrounded == Init => Grounded
BY DEF Init, Grounded, KeepaliveGrounded

\* Grounded survives a step that forgets or loses, and one that sends nothing
\* but REGISTERs, 401s and 403s.
LEMMA GroundedKept ==
  ASSUME Grounded, NEW sent,
         wire' \subseteq wire \cup sent,
         \A m \in sent : m.type \notin {"200", "MESSAGE"},
         \A p \in Peers : clientRegistered'[p] => clientRegistered[p],
         \A p \in Peers : lastKeepalive'[p] => lastKeepalive[p],
         admitted \subseteq admitted'
  PROVE  Grounded'
BY DEF Grounded, KeepaliveGrounded

\* the REGISTER's handler accepts a node before it says so,
LEMMA RegisterRequestGrounded ==
  ASSUME TypeOK, Grounded, NEW m \in wire, RegisterRequest(m)
  PROVE  Grounded'
<1>1. m \in Register
  BY WireTypes DEF RegisterRequest
<1>2. CASE rejectRegister(m)
  <2>1. wire' \subseteq wire \cup {Reply(m, "403", NoNonce)}
    BY <1>2, DeliverBound DEF rejectRegister
  <2>2. Reply(m, "403", NoNonce).type = "403"
    BY DEF Reply
  <2>. QED
    BY <2>1, <2>2, <1>2, GroundedKept
       DEF RegisterRequest, rejectRegister, upstreamVars, downstreamVars
<1>3. CASE issueChallenge(m)
  <2>1. PICK n \in Nonces : Deliver(m, {Reply(m, "401", n)})
    BY <1>3 DEF issueChallenge, FreshNonces
  <2>2. wire' \subseteq wire \cup {Reply(m, "401", n)}
    BY <2>1, DeliverBound
  <2>3. Reply(m, "401", n).type = "401"
    BY DEF Reply
  <2>. QED
    BY <2>2, <2>3, <1>3, GroundedKept DEF RegisterRequest, issueChallenge, downstreamVars
<1>4. CASE acceptRegister(m)
  <2>1. wire' \subseteq wire \cup {Reply(m, "200", NoNonce)}
    BY <1>4, DeliverBound DEF acceptRegister
  <2>2. Reply(m, "200", NoNonce).peer = m.peer
    BY DEF Reply
  <2>. QED
    BY <2>1, <2>2, <1>4
       DEF RegisterRequest, acceptRegister, Grounded, KeepaliveGrounded, downstreamVars
<1>. QED
  BY <1>2, <1>3, <1>4 DEF RegisterRequest

\* the answer's handler believes only what was said,
LEMMA RegisterResponseGrounded ==
  ASSUME TypeOK, Grounded, NEW m \in wire, RegisterResponse(m)
  PROVE  Grounded'
<1>1. m \in Register
  BY WireTypes DEF RegisterResponse
<1>2. CASE m.type = "200"
  <2>1. wire' \subseteq wire \cup {}
    BY <1>2, DeliverBound DEF RegisterResponse
  <2>2. m.peer \in admitted
    BY <1>2 DEF Grounded
  <2>3. \A p \in Peers : clientRegistered'[p] => p \in admitted
    BY <1>2, <2>2 DEF RegisterResponse, Grounded, TypeOK
  <2>. QED
    BY <2>1, <2>3 DEF RegisterResponse, Grounded, KeepaliveGrounded, upstreamVars
<1>3. CASE m.type # "200"
  <2>1. wire' \subseteq wire \cup {[m EXCEPT !.type = "REGISTER"]}
    BY DeliverBound DEF RegisterResponse
  <2>2. [m EXCEPT !.type = "REGISTER"].type = "REGISTER"
    BY <1>1 DEF Register
  <2>. QED
    BY <1>3, <2>1, <2>2, GroundedKept DEF RegisterResponse, upstreamVars
<1>. QED
  BY <1>2, <1>3

\* the keepalive's handler hears a node that was told,
LEMMA KeepaliveRequestGrounded ==
  ASSUME TypeOK, Grounded, NEW m \in wire, KeepaliveRequest(m)
  PROVE  Grounded'
<1>1. wire' \subseteq wire
  BY DeliverBound DEF KeepaliveRequest
<1>2. m.peer \in admitted
  BY DEF KeepaliveRequest, Grounded
<1>3. \A p \in Peers : lastKeepalive'[p] => p \in admitted
  BY <1>2 DEF KeepaliveRequest, Grounded, KeepaliveGrounded, TypeOK
<1>. QED
  BY <1>1, <1>3 DEF KeepaliveRequest, Grounded, KeepaliveGrounded, downstreamVars

\* and every step keeps it so.
LEMMA NextGrounded == TypeOK /\ Grounded /\ [Next]_vars => Grounded'
<1>. SUFFICES ASSUME TypeOK, Grounded, [Next]_vars PROVE Grounded'
  OBVIOUS
<1>1. ASSUME NEW p \in Peers, NEW c \in Calls, ReceiveRegister(p, c) PROVE Grounded'
  BY <1>1, RegisterRequestGrounded, RegisterResponseGrounded DEF ReceiveRegister
<1>2. ASSUME NEW p \in Peers, ReceiveKeepalive(p) PROVE Grounded'
  BY <1>2, KeepaliveRequestGrounded DEF ReceiveKeepalive
<1>3. ASSUME NEW p \in Peers, RequestRegistration(p) PROVE Grounded'
  BY <1>3 DEF RequestRegistration, Grounded, KeepaliveGrounded, upstreamVars
<1>4. ASSUME NEW p \in Peers, RequestSent(p) \/ RegisterRefresh(p) PROVE Grounded'
  <2>1. PICK c \in Calls : wire' \subseteq wire \cup {Plain(p, c)}
    BY <1>4 DEF RequestSent, RegisterRefresh, Calls
  <2>2. \A m \in {Plain(p, c)} : m.type \notin {"200", "MESSAGE"}
    BY DEF Plain
  <2>3. UNCHANGED <<clientRegistered, lastKeepalive, admitted>>
    BY <1>4 DEF RequestSent, RegisterRefresh, upstreamVars, downstreamVars
  <2>. QED
    BY <2>1, <2>2, <2>3, GroundedKept
<1>5. ASSUME NEW p \in Peers, KeepaliveTask(p) PROVE Grounded'
  BY <1>5 DEF KeepaliveTask, Grounded, KeepaliveGrounded, upstreamVars, downstreamVars
<1>6. ASSUME NEW p \in Peers, ChallengeLapses(p) PROVE Grounded'
  BY <1>6 DEF ChallengeLapses, Grounded, KeepaliveGrounded, downstreamVars
<1>7. ASSUME NEW p \in Peers, NodeRestart(p) PROVE Grounded'
  BY <1>7 DEF NodeRestart, Grounded, KeepaliveGrounded, upstreamVars, TypeOK
<1>8. CASE UpstreamRestart
  BY <1>8 DEF UpstreamRestart, Grounded, KeepaliveGrounded, downstreamVars, TypeOK
<1>9. ASSUME NEW m \in wire, Lose(m) PROVE Grounded'
  BY <1>9 DEF Lose, Grounded, KeepaliveGrounded, upstreamVars, downstreamVars
<1>10. CASE UNCHANGED vars
  BY <1>10 DEF vars, Grounded, KeepaliveGrounded
<1>. QED
  BY <1>1, <1>2, <1>3, <1>4, <1>5, <1>6, <1>7, <1>8, <1>9, <1>10 DEF Next

\* The upstream node hears keepalives only from peers it has accepted, although
\* its handler does not ask: for any number of nodes, nonces, commands, lost
\* and repeated messages and restarts.
THEOREM KeepaliveSafety == Spec => []KeepaliveGrounded
<1>1. Grounded => KeepaliveGrounded
  BY DEF Grounded
<1>. QED
  BY InitTypeOK, NextTypeOK, InitGrounded, NextGrounded, <1>1, PTL DEF Spec

=============================================================================
