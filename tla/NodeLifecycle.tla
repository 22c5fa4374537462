---------------------------- MODULE NodeLifecycle ----------------------------
(***************************************************************************)
(* Start and stop of a media-fabric runtime and the threads they deal with *)
(*                                                                         *)
(*  - host: main() or the Go service, which starts and stops the runtime   *)
(*    (MediaFabricRuntime, GB28181Node) and issues commands;               *)
(*  - manager: the thread of ManagementServer, which serves one client of  *)
(*    the management socket at a time and runs its command;                *)
(*  - events: PJSIP's event thread, which dispatches SIP messages;         *)
(*  - tasks: one thread of TaskScheduler per scheduled task, each          *)
(*    scheduled by the start of a capability;                              *)
(*  - RTP adapters with their poll threads, started by handlers and        *)
(*    commands.                                                            *)
(*                                                                         *)
(* Commands and start hold the mutex of the runtime; stop takes it only to *)
(* detach the node.  The routes of the SIP stack, which have no lock, are  *)
(* not represented.                                                        *)
(*                                                                         *)
(* The management thread writes its reply with a plain write, which blocks *)
(* while the client's socket is full, and which sends SIGPIPE, that nobody *)
(* ignores, to the process when the client has hung up: the process dies   *)
(* with it, and somebody may launch it again.                              *)
(***************************************************************************)
EXTENDS Naturals

CONSTANTS
  Clients,        \* clients of the management socket
  NoClient,       \* the manager serves none
  NumTasks,       \* scheduled tasks
  ManagementMode  \* {TRUE}, {FALSE}: whether start enables the management socket

ASSUME LifecycleAssumption ==
  /\ NoClient \notin Clients
  /\ NumTasks \in Nat
  /\ ManagementMode \subseteq BOOLEAN

Tasks == 1..NumTasks

VARIABLES
  host,          \* where the host thread is
  step,          \* the capability or task it is at there
  mutex,         \* holder of m_mutex
  running,       \* m_running
  manager,       \* where the management thread is
  serving,       \* the client it has accepted
  serverStopped, \* ManagementServer::m_stopped
  listening,     \* whether the management socket is open
  clients,       \* state of each client's connection
  events,        \* where the SIP event thread is
  sipRunning,    \* PjsipStackAdapter::m_running
  capabilities,  \* capabilities started: 1..capabilities
  tasks,         \* where the thread of each task is
  adapters       \* whether an RTP adapter runs

serverVars == <<manager, serving, serverStopped, listening, clients>>
nodeVars   == <<events, sipRunning, capabilities, tasks, adapters>>
lifecycleVars ==
  <<host, step, mutex, running, manager, serving, serverStopped, listening, clients,
    events, sipRunning, capabilities, tasks, adapters>>

HostStates == {"idle", "killed", "startCapabilities", "command",
               "stopServer", "closeServer", "joinServer", "stopTask", "joinTask",
               "stopAdapters", "stopCapabilities", "stopSip", "joinEvents", "destroy"}

LifecycleInit ==
  /\ host = "idle"
  /\ step = 0
  /\ mutex = "free"
  /\ running = FALSE
  /\ manager = "none"
  /\ serving = NoClient
  /\ serverStopped = TRUE
  /\ listening = FALSE
  /\ clients = [c \in Clients |-> "away"]
  /\ events = "none"
  /\ sipRunning = FALSE
  /\ capabilities = 0
  /\ tasks = [t \in Tasks |-> "none"]
  /\ adapters = FALSE

-----------------------------------------------------------------------------
(* Host: MediaFabricRuntime::start                                         *)

\* start takes the mutex and brings up the SIP stack of a new node; without its
\* port the node is gone again.
Start(bound) ==
  /\ host = "idle"
  /\ mutex = "free"
  /\ ~running
  /\ IF bound
     THEN /\ host' = "startCapabilities"
          /\ mutex' = "host"
          /\ events' = "polling"
          /\ sipRunning' = TRUE
     ELSE UNCHANGED <<host, mutex, events, sipRunning>>
  /\ UNCHANGED <<step, running, serverVars, capabilities, tasks, adapters>>

\* Capabilities start one by one; the start of each schedules its task.
StartCapability ==
  /\ host = "startCapabilities"
  /\ capabilities < NumTasks
  /\ capabilities' = capabilities + 1
  /\ tasks' = [tasks EXCEPT ![capabilities + 1] = "waiting"]
  /\ UNCHANGED <<host, step, mutex, running, serverVars, events, sipRunning, adapters>>

StartServer(enabled, ok) ==
  /\ host = "startCapabilities"
  /\ capabilities = NumTasks
  /\ IF enabled /\ ~ok
     THEN /\ host' = "stopTask"
          /\ step' = 1
          /\ UNCHANGED <<mutex, running, serverVars>>
     ELSE /\ host' = "idle"
          /\ mutex' = "free"
          /\ running' = TRUE
          /\ IF enabled
             THEN /\ manager' = "accept"
                  /\ serverStopped' = FALSE
                  /\ listening' = TRUE
                  /\ UNCHANGED <<step, serving, clients>>
             ELSE UNCHANGED <<step, serverVars>>
  /\ UNCHANGED nodeVars

-----------------------------------------------------------------------------
(* Host: MediaFabricRuntime::stop                                          *)

\* Mutant: the mutex stays locked until the node is gone.
Stop_Locked ==
  /\ host = "idle"
  /\ mutex = "free"
  /\ running
  /\ running' = FALSE
  /\ mutex' = "host"
  /\ host' = "stopServer"
  /\ UNCHANGED <<step, serverVars, nodeVars>>

\* The mutex is released before the threads are joined.
Stop ==
  /\ host = "idle"
  /\ mutex = "free"
  /\ running
  /\ running' = FALSE
  /\ host' = "stopServer"
  /\ UNCHANGED <<step, mutex, serverVars, nodeVars>>

\* ManagementServer::stop
StopServer ==
  /\ host = "stopServer"
  /\ serverStopped' = TRUE
  /\ host' = "closeServer"
  /\ UNCHANGED <<step, mutex, running, manager, serving, listening, clients, nodeVars>>

\* Connections that were not accepted end with the socket.
CloseServer ==
  /\ host = "closeServer"
  /\ listening' = FALSE
  /\ clients' = [c \in Clients |-> IF c = serving THEN clients[c] ELSE "away"]
  /\ host' = "joinServer"
  /\ UNCHANGED <<step, mutex, running, manager, serving, serverStopped, nodeVars>>

\* GB28181Node::stop follows the server's.
JoinServer ==
  /\ host = "joinServer"
  /\ manager = "none"
  /\ host' = "stopTask"
  /\ step' = 1
  /\ UNCHANGED <<mutex, running, serverVars, nodeVars>>

\* TaskScheduler::stopAll, one task after the other.
StopTask ==
  /\ host = "stopTask"
  /\ IF step \in Tasks
     THEN /\ host' = "joinTask"
          /\ tasks' = [tasks EXCEPT ![step] = IF @ = "running" THEN "finishing" ELSE "woken"]
     ELSE host' = "stopAdapters" /\ tasks' = tasks
  /\ UNCHANGED <<step, mutex, running, serverVars, events, sipRunning, capabilities, adapters>>

\* Mutant: the scheduler does not wait for a task.
JoinTask_Detached ==
  /\ host = "joinTask"
  /\ host' = "stopTask"
  /\ step' = step + 1
  /\ UNCHANGED <<mutex, running, serverVars, nodeVars>>

JoinTask ==
  /\ host = "joinTask"
  /\ tasks[step] = "none"
  /\ host' = "stopTask"
  /\ step' = step + 1
  /\ UNCHANGED <<mutex, running, serverVars, nodeVars>>

StopAdapters ==
  /\ host = "stopAdapters"
  /\ adapters' = FALSE
  /\ host' = "stopCapabilities"
  /\ UNCHANGED <<step, mutex, running, serverVars, events, sipRunning, capabilities, tasks>>

\* Mutant: one stop too many.
StopCapability_PastFirst ==
  /\ host = "stopCapabilities"
  /\ IF capabilities + 1 > 0
     THEN capabilities' = capabilities - 1 /\ host' = host
     ELSE capabilities' = capabilities /\ host' = "stopSip"
  /\ UNCHANGED <<step, mutex, running, serverVars, events, sipRunning, tasks, adapters>>

\* In reverse order of their start.
StopCapability ==
  /\ host = "stopCapabilities"
  /\ IF capabilities > 0
     THEN capabilities' = capabilities - 1 /\ host' = host
     ELSE capabilities' = capabilities /\ host' = "stopSip"
  /\ UNCHANGED <<step, mutex, running, serverVars, events, sipRunning, tasks, adapters>>

\* SipStack::stop clears the routes and PjsipStackAdapter::stop ends the loop.
StopSip ==
  /\ host = "stopSip"
  /\ sipRunning' = FALSE
  /\ host' = "joinEvents"
  /\ UNCHANGED <<step, mutex, running, serverVars, events, capabilities, tasks, adapters>>

JoinEvents ==
  /\ host = "joinEvents"
  /\ events = "none"
  /\ host' = "destroy"
  /\ UNCHANGED <<step, mutex, running, serverVars, nodeVars>>

\* Mutant: the node is kept.
Destroy_NodeKept ==
  /\ host = "destroy"
  /\ host' = "idle"
  /\ step' = 0
  /\ mutex' = IF mutex = "host" THEN "free" ELSE mutex
  /\ UNCHANGED <<running, serverVars, nodeVars>>

\* The local owner of the node goes out of scope, and the adapters that SIP
\* messages have started since with it; a start that failed unlocks its mutex.
Destroy ==
  /\ host = "destroy"
  /\ host' = "idle"
  /\ step' = 0
  /\ adapters' = FALSE
  /\ mutex' = IF mutex = "host" THEN "free" ELSE mutex
  /\ UNCHANGED <<running, serverVars, events, sipRunning, capabilities, tasks>>

-----------------------------------------------------------------------------
(* Commands: executeManagementCommand                                      *)

\* The host's own command, under the mutex.
Command ==
  /\ host = "idle"
  /\ mutex = "free"
  /\ running
  /\ host' = "command"
  /\ mutex' = "host"
  /\ UNCHANGED <<step, running, serverVars, nodeVars>>

CommandDone(opensStream) ==
  /\ host = "command"
  /\ host' = "idle"
  /\ mutex' = "free"
  /\ adapters' = (adapters \/ opensStream)
  /\ UNCHANGED <<step, running, serverVars, events, sipRunning, capabilities, tasks>>

-----------------------------------------------------------------------------
(* Management thread: ManagementServer::run                                *)

Accept(c) ==
  /\ manager = "accept"
  /\ listening
  /\ clients[c] # "away"
  /\ manager' = "read"
  /\ serving' = c
  /\ UNCHANGED <<host, step, mutex, running, serverStopped, listening, clients, nodeVars>>

\* Back to the test of the loop.
NextClient == manager' = IF serverStopped THEN "none" ELSE "accept"

\* The client's connection is closed.
Dismiss ==
  /\ NextClient
  /\ serving' = NoClient
  /\ clients' = [clients EXCEPT ![serving] = "away"]

AcceptFails ==
  /\ manager = "accept"
  /\ ~listening
  /\ NextClient
  /\ UNCHANGED <<host, step, mutex, running, serving, serverStopped, listening, clients, nodeVars>>

Read ==
  /\ manager = "read"
  /\ clients[serving] # "connected"
  /\ IF clients[serving] = "closed"
     THEN Dismiss
     ELSE manager' = "lock" /\ UNCHANGED <<serving, clients>>
  /\ UNCHANGED <<host, step, mutex, running, serverStopped, listening, nodeVars>>

\* Mutant: a command is run without looking whether the node is there.
Lock_Unchecked ==
  /\ manager = "lock"
  /\ mutex = "free"
  /\ mutex' = "manager"
  /\ manager' = "command"
  /\ UNCHANGED <<host, step, running, serving, serverStopped, listening, clients, nodeVars>>

\* Without a running node the command is answered with an error.
Lock ==
  /\ manager = "lock"
  /\ mutex = "free"
  /\ IF running
     THEN mutex' = "manager" /\ manager' = "command"
     ELSE mutex' = mutex /\ manager' = "reply"
  /\ UNCHANGED <<host, step, running, serving, serverStopped, listening, clients, nodeVars>>

ManagerCommandDone(opensStream) ==
  /\ manager = "command"
  /\ manager' = "reply"
  /\ mutex' = "free"
  /\ adapters' = (adapters \/ opensStream)
  /\ UNCHANGED <<host, step, running, serving, serverStopped, listening, clients,
                 events, sipRunning, capabilities, tasks>>

\* The process dies with all its threads and connections.
Killed ==
  /\ host' = "killed"
  /\ step' = 0
  /\ mutex' = "free"
  /\ running' = FALSE
  /\ manager' = "none"
  /\ serving' = NoClient
  /\ serverStopped' = TRUE
  /\ listening' = FALSE
  /\ clients' = [c \in Clients |-> "away"]
  /\ events' = "none"
  /\ sipRunning' = FALSE
  /\ capabilities' = 0
  /\ tasks' = [t \in Tasks |-> "none"]
  /\ adapters' = FALSE

\* The reply to a client that has hung up kills the process.  A large one, more
\* than the socket buffers, blocks until the client reads.
SendReply(large) ==
  /\ manager = "reply"
  /\ \/ clients[serving] = "gone" /\ Killed
     \/ /\ clients[serving] # "gone"
        /\ IF large
           THEN manager' = "sending" /\ UNCHANGED <<serving, clients>>
           ELSE Dismiss
        /\ UNCHANGED <<host, step, mutex, running, serverStopped, listening, nodeVars>>

\* The client has read all of it, or hung up: part of it was written, and the
\* write returns that.
ReplyTaken ==
  /\ manager = "sending"
  /\ clients[serving] \in {"reading", "gone"}
  /\ Dismiss
  /\ UNCHANGED <<host, step, mutex, running, serverStopped, listening, nodeVars>>

-----------------------------------------------------------------------------
(* SIP event thread and scheduled tasks                                    *)

Dispatch ==
  /\ events = "polling"
  /\ sipRunning
  /\ events' = "dispatching"
  /\ UNCHANGED <<host, step, mutex, running, serverVars, sipRunning, capabilities, tasks, adapters>>

\* An ACK may start an RTP adapter.
DispatchDone(opensStream) ==
  /\ events = "dispatching"
  /\ events' = "polling"
  /\ adapters' = (adapters \/ opensStream)
  /\ UNCHANGED <<host, step, mutex, running, serverVars, sipRunning, capabilities, tasks>>

EventLoopEnds ==
  /\ events = "polling"
  /\ ~sipRunning
  /\ events' = "none"
  /\ UNCHANGED <<host, step, mutex, running, serverVars, sipRunning, capabilities, tasks, adapters>>

TaskState(t, from, to) ==
  /\ tasks[t] \in from
  /\ tasks' = [tasks EXCEPT ![t] = to]
  /\ UNCHANGED <<host, step, mutex, running, serverVars, events, sipRunning, capabilities, adapters>>

\* The interval has passed.
TaskRuns(t)  == TaskState(t, {"waiting"}, "running")
TaskWaits(t) == TaskState(t, {"running"}, "waiting")
TaskEnds(t)  == TaskState(t, {"woken", "finishing"}, "none")

-----------------------------------------------------------------------------
(* Clients of the management socket, and who launches the process          *)
(* (external)                                                              *)

ClientState(c, from, to) ==
  /\ clients[c] \in from
  /\ clients' = [clients EXCEPT ![c] = to]
  /\ UNCHANGED <<host, step, mutex, running, manager, serving, serverStopped, listening, nodeVars>>

Connect(c) == listening /\ ClientState(c, {"away"}, "connected")
Write(c)   == ClientState(c, {"connected"}, "written")
Close(c)   == ClientState(c, {"connected"}, "closed")

\* It reads the reply; or it has sent its command and hangs up.
Await(c)  == ClientState(c, {"written"}, "reading")
HangUp(c) == ClientState(c, {"written", "reading"}, "gone")

Relaunch ==
  /\ host = "killed"
  /\ host' = "idle"
  /\ UNCHANGED <<step, mutex, running, serverVars, nodeVars>>

-----------------------------------------------------------------------------
Host ==
  \/ \E bound \in BOOLEAN : Start(bound)
  \/ StartCapability
  \/ \E enabled \in ManagementMode, ok \in BOOLEAN : StartServer(enabled, ok)
  \/ Stop
  \/ StopServer
  \/ CloseServer
  \/ JoinServer
  \/ StopTask
  \/ JoinTask
  \/ StopAdapters
  \/ StopCapability
  \/ StopSip
  \/ JoinEvents
  \/ Destroy
  \/ Command
  \/ \E opensStream \in BOOLEAN : CommandDone(opensStream)

Manager ==
  \/ \E c \in Clients : Accept(c)
  \/ AcceptFails
  \/ Read
  \/ Lock
  \/ \E opensStream \in BOOLEAN : ManagerCommandDone(opensStream)
  \/ \E large \in BOOLEAN : SendReply(large)
  \/ ReplyTaken

Events ==
  \/ Dispatch
  \/ \E opensStream \in BOOLEAN : DispatchDone(opensStream)
  \/ EventLoopEnds

Task(t) == TaskRuns(t) \/ TaskWaits(t) \/ TaskEnds(t)

Client(c) == Connect(c) \/ Write(c) \/ Close(c) \/ Await(c) \/ HangUp(c)

LifecycleNext ==
  \/ Host
  \/ Manager
  \/ Events
  \/ \E t \in Tasks : Task(t)
  \/ \E c \in Clients : Client(c)
  \/ Relaunch

LifecycleSpec == LifecycleInit /\ [][LifecycleNext]_lifecycleVars

\* The scheduler of the operating system runs every thread that can run.  The
\* host stops a runtime when it likes.
LifecycleFairness ==
  /\ WF_lifecycleVars(Host)
  /\ WF_lifecycleVars(Manager)
  /\ WF_lifecycleVars(Events)
  /\ \A t \in Tasks : WF_lifecycleVars(Task(t))

LifecycleFairSpec == LifecycleSpec /\ LifecycleFairness

\* Clients that send something, or hang up, once they have connected, and that
\* read the reply, or hang up, once they have sent it.
PoliteSpec ==
  /\ LifecycleFairSpec
  /\ \A c \in Clients : WF_lifecycleVars(Write(c) \/ Close(c)) /\ WF_lifecycleVars(Await(c))

-----------------------------------------------------------------------------
(* Properties                                                              *)

LifecycleTypeOK ==
  /\ host \in HostStates
  /\ step \in 0..NumTasks + 1
  /\ mutex \in {"free", "host", "manager"}
  /\ running \in BOOLEAN
  /\ manager \in {"none", "accept", "read", "lock", "command", "reply", "sending"}
  /\ serving \in Clients \cup {NoClient}
  /\ serverStopped \in BOOLEAN
  /\ listening \in BOOLEAN
  /\ clients \in [Clients -> {"away", "connected", "closed", "written", "reading", "gone"}]
  /\ events \in {"none", "polling", "dispatching"}
  /\ sipRunning \in BOOLEAN
  /\ capabilities \in 0..NumTasks
  /\ tasks \in [Tasks -> {"none", "waiting", "running", "woken", "finishing"}]
  /\ adapters \in BOOLEAN

\* When start has failed or stop has returned, nothing of the node is left: no
\* thread, no RTP adapter (one may have been started after stopAllRtpSessionAdapters),
\* no socket, and the mutex is free for the next start.
QuietAfterStop ==
  host = "idle" /\ ~running =>
    /\ manager = "none" /\ ~listening
    /\ events = "none" /\ ~sipRunning
    /\ capabilities = 0
    /\ \A t \in Tasks : tasks[t] = "none"
    /\ ~adapters
    /\ mutex = "free"

NodeWhole ==
  /\ sipRunning
  /\ capabilities = NumTasks
  /\ \A t \in Tasks : tasks[t] \in {"waiting", "running"}

\* A command works on the node of a running runtime, whole: start has finished with
\* it and stop has neither detached nor touched it, although stop does not hold the
\* mutex while it waits for the management thread and stops the node.
CommandOnWholeNode == manager = "command" \/ host = "command" => running /\ NodeWhole

\* The function of a task uses its capability: it runs only between the start and
\* the stop of that capability.
TaskOnLiveCapability ==
  \A t \in Tasks : tasks[t] \in {"running", "finishing"} => t <= capabilities

\* MediaFabricRuntime::stop returns, unless a reply to a client that has hung up
\* kills the process first: it waits for the management thread, which may be waiting
\* for the mutex, for every task, and for the event thread.  It rests on polite
\* clients: one that connects and stays silent keeps the management thread in read,
\* one that does not read a large reply keeps it in write, and stop waiting.
StopReturns == host = "stopServer" ~> host \in {"idle", "killed"}
=============================================================================
