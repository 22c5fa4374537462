# media-fabric in TLA+

media-fabric is a GB/T 28181 node in C++: it registers with upstream platforms,
accepts registrations of downstream devices, exchanges catalogs and opens video
streams in both directions. SIP runs on PJSIP, RTP on JRTPLIB, and a Go service
embeds the node through a C API. The modules of this directory describe the
node's own logic (`src/src`), with the libraries and the network reduced to what
the node relies on. Paths below are relative to the repository's root.

## The system

### Components

| Component | State | Operations |
|---|---|---|
| `MediaManager` (`src/media/MediaManager.cpp`) | free ports (deque and set), allocated ports, sessions by id, running RTP adapters by id | configure, allocate and release a port, create, update, close a session, start and stop an adapter, receive an RTP packet, send a frame |
| Invite capabilities (`src/capabilities/GB28181Capabilities.cpp`) | none of their own | INVITE, ACK, BYE requests; INVITE responses |
| `GB28181Node` | the parts below, `m_started` | start, stop, commands register, invite, bye, catalog |
| Register capabilities, `DigestAuth`, `PeerRegistry` | outstanding challenge per peer; per peer registered, registrationRequested, expiry | REGISTER request and response, periodic refresh |
| Keepalive capabilities | last keepalive per peer | periodic MESSAGE, MESSAGE request |
| Catalog and record capabilities, `BusinessState` | catalog and record items per peer | query, answer, append, clear, save, load |
| `MediaSendCapability`, `StreamFileFrameSource` | the stream file's position, the pending frame | send the next frame to all confirmed streams |
| RTP receive path, `ProgramStream`, `ElementaryStream`, `MediaFrameSink` | per session: last sequence number, payload being collected, frame not yet written | one packet; parse; write a frame |
| `TaskScheduler`, `LifecycleCapability` | one thread per task; started flags | schedule, stop all; start, stop |
| `SipStack`, `SipTransport`, `PjsipStackAdapter` | routes, endpoint, event thread | send, dispatch, start, stop |
| `MediaFabricRuntime`, `ManagementServer`, C API | the running node, a mutex, the management thread | start, stop, command |
| Go service (`go/`) | accounts, refresh tokens, audit records | log in, refresh, log out, user administration, media commands |
| Legacy services (`SipSupService`, `SipSubService`), not built by default | superior: per subordinate registered, expiry, last registration or heartbeat; subordinate: per superior registered | register every 3 s until answered 200, heartbeat every 10 s, REGISTER and heartbeat requests, expiry check |

### Threads and what they share

- the **management thread** (or a Go caller) runs commands, one at a time under
  the mutex of `MediaFabricRuntime`;
- the **SIP event thread** of PJSIP runs every handler, one message at a time,
  and never takes that mutex;
- every **scheduled task** (register refresh, keepalive, media send) has a thread;
- every **RTP adapter** has JRTPLIB's poll thread, which calls
  `MediaManager::receiveRtpPacket`;
- in the legacy superior every **received request** has a thread of its own, and a
  global lock covers the list of subordinates for one access at a time.

`MediaManager`, `PeerRegistry`, `SessionManager` and `BusinessState` have no lock.
Messages between nodes are stateless UDP, except requests sent with a PJSIP
client transaction; they are lost, repeated and overtaken.

### What is hard, and what makes each part correct

The hazards are listed with their lines in `PROJECT.json`. In short:

- *Ports and sessions*: no port is lost or held twice, however commands, INVITEs,
  BYEs, answers, stop and restart interleave; an adapter belongs to a session; a
  confirmed stream has one; dialogs are recorded.
- *Registration*: an answer to a challenge is accepted once, in order, before it
  expires; both sides' flags have a successful authentication behind them, or a
  REGISTER addressed to where none is asked; a registration ends.
- *Catalog*: a catalog reported complete is; a query starts a new snapshot.
- *RTP*: a frame reaches the sink whole and once, in order, never spliced from
  two, or its damage shows; what the sink cannot write is not forgotten.
- *Presence*: keepalives come from accepted peers; whatever failed, both ends agree
  again that a node is registered, in media-fabric and in the legacy services.
- *Lifecycle*: stop returns, if clients let it; nothing runs afterwards; a new node does not meet
  the old one.
- *Streams between two nodes*: after a bye both sides are closed.
- *Snapshot*: what is saved comes back, and a torn file brings nothing else.
- *Accounts*: a refresh token works once, so a login has one line of tokens; a
  deactivated account gains nothing; changes are the work of admins.

## The modules

### MediaManager, StreamNode, PortLease

`MediaManager` holds the component's state and one operator per method. The two
containers of free ports are kept apart, as in the code (`availablePorts` the
deque, `availablePortSet` the set), because each method has to update both.
`sessions[id]` is `NoSession` when the map has no entry; a session keeps the port,
the state string, the CSeq of its INVITE, whether the remote address is known and
the device it shows. `adapters[id]` is the port the RTP adapter of the session is
bound to, which is not always the port of the session.

`StreamNode` adds the threads. Handlers that make several calls into the manager
are split at the calls: `InviteRequest` takes the port, `InviteBadSdp` or
`InviteCreateSession` goes on; `InviteAccepted` copies the session and
`InviteConfirm` writes the copy back; `RequestInvite`, `...Create`, `...Start`,
`...Send` and `RequestBye`, `RequestByeClose` are the commands. `sip` and `mgmt`
are the program counters and local variables of the two threads. `Stop`, `Destroy`
and `Start` are the stop of the node (adapters first, the SIP stack last) and a
new one. Peers are arbitrary: any request and response at any time, repeated or
never. Failing sends and adapters that cannot bind are choices.

`PortLease` is what a port is worth to the rest of the system: it is free, held
by a thread for a session to come, or held by one session. `StreamNode`
implements it with `HolderOf`, which reads the holder of a port off the pool, the
sessions and the threads' local variables.

### Registration

Both sides of REGISTER and its Digest challenge, and the network between them.
`challenges[p]` is the entry of `m_challenges`; nonces are numbered in the order
they are issued, which stands for their being random and never repeated.
`verifyChallenge` keeps the code's order: sweep, look up, compare the nonce, the
nonce count or the single use without one, and the response value. `Nodes` are
media-fabric clients (they answer without qop, because the server's challenge
offers none), `Foreign` devices answer with qop and any nonce count. `Trusted`
peers know the password. `Tick` is a second, or as many as `Lifetime` counts;
`Restart` is a stop and start of the server's node. The handler looks up the endpoint
that the To header names and asks for a Digest only if it is configured with realm and
password: `digest` of a REGISTER says which it is, `network.digest` what the
media-fabric nodes' configuration leads to, and a foreign device addresses either.
`acceptUndigested` is the way past the challenge, and the history `openly` remembers
which peers have gone it, and whether they have since the restart and their last Digest.

### Presence

The same two nodes as in `Registration`, seen over a long time: the register
command, the refresh task and the keepalive task downstream, the two server
capabilities upstream. `Registration` numbers nonces and counts what it accepts, so
its behaviours end; here nonces are recycled and a challenge is a nonce and whether
it has been used, so behaviours go on for ever and one can ask what happens after
the last failure. `RequestRegistration` sets the flag and `RequestSent` sends or
takes the flag back: two actions, since the task threads read it. `UpstreamRestart`
and `NodeRestart` configure the registry anew. Peers outside `Trusted` are not in
the upstream node's configuration (`Configured`), or are not allowed to register, and
are answered 403; a keepalive of theirs would be taken all the same if they are configured. `guarded` says whether the
endpoint asks for Digest. A keepalive is answered, but the sender has no route for
the answer, so it does not learn that it has been forgotten.

### PlatformRegistration

The legacy services, two programs that know each other through messages only. A
platform's `open[p][s]` is a PJSIP transaction: `RegisterProc`, PJSIP's own refresh
(`RefreshTimer`) and `HeartBeatProc` start one, and an answer or a 408 ends it in
`client_cb` or `response_callback`. The superior's threads are counted by where they
are: `marking` have answered 200 and not called `setRegister`, `stamping` have not
called `setLastRegTime`. `stale` stands for the time of the last registration or
heartbeat: whether it is at least `expires` old, which is so of the 0 it starts with
(an uptime below `expires` at the first registration is left out).
`GlobalCtl::getAuth` returns nothing for a platform it does not know; the services are
built without optimisation (`cmake/CMakeLists.txt:23` of each), and `AsksForDigest` takes
either value. `pjsip_auth_srv_verify` accepts any nonce, so a REGISTER is with or without
credentials, and no more.

### Catalog

`RequestCatalog` sends and `StartSnapshot` clears: two actions, since the SIP
thread can run between them. `CatalogResponse` is
`CatalogClientCapability::handleSipRequest` with `appendCatalog`, `CatalogQuery` is
the downstream's answer: one MESSAGE per device, each with the total. A message is
a member of a set, delivered any number of times in a faulty network.

### RtpStream

One stream, from the pending frame of `MediaSendCapability` to the sink of the
receiver. A byte is the number of its frame and its offset; byte 0 stands for the
pack and PES headers. `Parses` is what `parseProgramStreamPayload` and
`parseElementaryStream` accept: headers first, a PES with a length ends with it,
one without (frames above 65,507 bytes) runs to the end, and headers inside video
data are no NAL unit. `ReceiveRtpPacket` is the whole of `receiveRtpPacket` but
the codec statistics. A write of `FileMediaFrameSink` appends to a file and is `whole`;
or `torn`, refused with any beginning of the frame in the file already; or `short`: what
was still in the stream's buffer is lost when it is closed, and `writeFrame` returns
true all the same. `file` has a piece for each write, `written` the frames reported as
written.

### NodeLifecycle

The host thread (`main`, or the Go service through the C API) starts and stops the
runtime and issues commands; `host` says where in `start` or `stop` it is, with one
action per call that another thread can interleave with. `manager` is the thread of
`ManagementServer::run`, which accepts one client, reads its command, waits for
`m_mutex` and answers. `events` is PJSIP's thread, `tasks[t]` the thread of a
scheduled task, which the start of capability `t` schedules: the capabilities that
schedule nothing start and stop between these and are left out. A start that fails
at the management socket stops the node while it still holds the mutex, as the code
does. `SipStack::stop` clears the routes while the event thread may be looking
through them: the routes are not represented, so no property would notice.

The reply is a plain `write` on the client's socket (`src/src/core/ManagementServer.cpp:21`).
A client that has sent its command may read (`Await`), hang up (`HangUp`) or do neither.
A reply that the socket's buffer does not take (`large`) waits in `sending` until the
client reads or hangs up. A reply to a client that has hung up already raises SIGPIPE,
which neither `main` nor the Go service ignores: `Killed` ends the process with all its
threads, and `Relaunch` is whoever starts it again.

### InviteDialog

Calls between two nodes, with handlers as single steps and without ports:
`StreamNode` looks at one node in detail, this module at two from further away.
The caller's INVITE has a PJSIP client transaction (`transaction`), which repeats
the INVITE until an answer comes, keeps further answers to itself after a
rejection, and hands everything else to `InviteClientCapability`. The callee has
no transaction: every repetition is a new INVITE to `InviteServerCapability`.
`toCallee` and `toCaller` are the messages in flight in the order they were sent;
`network` says for each behaviour whether they are lost or overtake each other,
and how many INVITEs are repeated. When a transaction times out, PJSIP passes
`sendCallback` a timer where it expects a received message (the source of the event
is in `3rd/src/pjsip/sip_transaction.c`). What the code reads there is undefined;
`Timeout` lets it return or end the process. The answer to a BYE is not modelled:
no route takes it.

### Accounts

The Go service's requests, one action per database call, since `net/http` runs
every request in a goroutine of its own. `account` and `refresh` are the tables
`users` and `refresh_tokens`; `request[h]` is the program counter and the local
variables of a running request. `Login` ends with `FindByUsername`, `Refresh` with
`UseRefresh`, `RefreshFind` with `Find`, and `Tokens` is the INSERT of the next
refresh token and the answer. `AdminRequest` is the look-up of the middleware
`auth` and the check of `admin`, and `Create` and `Update` the INSERT and UPDATE
after it. `Ends` is every error return, a client that goes away (the database
calls run under the request's context) and a killed process; `answered` is FALSE
when a statement takes effect and its answer is lost. `sessions` numbers the
logins and `seen` collects what a request's user has been, both for the properties.

### BusinessState

Catalogs, records and the snapshot file, character by character where the format
cares: `escapeValue`, `unescapeValue`, `splitFields`, `appendItemLine`, `decodeItem`,
`serialize` and `restore` are the functions of the same names, one fold for each of
their loops, and `file` is the text in the file. `Cut` is what splitting a line at tabs
and reading a text by lines have in common; `saved` remembers the items whose saving
wrote the file. `Save` leaves any beginning of the text,
which is what a full disk or a crash between the truncation and the last write can
leave. `CatalogResponse` and `RecordResponse` are the handlers on the SIP thread,
`Load` is what `--business-query` does with a file. Three attributes stand for
eighteen: one that a cut cannot reach without being noticed, and the last of each of
the two line formats, which it can.

### SequenceFold

`Fold` is a loop over a sequence, from its first element to its last. Its turn is a
function, a value, where the community modules' `FoldLeft` takes an operator, because
facts about a value hold for every value that can be put in its place, and the provers
can use them. `BusinessState` and `RtpStream` use it.

### Planned

1. The answering side of record queries, which is that of `Catalog` without a count.
2. A second device and two viewers in `RtpStream`, for the fan-out of a frame.
3. The catalog of the legacy superior, whose `GetCatalog` waits for what the threads of
   `SipDirectory` append to a list without a lock.

Abstract specifications worth stating: a dialog whose ends open and close, which
`InviteDialog` implements on an orderly network; a row of tokens with one head, for
`Accounts`. Every safety property that a run checks is a theorem; those of these
extensions are the theorems to come.

## What the runs check

`MC*` modules give constants their values and symmetry sets; everything else is in
the `.cfg` files. The type invariant of a module is its `TypeOK`, or carries the name of
what it is about where one module of proofs is about two (`AccountsTypeOK`,
`CatalogTypeOK`, `RtpTypeOK`, `LifecycleTypeOK`).

| Run | Shows | Bounds |
|---|---|---|
| `stream_node` | types; `PoolPartition`, `PortOwnership`, `NoOrphanAdapter`, `StreamsBacked`; that `StreamNode` implements `PortLease` | 3 ports in two overlapping ranges, 2 server and 2 client dialogs, CSeq up to 2 |
| `registration` | types; `AcceptedOnceInOrder`, `AcceptedInTime`, `RegistrationsGrounded`; `RequestServed` while nothing fails | one node that is asked for a Digest or is not, one foreign device that addresses either endpoint, nonce counts to 2; faulty: one tick, one call each, 2 nonces (1 where the node is not asked); not faulty: 2 calls each, 4 nonces |
| `presence` | types; `KeepaliveGrounded`; `PresenceRestored` | one node the upstream node lets register and one it does not, 2 register commands, one fault, 3 nonces; with and without Digest |
| `platform_registration` | types; `SplitExplained`; `PeersReconcile` | one subordinate in each of its 8 configurations, one transaction of each kind, 2 threads of the superior, 2 faults |
| `catalog` | types; `CompleteIsWhole` | 2 peers, 2 devices, 2 queries each, one change of a file |
| `catalog_snapshot` | violation: early answers are cleared with the old list | one peer, one query, nothing lost |
| `rtp_stream` | types; `SmallFramesIntact`, `DamageCounted`, `SinkKeepsVideo`, `FramesWholeInOrder` | 4 frames of 3, 3, 2 and 3 packets, one without a length; a sink with two failing writes, refused with any part of the frame in the file, or cut anywhere and unnoticed; a sender with the SSRC of the SDP and one with another; a network that loses, one that loses and overtakes, one that delivers but refuses two packets, one that loses and refuses one |
| `invite_dialog` | types; `StreamGrounded`; `EndsAgree`; `ByeClosesConfirmed` | two calls to one device; a network without fault, one that repeats an INVITE, and one that also loses and overtakes |
| `invite_dialog_bye` | violation: a bye before the answer does not close the callee | one call, one repetition, no fault |
| `accounts` | types; `SessionExclusive`, `RequestsAuthorized`, `SessionsOnlyEnd` | the first admin and one user, 2 requests at a time, 2 logins, 3 refresh tokens, 3 changes |
| `business_state` | types and unique ids; `RoundTrip`; `TornFileIsPrefix` | 2 peers, 2 items, attributes with every special character, 2 messages, a save cut anywhere |
| `node_lifecycle` | types; `QuietAfterStop`, `CommandOnWholeNode`, `TaskOnLiveCapability`; `StopReturns` when clients write or hang up, and then read or hang up | 2 tasks, 2 clients of the management socket, with and without it; replies that fit the socket and that do not |

Why the bounds are enough. *Streams*: the hazards are between one handler and
one command, over one dialog or two that compete for the last port; with two
dialogs of each kind the three ports run out, and two CSeq values tell a repeated
INVITE from a new one. *Registration*: two nonces give an old and a current
challenge, two nonce counts an old and a current answer; repeated delivery is
unbounded. *Presence*: a fault is a lost or repeated message, a failed send or a restart
of an end, and what has to recover from it goes on without bound; two commands
overtake each other, and the refresh overtakes both; three nonces are one of each of
the three registrations in progress. *Platforms*: two faults are a crash and a message
lost or late on top of it; platforms share the superior's process and its
lock, which no step keeps, so a second one adds nothing (a run with a second
transaction to register and one fault, too large to keep, found the same). *Catalog*: two overlapping queries, and two devices so that a complete
catalog needs more than one answer. *RTP*: frames of one packet more and less than
their neighbours, a large one between small ones, and a sequence number that starts
at the wrap; two failing writes, so that one frame is refused twice, or refused and then
cut; `SequenceMod` is 8 instead of 2^16 and is larger than the packets of
any frame, as in the code, so a loss inside a frame cannot hide behind a full turn.
*Accounts*: two requests meet in every pair of their steps; three tokens are a login,
its refresh and another login or refresh; a third login or admin would repeat what
the second does. *Snapshot*: two messages give lists of up to two items, of one or two
peers, replaced or not; the text is cut at every character. *Calls*: two calls to one device make `bye` ambiguous; one repeated INVITE is
enough for a session to be opened twice, or after its end. *Lifecycle*: one task being joined while the other is still to come; one client
being served while the other waits; start and stop repeat without bound.

Fairness. `registration` has weak fairness of `Receive`: a message that has
arrived is handled, because PJSIP's event loop polls for as long as the node runs.
`RequestServed` is about behaviours in which nothing is lost. It says nothing of a network that loses messages;
there the periodic refresh repeats the REGISTER. `node_lifecycle`
has weak fairness of every thread: the operating system
runs what can run, a command and a handler end (they wait for nothing but the
mutex), and an RTP or SIP send does not block. The mutex needs no strong fairness,
since the host thread that stops takes it no more. Two assumptions are about the
clients of the management socket (`PoliteSpec`), and the code does not enforce them, as it
sets no time limit: one that has connected writes or hangs up, and one that has written
reads its reply or hangs up, as `mfcli` does. No client has to come, and nobody has to
launch the process again. `presence` has weak fairness of
messages that are not lost, of the two tasks, which run for as long as the node, and of a
command under way; no command, restart or lapse has to come. `platform_registration` has it
of messages, transactions, the superior's threads and its timer once it runs, the
subordinate's timers and time; the event loop need not end, and neither program
need start again. The runs of `InviteDialog`
have weak fairness of both event loops and of the end of a command that has sent
its BYE; no timer and no command has to come.

`CHECK_DEADLOCK` is off where the system may stop: the stream file ends, requests
are bounded and every message is delivered.

### Disagreements with the repository's documents

- `SnapshotIsWhole`: the comment at `src/core/GB28181Node.cpp:382` has a query start
  a new snapshot and answers appended; the clearing comes after the sending.
- `ByeClosesBoth`: `docs/milestone6-validation.md:29` wants both sessions closed after
  a bye. `requestBye` takes a call that is not answered yet and leaves its INVITE
  transaction alone, which may repeat the INVITE behind the BYE.

### Limits of what holds

`PortOwnership` is about sessions, not sockets: `createSession` replaces the session
of a repeated INVITE, with a new port that the 200 advertises, and leaves the RTP adapter
on the old port, which goes back to the pool (`docs/wireshark.md:159` wants the port of
`m=` to be the one RTP uses).

`StopReturns` needs polite clients: the management thread reads from the client it has
accepted, and writes to it, without a limit of time, and `stop` joins it. A client that
connects and stays silent, or that sends its command and does not read a reply larger
than the socket's buffer, keeps `stop` waiting for ever. And it says that `stop` returns
*or the process is gone*: a client that sends its command and hangs up before the reply is
written kills the process by SIGPIPE, in the middle of `stop` or at any other time.
`QuietAfterStop` is about a stop that returns; of a killed process the operating system
leaves nothing but files, the management socket's name among them.

`RegistrationsGrounded` is about Digest only where Digest is asked. The To header of the
REGISTER decides (`src/src/capabilities/GB28181Capabilities.cpp:941`): a device that is
configured and allowed to register, and that puts there its own id, or any other that
names no endpoint with realm and password, is registered, or unregistered, without one.
Of a peer whose latest REGISTER was such a one the property says nothing, until it
authenticates or the node restarts. A media-fabric node that is configured with such an
id for its upstream believes itself registered by such a REGISTER (`BeliefGrounded`).

`SinkKeepsVideo` is about what is kept and where it stands, not about a perfect file. A
write that is refused after part of the frame has reached the file, which is open for
appending (`src/src/media/MediaFrameSink.cpp:52`), is repeated whole: the beginning stands
there twice, once per attempt. A failure that shows only when the file is closed (line 68)
is not noticed, and the end of that frame is lost for good although `writeFrame` has
returned true.

`PresenceRestored` is about a request that stands: a repeated register command whose
REGISTER cannot be sent takes back the first one too, and the refresh ends. The converse
does not hold at all: the upstream node keeps a peer registered that is gone, since
nothing reads the expiry that `markRegistered` stores. In the legacy superior the expiry is read
by a timer which `main` starts after `EventMsgHandle::init`, that is after
`event_base_dispatch` has returned (`SipSupService/src/main.cpp:106`), while
`docs/signaling-flow.md:70` has it judge every registration: `PeersReconcile` therefore
claims expiry only for behaviours in which the timer runs. A second limit of it is
what it assumes of the configuration: both ends set to Digest or both not, as the
example files are.

`SmallFramesIntact` and `DamageCounted` are claimed for loss in order. With overtaking, repetition, or
loss on top of refused packets a frame may be scrambled and still have the length
its header announces; the code has no reordering buffer (JRTPLIB hands packets over
as they arrive). A frame whose sending breaks off
leaves its RTP timestamp to the next frame of the stream, since only the marker
packet carries an increment, while `docs/wireshark.md:177` wants one timestamp for each
frame. `FramesWholeInOrder` therefore excepts behaviours in which the network fails
after a refused packet (`Splices`): if the first packet of the frame that follows is
lost, the receiver completes the frame broken off with the rest of it. In all others no
frame is put together from two. `DamageCounted` cannot see a run of lost packets that is
a multiple of the 65,536 sequence numbers; the theorem assumes that no frame is as long
as that (`FramesFitSequence`: 91 MB in packets of 1,400 bytes). `CompleteIsWhole` is claimed while catalog files stay as they are:
when a file changes between two overlapping queries, the answers can add up to a
complete catalog that never was. `EndsAgree` is claimed for calls whose INVITE is not
repeated: the answer 403 to a repetition (the first took the last port) closes the
call at the caller while the callee keeps it. A new query leaves the report of the previous one
standing until its first answer.

The sending adapter leaves the SSRC to JRTPLIB, while `docs/wireshark.md:180` wants
that of the SDP and the receiver drops any other: two media-fabric nodes cannot
exchange video when `y=` is present, and what `rtp_stream` shows of the receiver is
about senders that keep to the SDP.

`TornFileIsPrefix` is all a load can promise: the file has no end mark, so one cut
at the end of a line, or in the last attributes of one, loads without an error. A
peer whose list is empty is not in the file (`RoundTrip` says so).

`SessionExclusive` allows a session to end where a step fails between the use of a
token and the storing of the next; the user logs in again. A logout that comes
after a refresh has used the token finds it revoked, and the refresh stores its
successor: the session goes on, and the logout is answered 204 all the same. A
deactivated user's access token reaches no handler, but a request that has passed
`auth` finishes.

## What is proved

| Module | About | Theorems |
|---|---|---|
| `StreamNodeProofs` | `StreamNode` | `TypeCorrect`, `PoolSafety`, `OneHolder`, `AdapterSafety`, `BackedSafety`, `Refinement` |
| `RegistrationProofs` | `Registration` | `TypeCorrect`, `OnceInOrder`, `NoLateAnswer`, `RegistrationGrounded` |
| `NodeProofs` | `NodeLifecycle` | `LifecycleTypeCorrect`, `NothingLeft`, `CommandSafety`, `TaskSafety` |
| | `Presence` | `TypeCorrect`, `KeepaliveSafety` |
| `RtpStreamProofs` | `RtpStream` | `RtpTypeCorrect`, `FrameSafety`, `SmallFramesSafety`, `DamageSafety`, `SinkSafety` |
| `BusinessStateProofs` | `BusinessState` | `BusinessTypeCorrect`, `RoundTripSafety`, `TornFileSafety` |
| `ExchangeProofs` | `Catalog` | `CatalogTypeCorrect`, `Completeness` |
| | `InviteDialog` | `TypeCorrect`, `Grounding`, `AgreeSafety` |
| `ServicesProofs` | `Accounts` | `AccountsTypeCorrect`, `OneHeir`, `Authorized`, `DeactivationHolds` |
| | `PlatformRegistration` | `TypeCorrect`, `SplitSafety` |
| `SequenceFoldProofs` | `SequenceFold` | the laws of `Fold` and of beginnings of sequences, which `RtpStreamProofs` and `BusinessStateProofs` rest on |

They hold for every value of the constants that satisfies the modules' named
assumptions (finite sets where a cardinality is taken, distinct model values,
bounds that are natural numbers), with any number of ports, dialogs, peers, devices,
frames, messages, items and characters. `DamageSafety` assumes `FramesFitSequence` besides.

*StreamNode.* The invariants are inductive only together: that a released port was
allocated follows from the holder's claim, and that no other holder is left with it
from exclusion. `IInv` is the conjunction of types, partition, no leak, exclusion,
adapters and of what the two threads remember across their gaps (a frame in `create`
holds an allocated port; a frame in `start` or later names a session it created).
One lemma per method of `MediaManager` says what it preserves, and one step per
action cites them.

`BackedSafety` needs three facts more (`BackedInv`): a handler that is about to confirm a
stream holds the Call-ID of an INVITE that was sent; the INVITE about to be sent offers
the port its adapter listens on; and no session that an INVITE from outside opened names a
device, so `bye` never picks one. `Refinement` rests on `HolderFacts`: each port has exactly one holder,
so `HolderOf` reads the same one however it is evaluated (the names of the two threads
are no session ids, `HolderNames`). Every action then moves the ports it touches by one
step of `PortLease`, or leaves all holders as they are.

*Registration.* Replays are excluded because everything accepted is at most the
current nonce and nonce count of its peer, or its nonce is gone; a nonce is never
issued again. So `IInv` relates the history `acceptLog` to `challenges`: each
accepted answer is older than the counter of the next nonce, and if its nonce is
outstanding, the challenge's count (or its used flag) covers it. Grounding needs
that a 200 in flight to a node has a REGISTER behind it that was taken, with an accepted
Digest if the node's configuration leads to an endpoint that asks for one (`OkGrounded`,
`NodesAddress`), and that what was taken stays taken (`TakenStays`).

*Presence* (in `NodeProofs`). That the upstream node hears accepted peers only goes through three facts
about what is in flight: a 200 and a keepalive are of an accepted peer, and so is a peer
that believes itself registered. Every one of them survives restarts, since
`admitted` only grows. The types need no argument but that an accepted peer is one
that may register.

*PlatformRegistration.* A belief is backed when it is set if the 200 in flight is, and the
200 was backed when it was sent, by the thread that sent it. So `Explained` says of
every 200 in flight what `SplitExplained` says of every belief; one to a heartbeat was
sent by a superior that had the platform registered. The thread hands the backing to
`registered`, and restart and expiry hand it to `dropped`.

*Catalog.* While no file has changed, an answer in flight announces exactly the
size of its peer's file and carries a device of it, so what is listed is a subset
of the file, and a subset of a finite set with as many elements is the set. The
lists have no duplicates, so their length is a cardinality.

*InviteDialog.* Grounding needs to know that what is in flight was sent: a 200 by a
callee that has accepted, an ACK by the caller. Loss and overtaking take messages
out of the queues and add none (`RemoveAtFact`).

`AgreeSafety` is about who has the last word. On a network without fault a call has at most
one INVITE in flight, ahead of its BYE, and one answer. `CallInv` says, for every way the
queues can stand, what the ends will be once they are empty: a call that the caller
has not ended is at the callee already, or its INVITE or answer is on the way; one that
it has ended is gone at the callee, or the BYE is on the way and nothing comes after it.
When nothing is in flight, only the two states that agree are left.

*RtpStream.* What is in flight is in every network a chunk of a frame that the sender has come
to (`WireInv`). `SmallFramesSafety` follows because the bytes collected of a frame ascend
(`AscendInv`), begin with the headers and end where the announced length does: as many
distinct offsets below the length as there are bytes are all of them. `DamageSafety`
follows because the sequence numbers of two packets of a frame tell the number of
packets between them up to full turns (`Apart`), so a payload in which every packet
followed the one before has no hole. `FrameSafety` has two reasons for one picture per
frame: while no packet is refused, frame and timestamp advance together (`TimestampInv`),
so a payload of one timestamp is of one frame; in a network without fault, what was begun
is continued byte by byte or begun anew with headers (`UnbrokenInv`), and `Parses`
accepts further headers only where the frame before them is complete. Order of frames
is order of packets (`OrderInv`). `SinkSafety` follows the lists: writing appends to
`written` what was kept and adds the frame to `accepted`, or keeps both; and every piece
of the file belongs to one write, reported or still to come, in order, with a beginning
of what that write was given (`PieceInv`), which stays a beginning when more video is kept.

*BusinessState.* `BusinessInv` is the types and `FileInv`: the file is a beginning of the
text of the saved entries, these are what messages carried, and none of them repeats an item
of a catalog. The types alone are not inductive, because a load takes the catalogs from
the file, and that a file names no item twice is known only of what it was written from.
From `FileInv` the types follow through what a file gives back, whole or torn, which is the
work of the proof. It goes the way of the format:

1. An escaped value has no tab and no line end in it (`EscapedClean`). What is read of a
   beginning of it is a beginning of the value, or stops inside an escape and is refused
   (`ReadEscapedValue`).
2. Of parts that a mark ends, cutting a beginning gives the first parts and a beginning
   of the next one (`CutEnded`). Cutting is used twice, for the lines of the file and for
   the fields of a line.
3. So a beginning of a line that `decodeItem` accepts has the kind, the peer and the id of
   the entry, and beginnings of the last attributes. A beginning of the file that
   `restore` accepts gives the first entries and at most one such (`RestoreTorn`), and the
   whole file gives them all (`RestoreWhole`): with `FileInv` the first is
   `TornFileSafety`.
4. Entries are grouped by kind and peer again. What was written of the maps gives the
   lists of the maps that are not empty (`GroupedEntries`), since `PeerIds` names each
   peer once: with `RestoreWhole` this is `RoundTripSafety`. Names that the entries do
   not repeat are not repeated in the lists (`UniqueLists`).

*SequenceFold.* `Fold`, and with it the functions of `BusinessState` and `RtpStream` that
go through sequences, is a recursive function on the length of a sequence. That such
a function exists, and what it does for one element more, is proved from the existence
of a smallest element (`Smallest`, from `WFMin` of the library's well-founded
induction, which takes sets instead of operators): a recursion that fails somewhere
fails at a first place (`RecursionExists`, `RecursionUnique`). `FoldLaws` says the same of
`Fold`, for every set of values and every turn on it. In the same way a set of sequences that
has the empty one, and with each sequence those of one element more, has all
(`SequenceInduction`): the set takes the place of the predicate that the library's
induction theorems have as a parameter.

*Accounts.* That a login has one heir needs a number for it: sessions in tokens and
running requests are at most the number of logins, and a new login takes the next, so
no claim is on it yet. A usable token and a request about to store one are two claims
on the same session, and each step hands the claim on or drops it. What a request may
do rests on `seen`, which always has the current state of its user in it
(`SeenCurrent`).

*NodeLifecycle* (in `NodeProofs`). `LifecycleInv` says for every place of the host thread what of the node
exists there, who holds the mutex, and that the management thread is gone before
the first task is stopped. From the last follows that no command meets a node that
is being taken apart, although `stop` does not hold the mutex then. A killed process
is at the beginning again (`KilledStep`).

Only model-checked: liveness (`RequestServed`, `PresenceRestored`, `PeersReconcile`, `StopReturns`,
`ByeClosesConfirmed`; TLAPS has no support for fairness and ENABLED that would carry
it), and the two disagreements with the documents, which are counterexamples. Every
safety property of the runs is proved.

## What is not modelled

- SIP, SDP, MANSCDP and configuration text: handlers start from parsed fields, and
  from whether parsing succeeded.
- Torn reads and writes of the unlocked containers. Each method of a component is
  one step; races inside one are undefined behaviour that a thread sanitizer
  finds and a model of the intended methods does not.
- Updates of a peer's address from its Contact.
- The send that `MediaSendCapability::onStart` makes on the starting thread beside its
  task (they meet only if it takes longer than the task's interval), and starting or
  stopping one runtime from two threads, which the repository does not do.
- Errors reading the catalog file, the answering side of record queries, the JSON of
  `BusinessQueryService`.
- Codec statistics, RTP header extensions and padding, RTCP.
- Of the Go service: passwords, signatures, configuration, the audit log (whose
  failures are ignored) and the cgo calls.
- The C API's buffers, the logger, the self-test.
- Of the legacy services: catalog, records, streams, the thread pool and the control
  client; Digest configured at one end only. Their streams are those media-fabric
  has taken over and rewritten.
- The vendored libraries under `3rd/`, which are nearly all of the repository's 479,000
  lines. What the node relies on of PJSIP and
  JRTPLIB is in the modules and marked external in `PROJECT.json`.
