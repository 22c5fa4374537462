----------------------------- MODULE InviteDialog -----------------------------
(***************************************************************************)
(* Video calls between two nodes: the caller invites a device of the       *)
(* callee and ends the call with bye.                                      *)
(*                                                                         *)
(*  - caller, commands: requestInvite and requestBye;                      *)
(*  - caller, SIP thread: InviteClientCapability, behind the PJSIP client  *)
(*    transaction of the INVITE, which repeats it, swallows answers after  *)
(*    a rejection, and times out;                                          *)
(*  - callee, SIP thread: InviteServerCapability, which has no transaction *)
(*    and handles every INVITE it receives;                                *)
(*  - network: UDP.  ACK, BYE and answers are sent once.                   *)
(*                                                                         *)
(* Handlers are atomic here; StreamNode takes them apart.                  *)
(***************************************************************************)
EXTENDS Naturals, Sequences, SequencesExt

CONSTANTS
  Calls,     \* Call-IDs
  NoCall,    \* no bye is under way
  DeviceOf,  \* the device each call asks for
  Networks   \* [lossy, overtakes, repeats]: bound on repeated INVITEs

ASSUME DialogAssumption ==
  /\ NoCall \notin Calls
  /\ Networks \subseteq [lossy : BOOLEAN, overtakes : BOOLEAN, repeats : Nat]

VARIABLES
  network,      \* what the network does in this behaviour
  up,           \* whether the caller's process is there
  caller,       \* media session of each call at the caller
  transaction,  \* its client transaction
  repeats,      \* INVITEs repeated so far
  bye,          \* requestBye has sent the BYE of this call
  callee,       \* media session of each call at the callee
  adapters,     \* calls with an RTP adapter at the callee
  toCallee,     \* messages to the callee
  toCaller,     \* messages to the caller
  answered,     \* history: calls the callee has accepted
  acked,        \* history: calls with an ACK
  ended         \* history: calls with a BYE, and the state they were in

callerVars == <<up, caller, transaction, repeats, bye, acked, ended>>
calleeVars == <<callee, adapters, answered>>
vars == <<network, up, caller, transaction, repeats, bye, callee, adapters,
          toCallee, toCaller, answered, acked, ended>>

Request  == [method : {"INVITE", "ACK", "BYE"}, call : Calls]
Response == [ok : BOOLEAN, call : Calls]

Init ==
  /\ network \in Networks
  /\ up = TRUE
  /\ caller = [c \in Calls |-> "none"]
  /\ transaction = [c \in Calls |-> "none"]
  /\ repeats = 0
  /\ bye = NoCall
  /\ callee = [c \in Calls |-> "none"]
  /\ adapters = {}
  /\ toCallee = <<>>
  /\ toCaller = <<>>
  /\ answered = {}
  /\ acked = {}
  /\ ended = [c \in Calls |-> "no"]

Send(method, c) == toCallee' = Append(toCallee, [method |-> method, call |-> c])

-----------------------------------------------------------------------------
(* Commands of the caller                                                  *)

\* requestInvite, once the session and its adapter are there and PJSIP has taken
\* the INVITE; its other ends leave nothing behind.
RequestInvite(c) ==
  /\ up
  /\ bye = NoCall
  /\ transaction[c] = "none"
  /\ caller' = [caller EXCEPT ![c] = "requested"]
  /\ transaction' = [transaction EXCEPT ![c] = "calling"]
  /\ Send("INVITE", c)
  /\ UNCHANGED <<network, up, repeats, bye, calleeVars, toCaller, acked, ended>>

\* Mutant: any call may be ended.
RequestBye_AnyCall(c) ==
  /\ up
  /\ bye = NoCall
  /\ bye' = c
  /\ ended' = [ended EXCEPT ![c] = caller[c]]
  /\ Send("BYE", c)
  /\ UNCHANGED <<network, up, caller, transaction, repeats, calleeVars, toCaller, acked>>

\* requestBye finds the one session of the device, whatever its state, and sends
\* the BYE ...
RequestBye(c) ==
  /\ up
  /\ bye = NoCall
  /\ {d \in Calls : caller[d] # "none" /\ DeviceOf[d] = DeviceOf[c]} = {c}
  /\ bye' = c
  /\ ended' = [ended EXCEPT ![c] = caller[c]]
  /\ Send("BYE", c)
  /\ UNCHANGED <<network, up, caller, transaction, repeats, calleeVars, toCaller, acked>>

\* ... and closes it.  The transaction of the INVITE goes on.
CloseSession ==
  /\ up
  /\ bye # NoCall
  /\ caller' = [caller EXCEPT ![bye] = "none"]
  /\ bye' = NoCall
  /\ UNCHANGED <<network, up, transaction, repeats, calleeVars, toCallee, toCaller, acked, ended>>

-----------------------------------------------------------------------------
(* Client transaction of the INVITE (PJSIP)                                *)

Repeat(c) ==
  /\ transaction[c] = "calling"
  /\ repeats < network.repeats
  /\ repeats' = repeats + 1
  /\ Send("INVITE", c)
  /\ UNCHANGED <<network, up, caller, transaction, bye, calleeVars, toCaller, acked, ended>>

\* sendCallback takes the timer for a received message and reads beyond it: it finds
\* no message and returns, or the process ends.
Timeout(c) ==
  /\ transaction[c] = "calling"
  /\ \/ /\ transaction' = [transaction EXCEPT ![c] = "terminated"]
        /\ UNCHANGED <<up, caller, bye>>
     \/ /\ up' = FALSE
        /\ caller' = [d \in Calls |-> "none"]
        /\ transaction' = [d \in Calls |-> "terminated"]
        /\ bye' = NoCall
  /\ UNCHANGED <<network, repeats, calleeVars, toCallee, toCaller, acked, ended>>

\* A rejected transaction has waited for repeated answers long enough.
Expire(c) ==
  /\ transaction[c] = "completed"
  /\ transaction' = [transaction EXCEPT ![c] = "terminated"]
  /\ UNCHANGED <<network, up, caller, repeats, bye, calleeVars, toCallee, toCaller, acked, ended>>

-----------------------------------------------------------------------------
(* InviteClientCapability::handleSipRequest                                *)

\* A 200 to a call with a session confirms it, unless the ACK cannot be sent.
Confirm(c, sent) ==
  /\ caller' = IF caller[c] = "none" THEN caller
               ELSE [caller EXCEPT ![c] = IF sent THEN "confirmed" ELSE "none"]
  /\ IF sent THEN Send("ACK", c) /\ acked' = acked \cup {c}
             ELSE UNCHANGED <<toCallee, acked>>

\* Whether an ACK goes out: a session's does, but for faults of the socket, and the
\* one to a 200 without a session if the device is itself known as a peer.
MaySend(c) == IF caller[c] # "none" /\ ~network.lossy THEN {TRUE} ELSE BOOLEAN

ReceiveOk(c, sent) ==
  /\ transaction[c] \in {"calling", "terminated"}
  /\ Confirm(c, sent)
  /\ transaction' = [transaction EXCEPT ![c] = "terminated"]

\* The transaction acknowledges a rejection itself.
ReceiveRejection(c) ==
  /\ transaction[c] \in {"calling", "terminated"}
  /\ caller' = [caller EXCEPT ![c] = "none"]
  /\ IF transaction[c] = "calling"
     THEN /\ transaction' = [transaction EXCEPT ![c] = "completed"]
          /\ Send("ACK", c)
          /\ acked' = acked \cup {c}
     ELSE UNCHANGED <<transaction, toCallee, acked>>

\* After a rejection the transaction keeps every answer to itself.
ReceiveCompleted(c) ==
  /\ transaction[c] = "completed"
  /\ Send("ACK", c)
  /\ acked' = acked \cup {c}
  /\ UNCHANGED <<caller, transaction>>

Deliverable(queue) == IF network.overtakes THEN 1..Len(queue) ELSE {i \in {1} : queue # <<>>}

CallerReceives ==
  /\ up
  /\ \E i \in Deliverable(toCaller) :
       LET c == toCaller[i].call
       IN  /\ \/ toCaller[i].ok /\ \E sent \in MaySend(c) : ReceiveOk(c, sent)
              \/ ~toCaller[i].ok /\ ReceiveRejection(c)
              \/ ReceiveCompleted(c)
           /\ toCaller' = RemoveAt(toCaller, i)
  /\ UNCHANGED <<network, up, repeats, bye, calleeVars, ended>>

-----------------------------------------------------------------------------
(* InviteServerCapability::handleSipRequest                                *)

Answer(ok, c) == toCaller' = Append(toCaller, [ok |-> ok, call |-> c])

\* A repeated INVITE replaces the session, not its adapter; without a port the
\* answer is 403.
ReceiveInvite(c, port) ==
  /\ Answer(port, c)
  /\ IF port THEN /\ callee' = [callee EXCEPT ![c] = "requested"]
                  /\ answered' = answered \cup {c}
             ELSE UNCHANGED <<callee, answered>>
  /\ UNCHANGED adapters

\* Mutant: an ACK needs no session.
ReceiveAck_Unchecked(c, starts) ==
  /\ callee' = [callee EXCEPT ![c] = "confirmed"]
  /\ adapters' = adapters \cup {c}
  /\ UNCHANGED <<toCaller, answered>>

ReceiveAck(c, starts) ==
  /\ IF callee[c] = "none"
     THEN UNCHANGED <<callee, adapters>>
     ELSE IF starts \/ c \in adapters
          THEN /\ callee' = [callee EXCEPT ![c] = "confirmed"]
               /\ adapters' = adapters \cup {c}
          ELSE /\ callee' = [callee EXCEPT ![c] = "failed"]
               /\ UNCHANGED adapters
  /\ UNCHANGED <<toCaller, answered>>

\* Mutant: a BYE ends only a stream that runs.
ReceiveBye_RunningOnly(c) ==
  /\ callee' = IF callee[c] = "confirmed" THEN [callee EXCEPT ![c] = "none"] ELSE callee
  /\ adapters' = adapters \ {c}
  /\ UNCHANGED <<toCaller, answered>>

\* The caller has no handler for the answer to a BYE.
ReceiveBye(c) ==
  /\ callee' = [callee EXCEPT ![c] = "none"]
  /\ adapters' = adapters \ {c}
  /\ UNCHANGED <<toCaller, answered>>

CalleeReceives ==
  /\ \E i \in Deliverable(toCallee) :
       LET m == toCallee[i]
       IN  /\ \/ m.method = "INVITE" /\ \E port \in BOOLEAN : ReceiveInvite(m.call, port)
              \/ m.method = "ACK" /\ \E starts \in BOOLEAN : ReceiveAck(m.call, starts)
              \/ m.method = "BYE" /\ ReceiveBye(m.call)
           /\ toCallee' = RemoveAt(toCallee, i)
  /\ UNCHANGED <<network, callerVars>>

-----------------------------------------------------------------------------
(* Network (external)                                                      *)

Lose ==
  /\ network.lossy
  /\ \/ \E i \in 1..Len(toCallee) : toCallee' = RemoveAt(toCallee, i) /\ UNCHANGED toCaller
     \/ \E i \in 1..Len(toCaller) : toCaller' = RemoveAt(toCaller, i) /\ UNCHANGED toCallee
  /\ UNCHANGED <<network, callerVars, calleeVars>>

-----------------------------------------------------------------------------
Next ==
  \/ \E c \in Calls : RequestInvite(c) \/ RequestBye(c) \/ Repeat(c) \/ Timeout(c) \/ Expire(c)
  \/ CloseSession
  \/ CallerReceives
  \/ CalleeReceives
  \/ Lose

Spec == Init /\ [][Next]_vars

\* Messages that arrive are handled, and a command ends.
FairSpec == Spec /\ WF_vars(CallerReceives) /\ WF_vars(CalleeReceives) /\ WF_vars(CloseSession)

-----------------------------------------------------------------------------
(* Properties                                                              *)

TypeOK ==
  /\ network \in Networks
  /\ up \in BOOLEAN
  /\ caller \in [Calls -> {"none", "requested", "confirmed"}]
  /\ transaction \in [Calls -> {"none", "calling", "completed", "terminated"}]
  /\ repeats \in Nat
  /\ bye \in Calls \cup {NoCall}
  /\ callee \in [Calls -> {"none", "requested", "confirmed", "failed"}]
  /\ adapters \subseteq Calls
  /\ toCallee \in Seq(Request)
  /\ toCaller \in Seq(Response)
  /\ answered \subseteq Calls
  /\ acked \subseteq Calls
  /\ ended \in [Calls -> {"no", "requested", "confirmed"}]

\* The caller waits for RTP only of a call the callee has accepted, and the callee
\* sends RTP only in one the caller has acknowledged, whatever the network does.
StreamGrounded ==
  \A c \in Calls : /\ caller[c] = "confirmed" => c \in answered
                   /\ callee[c] = "confirmed" => c \in answered /\ c \in acked

Orderly == ~network.lossy /\ ~network.overtakes
Quiet   == toCallee = <<>> /\ toCaller = <<>> /\ bye = NoCall

\* When nothing is lost, overtaken or repeated, and all has arrived, a call has a
\* session at both ends or at neither, whatever was answered and whenever it ended.
EndsAgree ==
  Orderly /\ network.repeats = 0 /\ Quiet /\ up =>
    \A c \in Calls : caller[c] # "none" <=> callee[c] # "none"

\* A bye of a confirmed call closes it at the callee, for good, if the network keeps
\* its messages and their order.
ByeClosesConfirmed ==
  \A c \in Calls : Orderly /\ ended[c] = "confirmed" ~> [](callee[c] = "none")

\* docs/milestone6-validation.md: after a bye the sessions of both sides are closed
\* and their ports returned.  After a bye of a call that is not answered yet, the
\* transaction repeats the INVITE, which opens the session at the callee again.
ByeClosesBoth ==
  \A c \in Calls : Orderly /\ ended[c] # "no" ~> [](callee[c] = "none")
=============================================================================
