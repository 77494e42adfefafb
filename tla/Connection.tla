----------------------------- MODULE Connection -----------------------------
(***************************************************************************)
(* BootloaderConnection of ap_uploader/connection.py: one command at a     *)
(* time, with its sync request, its retries and its timeouts, over a link  *)
(* to a Bootloader.  The module is used twice: with an arbitrary client    *)
(* (Session) and with Uploader.upload_firmware as the client (Upload).     *)
(*                                                                         *)
(* The link keeps order.  What else may go wrong on it is a constant, the  *)
(* set of its kinds of fault:                                              *)
(*   "lose"      a command or a reply is lost;                             *)
(*   "split"     a reply arrives in two pieces;                            *)
(*   "late"      a timeout expires though the reply is still to come;      *)
(*   "reject"    the device finds a command malformed and says so;         *)
(*   "io"        the transport raises on send or on receive;               *)
(*   "eof"       receive() returns no bytes (an empty datagram);           *)
(*   "heartbeat" the main firmware talks MAVLink on the link.              *)
(* Without "late", a timeout expires only when no answer is under way: the *)
(* promise in the documentation of Command.suggested_timeout.              *)
(***************************************************************************)
EXTENDS Bootloader

CONSTANTS
  Faults,           \* the kinds of fault that may happen
  MaxFaults         \* bound: how many of them happen in a behaviour

FaultKinds == {"lose", "split", "late", "reject", "io", "eof", "heartbeat"}

ASSUME FaultsAssumption == Faults \subseteq FaultKinds /\ MaxFaults \in Nat

VARIABLES
  proto,            \* the Protocol object of the connection
  call,             \* the call of _process_command_inner, and its outcome
  toDev,            \* commands on their way to the device
  toHost,           \* pieces of replies on their way to the uploader
  dev,              \* the device
  faults,           \* the number of faults so far, and whether one of them
                    \* put a reply on the link that its call does not wait for
  executed          \* history: executions of call.cmd since the call began

linkVars == << toDev, toHost, faults >>
connVars == << proto, call, toDev, toHost, dev, faults, executed >>

(* How a call ends, other than by returning. *)
Errors == {"timeout", "excess", "rejected", "io", "closed", "invalidState"}

GetSync == Command(GET_SYNC, << >>)
RebootPacket == Command(MAVLINK_REBOOT, << >>)
Heartbeat == << 9 >>

NewCall(cmd, max_retries) ==
  [cmd |-> cmd, left |-> max_retries, sent |-> FALSE,
   status |-> "running", payload |-> NoBytes]

NoCall == [NewCall(GetSync, 0) EXCEPT !.status = "idle"]

Fault(kind) ==
  /\ kind \in Faults
  /\ faults.count < MaxFaults
  /\ faults' = [count |-> faults.count + 1,
                disturbing |-> faults.disturbing \/ kind \in {"late", "heartbeat"}]

ConnInit ==
  /\ proto = NewProtocol
  /\ call = NoCall
  /\ toDev = << >>
  /\ toHost = << >>
  /\ faults = [count |-> 0, disturbing |-> FALSE]
  /\ executed = 0

(* The client begins a call. *)
Begin(cmd, max_retries) ==
  /\ call' = NewCall(cmd, max_retries)
  /\ executed' = 0

Call(cmd, max_retries) ==
  /\ call.status # "running"
  /\ Begin(cmd, max_retries)
  /\ UNCHANGED << proto, dev, linkVars >>

(* ensure_in_bootloader: nothing answered, so reboot by MAVLink and insist. *)
RebootAndCall(cmd, max_retries) ==
  /\ call.status \in {"timeout", "excess"}
  /\ toDev' = Append(toDev, RebootPacket)
  /\ Begin(cmd, max_retries)
  /\ UNCHANGED << proto, toHost, dev, faults >>

(* The task of the client is cancelled during a call: the exception leaves *)
(* the loop wherever it waits, and what is on the link stays there.        *)
Abandon ==
  /\ call.status = "running"
  /\ call' = [call EXCEPT !.status = "idle"]
  /\ UNCHANGED << proto, dev, linkVars, executed >>

------------------------------------------------------------------------------
(* One iteration of the loop of _process_command_inner per action: it      *)
(* branches on what next_event returns.                                    *)

Upcoming == next_event(proto)

Iterating(type) == call.status = "running" /\ Upcoming.event.type = type

(* Mutant: retries that are never used up. *)
RetryForeverOr(error, c) == IF c.left = 0 THEN [c EXCEPT !.status = error] ELSE c

(* Mutant: stray bytes are thrown away at no cost. *)
ExcessIsFreeOr(error, c) ==
  CASE error = "excess" -> c
    [] error # "excess" /\ c.left = 0 -> [c EXCEPT !.status = error]
    [] error # "excess" /\ c.left # 0 -> [c EXCEPT !.left = @ - 1]

(* Spend a retry, or let the exception out. *)
RetryOr(error, c) ==
  IF c.left = 0 THEN [c EXCEPT !.status = error] ELSE [c EXCEPT !.left = @ - 1]

(* It is our turn: the command if we are in sync, else a sync request. *)
CommandToSend == IF in_sync(Upcoming.proto) THEN call.cmd ELSE GetSync

OurTurn == Iterating("None")

(* Mutant: the flag is not cleared when sync has to be regained. *)
sent_is_kept == call.sent \/ in_sync(Upcoming.proto)

(* The value of the variable sent after a send that succeeded. *)
sent_now == in_sync(Upcoming.proto)

(* Both branches that do not wait: raising "invalid state" when the        *)
(* command was sent and we are in sync again without its reply, and a send *)
(* that the transport accepts.                                             *)
Send ==
  /\ OurTurn
  /\ IF in_sync(Upcoming.proto) /\ call.sent
       THEN /\ call' = [call EXCEPT !.status = "invalidState"]
            /\ proto' = Upcoming.proto
            /\ UNCHANGED toDev
       ELSE /\ call' = [call EXCEPT !.sent = sent_now]
            /\ proto' = send(Upcoming.proto, CommandToSend.type)
            /\ toDev' = Append(toDev, CommandToSend)
  /\ UNCHANGED << toHost, dev, faults, executed >>

SendRaises ==
  /\ OurTurn
  /\ ~(in_sync(Upcoming.proto) /\ call.sent)
  /\ Fault("io")
  /\ proto' = send_failed(send(Upcoming.proto, CommandToSend.type))
  /\ call' = RetryOr("io", [call EXCEPT !.sent = FALSE])
  /\ UNCHANGED << toDev, toHost, dev, executed >>

(* feed() raises once the receiver is closed; nothing handles that. *)
Receive ==
  /\ Iterating("NeedMoreData")
  /\ toHost # << >>
  /\ toHost' = Tail(toHost)
  /\ \/ /\ can_feed(Upcoming.proto)
        /\ proto' = feed(Upcoming.proto, Head(toHost))
        /\ UNCHANGED call
     \/ /\ ~can_feed(Upcoming.proto)
        /\ proto' = Upcoming.proto
        /\ call' = [call EXCEPT !.status = "closed"]
  /\ UNCHANGED << toDev, dev, faults, executed >>

(* An empty read closes the receiver of the protocol object. *)
ReceiveNothing ==
  /\ Iterating("NeedMoreData")
  /\ Fault("eof")
  /\ proto' = feed(Upcoming.proto, NoBytes)
  /\ UNCHANGED << call, toDev, toHost, dev, executed >>

ReceiveRaises ==
  /\ Iterating("NeedMoreData")
  /\ Fault("io")
  /\ proto' = Upcoming.proto
  /\ call' = [call EXCEPT !.status = "io"]
  /\ UNCHANGED << toDev, toHost, dev, executed >>

TimeOut ==
  /\ Iterating("NeedMoreData")
  /\ proto' = reset(Upcoming.proto)
  /\ call' = RetryOr("timeout", call)
  /\ UNCHANGED << toDev, toHost, dev, executed >>

TimeOutInTime ==
  /\ toDev = << >> /\ toHost = << >>
  /\ TimeOut
  /\ UNCHANGED faults

TimeOutEarly ==
  /\ toDev # << >> \/ toHost # << >>
  /\ Fault("late")
  /\ TimeOut

(* Mutant: the reply to the sync request is returned as well. *)
Answer_any(c, reply) ==
  IF reply.code = OK THEN [c EXCEPT !.status = "returned", !.payload = reply.payload]
                     ELSE [c EXCEPT !.status = "rejected"]

(* A failure reply raises, whether it answers the command or the sync      *)
(* request; a successful one is returned only if it answers the command.   *)
Answer(c, reply) ==
  CASE reply.code # OK -> [c EXCEPT !.status = "rejected"]
    [] reply.code = OK /\ c.sent ->
         [c EXCEPT !.status = "returned", !.payload = reply.payload]
    [] OTHER -> c

OnResponse ==
  /\ Iterating("Response")
  /\ proto' = Upcoming.proto
  /\ call' = Answer(call, Upcoming.event)
  /\ UNCHANGED << toDev, toHost, dev, faults, executed >>

OnExcessData ==
  /\ Iterating("ExcessData")
  /\ proto' = reset(Upcoming.proto)
  /\ call' = RetryOr("excess", call)
  /\ UNCHANGED << toDev, toHost, dev, faults, executed >>

OnConnectionClosed ==
  /\ Iterating("ConnectionClosed")
  /\ proto' = Upcoming.proto
  /\ call' = [call EXCEPT !.status = "closed"]
  /\ UNCHANGED << toDev, toHost, dev, faults, executed >>

Host ==
  \/ Send \/ SendRaises
  \/ Receive \/ ReceiveNothing \/ ReceiveRaises
  \/ TimeOutInTime \/ TimeOutEarly
  \/ OnResponse \/ OnExcessData \/ OnConnectionClosed

------------------------------------------------------------------------------
(* The device and the link. *)

(* A reboot packet that reaches the bootloader: the bootloader rejects it, *)
(* and no call waits for that reply.                                       *)
Stray(c) == c.type = MAVLINK_REBOOT /\ dev.mode = "bootloader"

DeviceStep ==
  /\ toDev # << >>
  /\ toDev' = Tail(toDev)
  /\ LET done == deliver(dev, Head(toDev)) IN
       /\ dev' = done.dev
       /\ toHost' = IF done.reply = NoBytes THEN toHost ELSE Append(toHost, done.reply)
  /\ executed' = IF Head(toDev) = call.cmd /\ dev.mode = "bootloader"
                   THEN executed + 1 ELSE executed
  /\ faults' = [faults EXCEPT !.disturbing = @ \/ Stray(Head(toDev))]
  /\ UNCHANGED << proto, call >>

DeviceRejects ==
  /\ toDev # << >> /\ dev.mode = "bootloader" /\ ~Stray(Head(toDev))
  /\ Fault("reject")
  /\ toDev' = Tail(toDev)
  /\ toHost' = Append(toHost, Rejected(dev).reply)
  /\ UNCHANGED << proto, call, dev, executed >>

DeviceBoots ==
  /\ dev.mode = "rebooting"
  /\ dev' = boot(dev)
  /\ UNCHANGED << proto, call, linkVars, executed >>

SendHeartbeat ==
  /\ dev.mode = "app"
  /\ Fault("heartbeat")
  /\ toHost' = Append(toHost, Heartbeat)
  /\ UNCHANGED << proto, call, toDev, dev, executed >>

LoseCommand ==
  /\ toDev # << >>
  /\ Fault("lose")
  /\ toDev' = Tail(toDev)
  /\ UNCHANGED << proto, call, toHost, dev, executed >>

LoseReply ==
  /\ toHost # << >>
  /\ Fault("lose")
  /\ toHost' = Tail(toHost)
  /\ UNCHANGED << proto, call, toDev, dev, executed >>

SplitReply ==
  /\ toHost # << >>
  /\ Fault("split")
  /\ \E n \in 1..(Len(Head(toHost)) - 1) :
       toHost' = << SubSeq(Head(toHost), 1, n), drop(Head(toHost), n) >> \o Tail(toHost)
  /\ UNCHANGED << proto, call, toDev, dev, executed >>

Environment ==
  \/ DeviceStep \/ DeviceRejects \/ DeviceBoots \/ SendHeartbeat
  \/ LoseCommand \/ LoseReply \/ SplitReply

(* What happens without anything going wrong, and so may be relied on: the *)
(* event loop keeps running, the device keeps serving, timeouts expire.    *)
Progress ==
  \/ Send \/ Receive \/ TimeOutInTime
  \/ OnResponse \/ OnExcessData \/ OnConnectionClosed
  \/ DeviceStep \/ DeviceBoots

------------------------------------------------------------------------------
(* Any client: it issues any command after any outcome, one at a time (the *)
(* lock of BootloaderConnection), reboots a device that does not answer,   *)
(* and may be cancelled at any time.                                       *)

(* Data to program is written to cells, an item of the device information  *)
(* has a name, and a word of the serial number lies within its bytes; the  *)
(* code asks for the words at 0, 4 and 8.  The reboot packet is not the    *)
(* command of any call.                                                    *)
ClientCommands ==
  {c \in [type : Byte, args : Seq(Nat)] :
     /\ c.type # MAVLINK_REBOOT
     /\ c.type = PROG_MULTI => c.args \in Seq(Cell)
     /\ c.type = GET_DEVICE => c.args # << >> /\ c.args[1] \in DeviceInfoItem
     /\ c.type = GET_SN => c.args # << >> /\ c.args[1] \in 0..252}

AnyClient ==
  \/ \E cmd \in ClientCommands, n \in Nat : Call(cmd, n) \/ RebootAndCall(cmd, n)
  \/ Abandon

OpenInit == ConnInit /\ dev \in DeviceType
OpenNext == AnyClient \/ Host \/ Environment
OpenSpec == OpenInit /\ [][OpenNext]_connVars

------------------------------------------------------------------------------
(* The types of the connection, the link and the device. *)
ConnTypeOK ==
  /\ proto \in ProtocolType
  /\ call \in [cmd : [type : Byte, args : Seq(Nat)], left : Nat, sent : BOOLEAN,
               status : {"idle", "running", "returned"} \union Errors,
               payload : Seq(Byte)]
  /\ toDev \in Seq([type : Byte, args : Seq(Nat)])
  /\ toHost \in Seq(Seq(Byte))
  /\ dev \in DeviceType
  /\ faults \in [count : 0..MaxFaults, disturbing : BOOLEAN]
  /\ executed \in Nat

(* The reply that ends a call is the reply to that call: the device ran    *)
(* the command during the call, and no reply, no command and no unread     *)
(* byte is left over to be taken for the answer to the next one.  So it is *)
(* as long as replies keep to the suggested timeouts and nobody else talks *)
(* on the link.                                                            *)
ReturnMeansExecuted ==
  call.status = "returned" /\ ~faults.disturbing =>
    /\ executed > 0
    /\ toDev = << >> /\ toHost = << >>
    /\ proto.buffer = NoBytes /\ proto.payload = NoBytes /\ in_sync(proto)

(* On such a link, what a call returns is what the device answers at that  *)
(* moment.                                                                 *)
AnswerIsCurrent ==
  call.status = "returned" /\ ~faults.disturbing /\ dev.mode = "bootloader"
       /\ call.cmd.type \notin {CHIP_ERASE, PROG_MULTI} =>
    LET reply == handle_command(dev, call.cmd).reply
        body == SubSeq(reply, 1, Len(reply) - 2)
    IN  call.payload = IF call.cmd.type = GET_CHIP_DES THEN drop(body, 4) ELSE body

(* The branch that raises RuntimeError("invalid state") is never taken,    *)
(* whatever the link does.                                                 *)
NeverInvalidState == call.status # "invalidState"

(* What a call may still spend: its retries; on one retry, the stages from *)
(* regaining sync to the reply; in a stage, the end of input; and before   *)
(* that, the bytes the stage waits for.                                    *)
Stage(p, sent) ==
  CASE p.state \in {"idle", "error"} -> 8
    [] p.state = "waitResponseLength" -> IF sent THEN 3 ELSE 7
    [] p.state = "waitResponse" -> IF sent THEN 2 ELSE 6
    [] p.state = "waitSync" -> IF sent THEN 1 ELSE 5
    [] p.state = "inSync" -> IF sent THEN 0 ELSE 4

Missing(p) == IF p.expected > Len(p.buffer) THEN p.expected - Len(p.buffer) ELSE 0

Cost(c, p) == << c.left, Stage(p, c.sent), IF p.closed THEN 0 ELSE 1, Missing(p) >>

Cheaper(a, b) == \E i \in 1..4 : a[i] < b[i] /\ \A j \in 1..(i - 1) : a[j] = b[j]

(* Another empty read on a receiver that is closed already, but still      *)
(* holds part of a reply: the one pass of the loop that costs nothing.     *)
ReadsNothingAgain == ReceiveNothing /\ Upcoming.proto.closed

(* Each pass of the loop of _process_command_inner ends the call or takes  *)
(* from what it may still spend, whatever a device sends and however long  *)
(* it goes on: garbage without end runs out of retries.                    *)
LoopPays ==
  [][Host => \/ call'.status # "running"
             \/ Cheaper(Cost(call', proto'), Cost(call, proto))
             \/ ReadsNothingAgain]_connVars
==============================================================================
