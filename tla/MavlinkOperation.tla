-------------------------- MODULE MavlinkOperation --------------------------
(***************************************************************************)
(* Uploader.flash_bootloader and Uploader.perform_factory_reset with the   *)
(* part of BootloaderConnection that talks to the main firmware: wait for  *)
(* a heartbeat, then send MAVLink commands that nothing acknowledges.      *)
(***************************************************************************)
EXTENDS Mavlink

CONSTANTS
  Packets,      \* the packets that the main firmware sends by itself
  Heartbeats,   \* those of them that are heartbeats
  Remainders,   \* what may be left of a packet that began before we listened
  Chunks,       \* how many bytes receive() may return at once
  MaxPackets,   \* bound: how many packets the main firmware sends
  Faults,       \* the kinds of fault that may happen: "lose" (a command),
                \* "damage" (a byte on the way to the host), "io", "broken"
  DamagedAt,    \* bound: the bytes of a packet that may be damaged
  MaxFaults     \* bound: how many of them happen

ASSUME MavlinkOperationAssumption ==
  /\ Packets \subseteq Seq(Octet) /\ Heartbeats \subseteq Packets
  /\ Remainders \subseteq Seq(Octet) /\ Chunks \subseteq Nat \ {0}
  /\ Faults \subseteq {"lose", "damage", "io", "broken"}
  /\ MaxFaults \in Nat /\ MaxPackets \in Nat /\ DamagedAt \subseteq Nat

(* What the main firmware sends has the length that it claims; a heartbeat *)
(* has the type, the checksum and the flags of one.                        *)
IsPacket(p) ==
  /\ Len(p) >= 3 /\ p[1] \in {MARKER_V1, MARKER_V2}
  /\ Len(p) = header_len(p) + p[2] + 2 + signature_len(p)

IsHeartbeat(p) ==
  message_id(p) = HEARTBEAT /\ crc_matches(p) /\ (is_v2(p) => p[3] \div 2 = 0)

ASSUME FirmwareAssumption ==
  (\A p \in Packets : IsPacket(p)) /\ (\A p \in Heartbeats : IsHeartbeat(p))

VARIABLES
  op,           \* which of the two operations it is
  pc,           \* the await that is under way
  lock,         \* whether the task holds the lock of the connection
  mode,         \* _mode of the connection
  mav,          \* the MAVLink object of the connection
  toDev,        \* packets on their way to the device
  toHost,       \* bytes on their way to the host
  dev,          \* "bootloader", or "app" for the main firmware
  done,         \* commands that the main firmware has carried out
  silent,       \* history: no heartbeat was heard in time
  fed,          \* history: the bytes that the parser was given
  heard,        \* history: the messages that it made of them
  sent,         \* history: the packets that the main firmware sent
  finished,     \* what the "finished" event says
  faults

hostVars == << op, pc, lock, mode, mav, silent, fed, heard, finished >>
devVars == << dev, done, sent >>
vars == << hostVars, toDev, toHost, devVars, faults >>

SYSTEM_ID == 254
COMPONENT_ID == 190

Init ==
  /\ op \in {"flash_bootloader", "factory_reset"}
  /\ pc = "connecting"
  /\ lock = FALSE /\ mode = "unknown"
  /\ mav = NewMavlink(SYSTEM_ID, COMPONENT_ID)
  /\ toDev = << >>
  /\ dev \in {"bootloader", "app"}
  /\ toHost \in IF dev = "app" THEN Remainders \union {<< >>} ELSE {<< >>}
  /\ done = {}
  /\ silent = FALSE
  /\ fed = << >> /\ heard = << >> /\ sent = << >>
  /\ finished = "no"
  /\ faults = 0

Fault(kind) ==
  /\ kind \in Faults
  /\ faults < MaxFaults
  /\ faults' = faults + 1

------------------------------------------------------------------------------
(* The messages that the uploader sends, as type and fields. *)
MAV_CMD_PREFLIGHT_REBOOT_SHUTDOWN == 246
MAV_CMD_FLASH_BOOTLOADER == 42650
ONE == << 0, 0, 128, 63 >>                  \* 1.0 as a float
MAGIC == << 128, 7, 142, 72 >>              \* 290876.0
FORMAT_VERSION == << 70, 86 >>              \* stands for the name

RebootMessage ==
  [id |-> COMMAND_LONG,
   fields |-> command_long(MAV_CMD_PREFLIGHT_REBOOT_SHUTDOWN, 1, ONE, Zeros(4))]

FlashMessage ==
  [id |-> COMMAND_LONG,
   fields |-> command_long(MAV_CMD_FLASH_BOOTLOADER, 0, Zeros(4), MAGIC)]

ResetMessage == [id |-> PARAM_SET, fields |-> param_set(FORMAT_VERSION)]

OperationMessage == IF op = "flash_bootloader" THEN FlashMessage ELSE ResetMessage

(* A checksum fits the two bytes that it gets in the packet: it does for   *)
(* these messages, whatever number they have.                              *)
ASSUME ChecksumAssumption ==
  \A m \in {RebootMessage, FlashMessage, ResetMessage}, n \in Octet :
    FitsShort(checksum_of(
      header(TRUE, m.id, m.fields, n, << SYSTEM_ID, COMPONENT_ID >>) \o m.fields, m.id))

(* _send_mavlink_message: what is on its way is kept unpacked. *)
SendMessage(m) ==
  /\ toDev' = Append(toDev, [message |-> m, seq |-> mav.seq, source |-> mav.source])
  /\ mav' = encoded(mav)

(* Command.reboot() of the bootloader protocol. *)
BootRequest == [command |-> "REBOOT"]

(* The bytes on the wire: types below 256 are sent as MAVLink 1. *)
wire(p) ==
  IF p = BootRequest THEN << 48, 32 >>
  ELSE pack_msg(p.message.id < 256, p.message.id, p.message.fields, p.seq, p.source)

(* The operation ends; leaving its contexts releases the lock. *)
Finish(how) ==
  /\ pc' = "finished"
  /\ finished' = how
  /\ lock' = FALSE

(* The transport opens, and ensure_in_mavlink takes the lock. *)
Connect ==
  /\ pc = "connecting"
  /\ pc' = "listening"
  /\ lock' = TRUE
  /\ UNCHANGED << op, mode, mav, silent, fed, heard, finished, toDev, toHost, devVars,
                  faults >>

HasHeartbeat(messages) ==
  \E i \in 1..Len(messages) : messages[i].type = "HEARTBEAT"

(* _wait_for_heartbeat: receive() returns some of the bytes on the link, or *)
(* all of them.                                                            *)
(* The parser leaves the attributes that encode uses alone.  Messages      *)
(* behind a heartbeat in the same chunk are dropped.                       *)
Receive ==
  /\ pc = "listening"
  /\ \E n \in (Chunks \union {Len(toHost)}) \intersect (1..Len(toHost)) :
       LET chunk == SubSeq(toHost, 1, n)
           parsed == parse_buffer(mav, chunk)
       IN  /\ toHost' = without(toHost, n)
           /\ fed' = fed \o chunk
           /\ mav' = [mav EXCEPT !.buf = parsed.mav.buf,
                                 !.expected = parsed.mav.expected]
           /\ heard' = heard \o parsed.messages
           /\ IF HasHeartbeat(parsed.messages)
                THEN pc' = "command" /\ mode' = "mavlink" /\ lock' = FALSE
                ELSE UNCHANGED << pc, mode, lock >>
  /\ UNCHANGED << op, silent, finished, toDev, devVars, faults >>

(* Mutants: the timeout is ignored; every message starts it afresh. *)
IgnoreSilence ==
  /\ pc = "listening"
  /\ silent' = TRUE
  /\ pc' = "command" /\ mode' = "mavlink" /\ lock' = FALSE
  /\ UNCHANGED << op, mav, fed, heard, finished, toDev, toHost, devVars, faults >>
NothingAtAll ==
  /\ pc = "listening" /\ fed = << >>
  /\ silent' = TRUE
  /\ Finish("failure")
  /\ UNCHANGED << op, mode, mav, fed, heard, toDev, toHost, devVars, faults >>

(* No heartbeat in time: ask the bootloader to boot the main firmware.     *)
(* _process_command takes the lock, and a task that holds it already gets  *)
(* a RuntimeError instead.                                                 *)
NoHeartbeat ==
  /\ pc = "listening"
  /\ silent' = TRUE
  /\ IF lock THEN Finish("failure") /\ UNCHANGED << mode, toDev >>
     ELSE /\ toDev' = Append(toDev, BootRequest)
          /\ pc' = "command" /\ mode' = "mavlink"
          /\ UNCHANGED << lock, finished >>
  /\ UNCHANGED << op, mav, fed, heard, toHost, devVars, faults >>

(* Mutant: the reset is not followed by a reboot. *)
SendCommandOnly ==
  /\ pc = "command"
  /\ SendMessage(OperationMessage)
  /\ Finish("success")
  /\ UNCHANGED << op, mode, silent, fed, heard, toHost, devVars, faults >>

(* flash_bootloader or reset_to_factory_defaults; neither is acknowledged. *)
SendCommand ==
  /\ pc = "command"
  /\ SendMessage(OperationMessage)
  /\ IF op = "factory_reset" THEN pc' = "reboot" /\ UNCHANGED << finished, lock >>
                             ELSE Finish("success")
  /\ UNCHANGED << op, mode, silent, fed, heard, toHost, devVars, faults >>

(* In an unknown mode reboot() raises. *)
Reboot ==
  /\ pc = "reboot"
  /\ IF mode = "mavlink" THEN SendMessage(RebootMessage) /\ Finish("success")
                         ELSE UNCHANGED << mav, toDev >> /\ Finish("failure")
  /\ UNCHANGED << op, mode, silent, fed, heard, toHost, devVars, faults >>

(* A device that is rebooting already may have closed the connection; the  *)
(* packet was encoded, and counted, before that shows.                     *)
RebootBroken ==
  /\ pc = "reboot"
  /\ Fault("broken")
  /\ mav' = encoded(mav)
  /\ Finish("success")
  /\ UNCHANGED << op, mode, silent, fed, heard, toDev, toHost, devVars >>

Raise ==
  /\ pc # "finished"
  /\ Fault("io")
  /\ Finish("failure")
  /\ UNCHANGED << op, mode, mav, silent, fed, heard, toDev, toHost, devVars >>

Cancel ==
  /\ pc # "finished"
  /\ Finish("cancelled")
  /\ UNCHANGED << op, mode, mav, silent, fed, heard, toDev, toHost, devVars, faults >>

(* The device: the main firmware talks all the time, and carries out what  *)
(* it is told; the bootloader says nothing and knows no MAVLink.           *)
Say(packet, bytes) ==
  /\ dev = "app" /\ pc \in {"connecting", "listening"}
  /\ Len(sent) < MaxPackets
  /\ toHost' = toHost \o bytes
  /\ sent' = Append(sent, packet)
  /\ UNCHANGED << hostVars, toDev, dev, done >>

Talk ==
  /\ \E packet \in Packets : Say(packet, packet)
  /\ UNCHANGED faults

(* On the way a byte is dropped, or changed into a marker. *)
TalkDamaged ==
  /\ Fault("damage")
  /\ \E packet \in Packets :
       \E i \in DamagedAt \intersect (1..Len(packet)), damaged \in {<< >>, << MARKER_V1 >>} :
         Say(packet, SubSeq(packet, 1, i - 1) \o damaged \o without(packet, i))

(* What the main firmware makes of a packet. *)
Understood(packet) ==
  LET fields == SubSeq(packet, HEADER_LEN_V1 + 1, Len(packet) - 2)
      Says(m) == message_id(packet) = m.id /\ fields = m.fields
  IN  IF packet[1] = MARKER_V1 /\ crc_matches(packet)
        THEN {c \in {op} : Says(OperationMessage)}
               \union {c \in {"reboot"} : Says(RebootMessage)}
        ELSE {}

Execute ==
  /\ toDev # << >>
  /\ done' = IF dev = "app" THEN done \union Understood(wire(Head(toDev))) ELSE done
  /\ toDev' = Tail(toDev)
  /\ UNCHANGED << hostVars, toHost, dev, sent, faults >>

Lose ==
  /\ toDev # << >>
  /\ Fault("lose")
  /\ toDev' = Tail(toDev)
  /\ UNCHANGED << hostVars, toHost, devVars >>

Terminated ==
  /\ pc = "finished" /\ toDev = << >>
  /\ UNCHANGED vars

Host ==
  Connect \/ Receive \/ NoHeartbeat \/ SendCommand \/ Reboot

Next ==
  \/ Host \/ RebootBroken \/ Raise \/ Cancel
  \/ Talk \/ TalkDamaged \/ Execute \/ Lose
  \/ Terminated

(* The event loop runs, and the timeout of ensure_in_mavlink expires. *)
Spec ==
  /\ Init /\ [][Next]_vars
  /\ WF_vars(Connect) /\ WF_vars(NoHeartbeat) /\ WF_vars(SendCommand) /\ WF_vars(Reboot)

------------------------------------------------------------------------------
(* The types of an operation.  The lock of the connection is held while    *)
(* ensure_in_mavlink listens, and released however that ends.              *)
TypeOK ==
  /\ op \in {"flash_bootloader", "factory_reset"}
  /\ pc \in {"connecting", "listening", "command", "reboot", "finished"}
  /\ lock = (pc = "listening")    \* held by ensure_in_mavlink only
  /\ silent \in BOOLEAN
  /\ mode \in {"unknown", "mavlink"}
  /\ mav \in MavlinkType
  /\ (\A i \in 1..Len(toDev) : wire(toDev[i]) \in Seq(Octet)) /\ toHost \in Seq(Octet)
  /\ fed \in Seq(Octet) /\ sent \in Seq(Packets)
  /\ dev \in {"bootloader", "app"}
  /\ finished \in {"no", "success", "failure", "cancelled"}
  /\ faults \in 0..MaxFaults

(* However the bytes are cut into chunks, the parser makes the same        *)
(* messages of them: it keeps nothing of a chunk but the bytes it needs.   *)
ChunksDoNotMatter ==
  heard = parse_buffer(NewMavlink(SYSTEM_ID, COMPONENT_ID), fed).messages

(* Whatever arrives, every byte is in a message that was reported or is    *)
(* still waiting for the rest of its packet, in the order it came.         *)
BytesOf(messages) == [i \in 1..Len(messages) |-> messages[i].bytes]
NoByteIsLost == fed = FlattenSeq(BytesOf(heard)) \o mav.buf

(* Of whole packets the parser reports each as it was sent, and nothing    *)
(* else; whoever still listens was sent no heartbeat.                      *)
HeardAsSent ==
  pc = "listening" /\ fed = FlattenSeq(sent) =>
    /\ Len(heard) = Len(sent)
    /\ \A k \in 1..Len(sent) : heard[k].bytes = sent[k] /\ sent[k] \notin Heartbeats

(* What _wait_for_heartbeat hears is what is in the bytes that it received. *)
ParsingIsExact == ChunksDoNotMatter /\ NoByteIsLost /\ HeardAsSent

(* Whatever is heard as a heartbeat was sent as one: neither a packet that *)
(* was damaged nor the rest of one passes for a heartbeat.  A signature is *)
(* not looked at.                                                          *)
Unsigned(packet) == SubSeq(packet, 1, crc_index(packet) + 1)
HeartbeatsAreGenuine ==
  \A i \in 1..Len(heard) : heard[i].type = "HEARTBEAT" =>
    \E k \in 1..Len(sent) : /\ sent[k] \in Heartbeats
                            /\ Unsigned(sent[k]) = Unsigned(heard[i].bytes)

(* If listening began within a packet, the parser still reports the others *)
(* as they were sent, but for single bytes that it skips, unless it takes  *)
(* what it finds for the beginning of one: then it may miss, or still wait *)
(* for, others.                                                            *)
HeardFromWithin ==
  LET whole == SelectSeq(heard, LAMBDA m : Len(m.bytes) > 1)
      Misread(m) == \A k \in 1..Len(sent) : m.bytes # sent[k]
  IN  pc = "listening" /\ toHost = << >> /\ faults = 0 /\ fed # FlattenSeq(sent) =>
        \/ /\ Len(whole) = Len(sent)
           /\ \A k \in 1..Len(sent) :
                whole[k].bytes = sent[k] /\ sent[k] \notin Heartbeats
        \/ mav.buf # << >>
        \/ \E i \in 1..Len(whole) : Misread(whole[i])

(* MAVLink commands go only to a device that was heard to run its main     *)
(* firmware: an operation that reports success, or that has a command      *)
(* under way, is not talking to a bootloader.                              *)
CommandsReachFirmware ==
  toDev # << >> \/ finished = "success" => dev = "app" /\ ~silent

(* A success on a link that lost nothing means that the device has done    *)
(* what was asked, and was rebooted after a reset, once nothing is under   *)
(* way any more.  With losses it means nothing: nothing is acknowledged.   *)
UndisturbedSuccessIsDone ==
  finished = "success" /\ toDev = << >> /\ faults = 0 =>
    op \in done /\ (op = "factory_reset" => "reboot" \in done)

(* Every operation finishes, even if the device talks all the time without *)
(* a heartbeat.                                                            *)
Finishes == <>(pc = "finished")

------------------------------------------------------------------------------
(* A disagreement with the documentation, checked by a run of its own. *)

(* Without a heartbeat ensure_in_mavlink "asks [the board] to boot the     *)
(* main firmware": then the request should have been sent.                 *)
BootIsRequested ==
  silent /\ finished = "failure" /\ faults = 0 => Contains(toDev, BootRequest)
==============================================================================
