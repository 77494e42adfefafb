--------------------------- MODULE MockBootloader ---------------------------
(***************************************************************************)
(* MockBootloader of ap_uploader/mock.py behind a UDPListenerTransport of  *)
(* io/udp.py: commands arrive as datagrams that are cut anywhere, are read *)
(* back byte by byte with a timeout for each part, and are answered.       *)
(* Bootloader says what a command that was read does to the device.        *)
(***************************************************************************)
EXTENDS Bootloader, FiniteSets, Functions

CONSTANTS
  Clients,      \* the addresses that datagrams come from
  NoClient,     \* no address
  Requests,     \* the commands that clients send
  SimulateDesync,  \* the option of that name
  DesyncFrom,   \* pointer from which simulate_desync may act, 4096 in the code
  MaxSent,      \* bound: commands that are sent, from one reboot to the next
  MaxFaults     \* bound: lost datagrams and dropped replies, reboots as well

ASSUME MockBootloaderAssumption ==
  /\ NoClient \notin Clients /\ SimulateDesync \in BOOLEAN /\ DesyncFrom \in Nat
  /\ MaxSent \in Nat /\ MaxFaults \in Nat

VARIABLES
  pc,           \* the part of a command that run() reads, or what it does else
  buffer,       \* _buffer
  command,      \* what has been read of it: type, length of args, args
  dev,          \* the flash and its write pointer
  drop_next,    \* _drop_next_response
  remote,       \* _remote_address of the transport
  rest,         \* of each client: the part of a command that it sends next
  net,          \* datagrams that have arrived at the socket
  sent,         \* history: the commands of each client since the socket opened
  turns,        \* history: the commands that were read, each with its reply
  late,         \* history: a timeout has expired, or a datagram was lost
  torn,         \* history: a simulated fault cut a write at the end of the flash
  faults

NothingRead == [type |-> 0, length |-> 0, args |-> << >>]
history == << sent, turns, late, torn >>
vars == << pc, buffer, command, dev, drop_next, remote, rest, net, history, faults >>

(* What OpCode accepts beyond the replies and NOP. *)
EOC == 32
CHIP_VERIFY == 36
READ_MULTI == 40
SET_BOOT_DELAY == 45
DEBUG == 49
SET_BAUD == 51
CommandCodes ==
  {GET_SYNC, GET_DEVICE, CHIP_ERASE, CHIP_VERIFY, PROG_MULTI, READ_MULTI, GET_CRC,
   GET_OTP, GET_SN, GET_CHIP, SET_BOOT_DELAY, GET_CHIP_DES, GET_WRITE_PTR, REBOOT,
   DEBUG, SET_BAUD}

(* Command.payload_length: -1 when the first byte tells. *)
payload_length(type) ==
  CASE type \in {GET_OTP, GET_SN, SET_BAUD} -> 4
    [] type \in {GET_DEVICE, SET_BOOT_DELAY} -> 1
    [] type = PROG_MULTI -> -1
    [] OTHER -> 0

(* Command.to_bytes. *)
to_bytes(c) ==
  << c.type >> \o (IF payload_length(c.type) < 0 THEN << Len(c.args) >> ELSE << >>)
    \o c.args \o << EOC >>

BlankDevice == [flash |-> BlankFlash, wptr |-> 0,
                rev |-> IF SimulateDesync THEN 6 ELSE 5, mode |-> "bootloader"]
Unreadable == Command(-1, << >>)

Init ==
  /\ pc = "opcode" /\ buffer = << >>
  /\ command = NothingRead
  /\ dev = BlankDevice /\ drop_next = FALSE
  /\ remote = NoClient /\ rest = [c \in Clients |-> << >>] /\ net = << >>
  /\ sent = [c \in Clients |-> << >>] /\ turns = << >>
  /\ late = FALSE /\ torn = FALSE
  /\ faults = 0

------------------------------------------------------------------------------
(* The link.  A command travels in one datagram or two; datagrams are lost *)
(* but, on the loopback interface, not reordered.                          *)
Total == LET lens == [c \in Clients |-> Len(sent[c])]
         IN  FoldFunction(LAMBDA a, b : a + b, 0, lens)

Datagram(client, bytes) == [from |-> client, bytes |-> bytes]

Send(client, c) ==
  /\ pc # "closed" /\ Total < MaxSent /\ rest[client] = << >>
  /\ LET bytes == to_bytes(c)
     IN  \E cut \in 1..Len(bytes) :
           /\ net' = Append(net, Datagram(client, SubSeq(bytes, 1, cut)))
           /\ rest' = [rest EXCEPT ![client] = drop(bytes, cut)]
  /\ sent' = [sent EXCEPT ![client] = Append(@, c)]
  /\ UNCHANGED << pc, buffer, command, dev, drop_next, remote, turns, late, torn, faults >>

(* What is sent to a closed socket is lost. *)
SendRest(client) ==
  /\ rest[client] # << >>
  /\ net' = IF pc = "closed" THEN net ELSE Append(net, Datagram(client, rest[client]))
  /\ rest' = [rest EXCEPT ![client] = << >>]
  /\ UNCHANGED << pc, buffer, command, dev, drop_next, remote, history, faults >>

Lose ==
  /\ net # << >> /\ faults < MaxFaults
  /\ net' = Tail(net)
  /\ late' = TRUE /\ faults' = faults + 1
  /\ UNCHANGED << pc, buffer, command, dev, drop_next, remote, rest, sent, turns, torn >>

(* A test calls drop_next_response. *)
DropNextResponse ==
  /\ ~drop_next /\ faults < MaxFaults
  /\ drop_next' = TRUE /\ faults' = faults + 1
  /\ UNCHANGED << pc, buffer, command, dev, remote, rest, net, history >>

------------------------------------------------------------------------------
(* Reading a command. *)

(* How many bytes the part that is being read has. *)
needed == IF pc = "payload" THEN command.length ELSE 1
Reading == pc \in {"opcode", "length", "payload", "eoc"}

(* Mutant: datagrams from anywhere are taken. *)
accepts_all(client) == TRUE

(* The listener is bound to the first client it hears, for good. *)
accepts(client) == remote = NoClient \/ client = remote

(* _read_exactly does not have enough: UDPListenerTransport.receive. *)
Receive ==
  /\ Reading /\ Len(buffer) < needed
  /\ net # << >>
  /\ net' = Tail(net)
  /\ IF accepts(Head(net).from)
       THEN /\ buffer' = buffer \o Head(net).bytes
            /\ remote' = IF remote = NoClient THEN Head(net).from ELSE remote
       ELSE UNCHANGED << buffer, remote >>
  /\ UNCHANGED << pc, command, dev, drop_next, rest, history, faults >>

(* Bytes are taken off the buffer, and the next part is read. *)
Take(n, next) ==
  /\ pc' = next
  /\ buffer' = drop(buffer, n)

(* The part that follows an opcode or, if the length is known, a length. *)
PartAfter(type) ==
  CASE type \notin CommandCodes -> "opcode"
    [] type \in CommandCodes /\ payload_length(type) < 0 -> "length"
    [] type \in CommandCodes /\ payload_length(type) > 0 -> "payload"
    [] type \in CommandCodes /\ payload_length(type) = 0 -> "eoc"

(* Bytes that are no command are skipped. *)
ReadOpcode ==
  /\ pc = "opcode" /\ Len(buffer) >= 1
  /\ LET type == Head(buffer)
     IN  /\ Take(1, PartAfter(type))
         /\ command' = IF type \in CommandCodes
                          THEN [NothingRead EXCEPT !.type = type, !.length = payload_length(type)]
                          ELSE NothingRead
  /\ UNCHANGED << dev, drop_next, remote, rest, net, history, faults >>

ReadLength ==
  /\ pc = "length" /\ Len(buffer) >= 1
  /\ command' = [command EXCEPT !.length = Head(buffer)]
  /\ Take(1, IF Head(buffer) > 0 THEN "payload" ELSE "eoc")
  /\ UNCHANGED << dev, drop_next, remote, rest, net, history, faults >>

ReadPayload ==
  /\ pc = "payload" /\ Len(buffer) >= command.length
  /\ command' = [command EXCEPT !.args = SubSeq(buffer, 1, command.length)]
  /\ Take(command.length, "eoc")
  /\ UNCHANGED << dev, drop_next, remote, rest, net, history, faults >>

------------------------------------------------------------------------------
(* Handling it. *)

(* _write_to_flash_memory as it recurs at the end of the flash, and what   *)
(* simulate_desync makes of it: past a certain point the reply may be lost *)
(* or delayed, and what is left of a write that wraps is not written.      *)
RECURSIVE writes(_, _)
writes(d, data) ==
  LET excess == d.wptr + Len(data) - FlashSize
      end == d.wptr + Len(data)
      fits == Len(data) - excess
  IN  CASE data = << >> -> {[dev |-> d, fate |-> "ok"]}
        [] Len(data) > 0 /\ excess <= 0 ->
             { [dev |-> [d EXCEPT !.wptr = end,
                                  !.flash = [i \in 1..FlashSize |->
                                    IF i \in (d.wptr + 1)..end THEN data[i - d.wptr] ELSE @[i]]],
                fate |-> fate] :
               fate \in IF SimulateDesync /\ end >= DesyncFrom
                         THEN {"ok", "lost", "delayed"} ELSE {"ok"} }
        [] Len(data) > 0 /\ excess > 0 ->
             UNION { IF w.fate = "ok"
                       THEN writes([w.dev EXCEPT !.wptr = 0], drop(data, fits))
                       ELSE {w} :
                     w \in writes(d, SubSeq(data, 1, fits)) }

(* What a command does by the book, an item of GET_DEVICE that there is no *)
(* name for included.                                                      *)
by_the_book(d, c) ==
  IF c.type = GET_DEVICE /\ c.args[1] \notin DeviceInfoItem
    THEN [dev |-> d, reply |-> reply_bytes(FAILED, NoBytes)]
    ELSE handle_command(d, c)

(* Mutant: what does not fit at the end of the flash is not written. *)
handled_no_wrap(d, c) ==
  LET free == FlashSize - d.wptr
      fits == IF Len(c.args) <= free THEN c.args ELSE SubSeq(c.args, 1, free)
      book == by_the_book(d, IF c.type = PROG_MULTI THEN Command(PROG_MULTI, fits) ELSE c)
  IN  {[dev |-> book.dev, reply |-> book.reply, fate |-> "ok"]}

(* _handle_command, and how its reply fares. *)
handled(d, c) ==
  LET book == by_the_book(d, c)
  IN  IF c.type = PROG_MULTI
        THEN { [dev |-> w.dev, reply |-> book.reply, fate |-> w.fate] : w \in writes(d, c.args) }
        ELSE { [dev |-> book.dev, reply |-> book.reply, fate |-> "ok"] }

(* The end of a turn; a dropped reply is the only one that is dropped.  A  *)
(* reboot ends run() and closes the socket.                                *)
Reply(c, reply) ==
  /\ turns' = Append(turns, [command |-> c, reply |-> IF drop_next THEN << >> ELSE reply])
  /\ drop_next' = FALSE
  /\ command' = NothingRead
  /\ IF c.type = REBOOT THEN pc' = "closed" /\ net' = << >>
                        ELSE pc' = "opcode" /\ UNCHANGED net

Handle(c) ==
  \E h \in handled(dev, c) :
    /\ dev' = h.dev
    /\ torn' = (torn \/ (h.fate # "ok" /\ dev.wptr + Len(c.args) > FlashSize))
    /\ IF h.fate = "delayed"
         THEN pc' = "delaying" /\ UNCHANGED << turns, drop_next, command, net >>
         ELSE Reply(c, IF h.fate = "lost" THEN << >> ELSE h.reply)

ReadEoc ==
  /\ pc = "eoc" /\ Len(buffer) >= 1
  /\ buffer' = Tail(buffer)
  /\ IF Head(buffer) = EOC
       THEN Handle(Command(command.type, command.args))
       ELSE Reply(Unreadable, reply_bytes(INVALID, NoBytes)) /\ UNCHANGED << dev, torn >>
  /\ UNCHANGED << remote, rest, sent, late, faults >>

(* The simulated delay is over. *)
ReplyLate ==
  /\ pc = "delaying"
  /\ Reply(Command(command.type, command.args), reply_bytes(OK, NoBytes))
  /\ UNCHANGED << buffer, dev, remote, rest, sent, late, torn, faults >>

(* Mutant: only the byte that ends a command is waited for with a timeout. *)
TimeoutAtEnd ==
  /\ pc = "eoc" /\ Len(buffer) < needed
  /\ late' = TRUE
  /\ Reply(Unreadable, reply_bytes(INVALID, NoBytes))
  /\ UNCHANGED << buffer, dev, remote, rest, sent, torn, faults >>

(* The bytes of a part do not arrive in time: those that did stay in the   *)
(* buffer, and are read as commands.                                       *)
Timeout ==
  /\ pc \in {"length", "payload", "eoc"} /\ Len(buffer) < needed
  /\ late' = TRUE
  /\ Reply(Unreadable, reply_bytes(INVALID, NoBytes))
  /\ UNCHANGED << buffer, dev, remote, rest, sent, torn, faults >>

(* run_mock_bootloader: a new MockBootloader on the same transport, which  *)
(* still knows its client.  Bound: not before the clients have sent what   *)
(* was left of their commands.                                             *)
Reopen ==
  /\ pc = "closed" /\ \A c \in Clients : rest[c] = << >>
  /\ pc' = "opcode" /\ buffer' = << >>
  /\ dev' = BlankDevice /\ drop_next' = FALSE
  /\ sent' = [c \in Clients |-> << >>] /\ turns' = << >>
  /\ late' = FALSE
  /\ torn' = FALSE /\ faults' = 0
  /\ UNCHANGED << command, remote, rest, net >>

Read == Receive \/ ReadOpcode \/ ReadLength \/ ReadPayload \/ ReadEoc

Next ==
  \/ \E client \in Clients, c \in Requests : Send(client, c)
  \/ \E client \in Clients : SendRest(client)
  \/ Lose \/ DropNextResponse
  \/ Read \/ ReplyLate \/ Timeout \/ Reopen

(* The event loop runs, and its timers expire. *)
Spec == Init /\ [][Next]_vars /\ WF_vars(Read) /\ WF_vars(Timeout) /\ WF_vars(ReplyLate)

------------------------------------------------------------------------------
(* However the commands are cut into datagrams, as long as their bytes     *)
(* arrive in time the mock reads exactly the commands that its client has  *)
(* sent, in order, and none of another client.                             *)
CommandsAreExact ==
  ~late /\ turns # << >> =>
    /\ Len(turns) <= Len(sent[remote])
    /\ \A k \in 1..Len(turns) : turns[k].command = sent[remote][k]

(* The device is always what the commands that were read make of it by the *)
(* book, and each was answered accordingly or, if a fault is simulated,    *)
(* not at all: the write that recurs at the end of the flash agrees with   *)
(* the formula for it, unless a simulated fault cuts it short.             *)
AnswersAsCommanded ==
  LET after[k \in 0..Len(turns)] ==
        IF k = 0 THEN BlankDevice ELSE by_the_book(after[k - 1], turns[k].command).dev
      expected(k) == by_the_book(after[k - 1], turns[k].command).reply
      missing == {k \in 1..Len(turns) : turns[k].reply = << >>}
  IN  ~torn =>
        /\ pc # "delaying" => dev = after[Len(turns)]
        /\ \A k \in 1..Len(turns) : turns[k].reply \in {<< >>, expected(k)}
        /\ Cardinality({k \in missing : turns[k].command.type # PROG_MULTI}) <= faults

(* A command that began ends, and is answered or dropped, even if the rest *)
(* of it never arrives.                                                    *)
TurnsEnd == pc \in {"length", "payload", "eoc", "delaying"} ~> pc \in {"opcode", "closed"}
==============================================================================
