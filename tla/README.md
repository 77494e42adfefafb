# A verification project for ap-firmware-uploader

`ap-uploader` writes firmware images into ArduPilot flight controllers over
serial ports and over UDP, on many of them at once. It erases a flash memory
over a link that loses messages, talks a bootloader protocol whose replies
carry no identification, and runs everything as cooperating tasks on one event
loop. This directory holds TLA+ models of those parts, the TLC runs that check
them on small instances, and proofs that hold for every instance: of the protocol
core, the connection, the whole upload down to the contents of the flash memory,
the task group and the scanner that feeds it, the shared socket, the serial
stream, the MAVLink operations and the MAVLink parser.

Paths below are relative to `src/src/ap_uploader/`.

## Inventory

| Component | State it keeps | Operations | What is hard | What makes it correct |
|---|---|---|---|---|
| `Protocol` (`protocol.py`) | receive buffer, payload, state, bytes expected, closed flag | `feed`, `next_event`, `send`, `send_failed`, `reset` | replies in arbitrary fragments, stray bytes, lengths from the wire, a reset in the middle of a reply | framing, conservation of bytes, one reply per command, a clean stream at the client's turn |
| `BootloaderConnection`, bootloader side (`connection.py`) | a `Protocol`, a lock, the retries and the flag `sent` of the call under way | `_process_command_inner` and the commands built on it, `ensure_in_bootloader` | timeouts racing late replies, regaining sync, failing sends, retries of what was done already | a call that returns was executed and returns the device's answer; it never meets its "invalid state"; it ends |
| `BootloaderConnection`, MAVLink side | mode, lock | `ensure_in_mavlink`, `flash_bootloader`, `reset_to_factory_defaults`, `reboot` | no acknowledgments, a timeout while the device talks, a lock taken twice | commands go to a device that was heard; operations end |
| Bootloader (`mock.py`), `UDPListenerTransport` | flash memory, write pointer, buffer, the part of a command that is read, the client | read a command, handle it, reply, reboot | commands in fragments, bytes that never come, datagrams of other clients, wrap-around at the end of the flash, simulated faults | it executes what was sent, in order, and answers by the book; no command blocks it |
| `Uploader.upload_firmware` (`uploader.py`) | write pointer, flash size, revision, what was reported | connect, read information, erase, write loop, verify, reboot | a lost acknowledgment of a chunk, failures at every await | success means that the image is in the flash; nothing that was written is lost; it ends |
| `Uploader.flash_bootloader`, `perform_factory_reset` | outcome | connect, command, reboot | as for the MAVLink side | as for the MAVLink side |
| `UploaderTask`, `UploaderTaskGroup` | attempt, expected failures, tokens of the limiter | start, run, retry, cancel | tokens on every way out, announced failures, cancellation at any await | no token lost, attempts counted, announced failures not shown as failures, every task ends |
| `SharedUDPSocket`, `UDPTransport` (`network.py`, `io/udp.py`) | subscriptions with bounded queues, queue of the writer, queue of the scanner | subscribe, receive, send, close; reader and writer task | datagrams between the steps of closing, full queues, one reader task for all uploads | each transport gets its own datagrams exactly; senders are not blocked for ever |
| UDP scanner (`scanners/udp.py`) | senders yielded | `run` | several heartbeats of one drone | one upload per drone |
| Console (`cli/rich_ui.py`) | line of each port | `handle_event` | lines outlive attempts | in `TaskGroup` |
| Serial transport (`io/serial.py`) | two threads, two queues, the port, the event `writer_done` | open, receive, send, close; reader and writer thread | threads that block in pyserial while queues and port are closed under them, a write that never ends | nothing accepted is lost, closing raises nothing, releases whoever waits and ends |
| Serial scanner (`scanners/serial.py`) and the loop of `cli/__main__.py` | state of each port, inspections under way | periodic list, inspection, start of a task | ports that go and come back while their tasks run | a suitable port that stays gets a task, and never two for one stay |
| MAVLink codec (`mavlink.py`) | buffer, bytes expected, sequence number | `pack_msg`, `encode`, `parse_char`, `parse_buffer`, `decode`, checksum | packets in fragments, damaged bytes, listening that begins within a packet | chunks do not matter; no byte is skipped silently; whole packets are reported as sent; what is heard as a heartbeat was sent as one |
| Firmware files, utilities, TCP and memory transports, command line | - | - | parsing | not modelled, see the end |

How they interact: the command line feeds targets from a scanner into an
`UploaderTaskGroup`; each `UploaderTask` runs one operation of `Uploader`, with
retries; an operation opens a transport and talks through a
`BootloaderConnection`, which drives a `Protocol`; all UDP transports share one
`SharedUDPSocket`, whose reader task belongs to the task group of the
`Uploader`. Events go back to the console by a synchronous callback.

## Modules

Indented modules extend the one above them; the right column names the instance
that TLC checks, and `...Proofs` the module with the theorems.

    Protocol                operators on a Protocol object           ProtocolTheorems (lemmas)
      ProtocolMachine       the object and a client, arbitrary bytes MCProtocolMachine, ProtocolMachineProofs
      Bootloader            operators on the device
        Connection          one call at a time over a faulty link    ConnectionProofs (any client)
          Session           a bounded client of it                   MCSession
          Upload            upload_firmware as the client            MCUpload, UploadProofs
        MockBootloader      the mock behind its listening socket     MCMockBootloader
    FlashUpdate             what an upload promises of the flash; Upload implements it
    TaskGroup               tasks, retries, limiter, console         (in SerialScannerProofs)
      SerialScanner         ports that come and go, and their tasks  MCSerialScanner, SerialScannerProofs
    SharedSocket            shared UDP socket, transports, scanner   SharedSocketProofs
    SerialPort              serial stream and its two threads        SerialPortProofs
    Mavlink                 operators on a MAVLink object
      MavlinkOperation      flash_bootloader, perform_factory_reset  MCMavlink, MavlinkOperationProofs
    X25                     checksum of MAVLink, twice; MCMavlink uses it

* **Protocol** keeps the attributes of a `Protocol` object in a record and has
  one operator per method, with the method's name. `next_event` is a loop whose
  body returns on every path: one pass of three stages (`read_length`,
  `read_payload`, `read_sync`). Bytes are the numbers 0..255 and replies are
  modelled byte for byte, because framing is what the properties are about. A
  command is a record; its encoding is left out.
* **ProtocolMachine** has an action for each thing that
  `_process_command_inner` does with the object: ask for an event, send, fail
  to send, feed, start over. Two history variables remember whether a command
  is outstanding and how long a payload its reply must have.
* **Bootloader** is the device: `handle_command` follows
  `MockBootloader._handle_command`, `write_to_flash_memory` states in closed
  form what the recursive method does, `deliver` adds the main firmware, which
  ignores bootloader commands and reboots into the bootloader on a MAVLink
  command. The serial number and the chip description are short stand-ins, and
  the checksum is a constant operator `Crc`.
* **Connection** is `_process_command_inner`: one action per branch of its loop
  (an iteration ends where the code awaits), the link as two queues, and the
  device. Which faults may happen is a constant; their number is bounded by
  `MaxFaults`. Without the fault `"late"` a timeout expires only when no answer
  is under way. That is what the documentation of `Command.suggested_timeout`
  asks of the bootloader ("expected to provide a response in the given number
  of seconds at most"). `faults.disturbing` remembers whether anything put a
  reply on the link that its call does not wait for: a late reply, a heartbeat,
  or (`Stray`) a MAVLink reboot packet that reaches a device which has entered
  its bootloader meanwhile, and which rejects it though nobody waits for that.
  `AnyClient` is what every user of the connection may do: one call at a time,
  a reboot packet before a call when nothing answered (`RebootAndCall`, as in
  `ensure_in_bootloader`), cancellation at any await (`Abandon`). With it,
  `OpenSpec` is the connection under any client.
* **MockBootloader** is the mock itself, where Bootloader is only what a command
  does: `pc` names the part of a command that `_receive_next_command` reads
  (`"opcode"`, `"length"`, `"payload"`, `"eoc"`), each with its timeout, or
  `"delaying"` and `"closed"`. Commands are bytes here (`to_bytes`). `writes`
  recurs at the end of the flash as `_write_to_flash_memory` does, with the
  faults of `simulate_desync`; `AnswersAsCommanded` compares it with the closed
  form in Bootloader, and so justifies the use of that form in the other models.
* **Session** is a bounded instance of `OpenSpec` for TLC: commands from a
  finite set, a few steps of the client. **Upload** adds `upload_firmware`, with `pc` naming the await that is under
  way. `ensure_in_bootloader` is its first two phases, `program_bytes` its
  phase without retries.
* **FlashUpdate** is the abstract specification: erase, fill from the beginning
  chunk by chunk, succeed only when complete, leave the flash alone after that.
  The promise lapses (`Lapse`) with the first reply that comes late or the first
  heartbeat on the link, because replies carry no identification.
* **TaskGroup** sees an operation from outside: it may reboot the device, report
  its steps, complete, and return or raise, which it may do even when it has
  completed, because its connection is closed after that. A step is what a task
  does between two awaits. A target is a name and a number, so that the tasks
  of a name can be told apart (a list of targets may name one twice); the
  console has one line for each name (`Show`).
* **SerialScanner** is one loop: `List` takes the list of ports, `Process` is a
  turn over all of it with the tasks that it starts, `Inspect` is
  `_inspect_port`. Devices come and go between any two of them. The task
  group behind the scanner is the whole of TaskGroup.
* **SharedSocket** closes a transport in the three steps of the code, with the
  reader free to run between them, and lets an exception in the reader end
  everything, as the task groups do.
* **SerialPort** starts when `__aenter__` has opened the port and started the
  threads. A step of a thread is what it does between two calls that block (in
  pyserial or in `from_thread.run`), a step of `aclose` what it does between two
  awaits. A memory stream without buffer is a rendezvous: `"handing"` is a
  `send()` that the event loop has not begun, which a closed queue refuses;
  `"sending"` is one that waits, which only closing the receiving end wakes. An
  exception of a thread, or of the body, cancels the task group and abandons
  the threads.
* **Mavlink** is the codec on bytes, for both versions of the protocol, with
  operators named after the methods; the parser loses and regains
  synchronisation as the code does. The checksum is a constant operator.
* **X25** has that checksum as the code computes it and as its definition
  (CRC-16/MCRF4XX) does, bit by bit; an assumption of MCMavlink, which TLC
  evaluates, compares them for every byte.
* **MavlinkOperation** drives the codec: the device sends packets at any time,
  the host receives some of the bytes or all of them, `pc` names its await.

## Runs

Passing runs:

| Run | Instance | What it shows |
|---|---|---|
| `protocol` | fragments that hold markers, payload, length headers and noise; up to 6 bytes buffered | the assertions of `next_event` hold; the turn is clean; replies are framed; none is unsolicited; no byte is lost or repeated |
| `session` | flash of 3 cells, 6 commands, devices in their bootloader or their main firmware, 3 steps of the client (calls, reboots, cancellations), 3 faults of any kind; 1 retry | the "invalid state" of the loop is never reached, each pass of the loop costs a retry, a stage towards the reply or bytes of it, and calls end, whatever the link does; until the link is disturbed, a call that returns was executed during the call, left nothing behind on the link, and its answer is the device's current one |
| `upload` | flash of 4 cells, image of 3, chunks of 2, revisions 3, 5 and 6, starting in the bootloader or in the main firmware, 3 faults of any kind, 2 retries | termination; without a CRC mismatch the image is in place from the verification on, even with late replies, and even if the reboot is not acknowledged; until the link is disturbed the two write pointers agree, there is no false CRC mismatch, nothing written is erased or overwritten, unsupported boards are untouched, and the upload refines `FlashUpdate` |
| `task_group` | a flight controller that is plugged in twice and a modem, 1 token, 2 retries, 2 failures announced by a reboot | tokens exact, attempts counted, every failed attempt gives its reason or uses up an announcement, a line says that an upload failed only when a reason was given, tasks end, also when tasks start as devices come back; one task for one stay; a port that stays is served |
| `shared_socket` | 2 peers, queues of 2, 4 datagrams in and 2 out for each | streams exact across resubscription, targets unique, blocked senders proceed |
| `serial_port` | 3 bytes in, read 2 at a time, 2 items out; the device may go away or take nothing | accepted items are written before the port is closed, the consumer misses nothing but an end, closing raises nothing and ends with both threads, whoever was waiting |
| `mavlink` | heartbeats of MAVLink 1 and 2 (signed), a packet of an unknown type with a marker in it, the ends of two packets; chunks of 1, 18 or all bytes; one command lost, one byte dropped or turned into a marker, a raising transport | parsing is exact: chunks do not matter, no byte is skipped silently, whole packets are reported as sent; heartbeats are genuine; listening that begins within a packet misses others only if it took some bytes for a packet; commands only to a device that was heard; undisturbed success is real; termination |
| `mock` | flash of 3 cells, 2 clients, 2 commands between two reboots, each in one datagram or two; one loss or dropped reply | exactly the commands of the mock's client are read, in order; each is answered by the book; a command that began ends |

Violations: what the documentation says and the code does not do.

| Run | Property | What happens |
|---|---|---|
| `late_chunk_is_skipped` | `SuccessMeansProgrammed` | a reply that is late is taken for the answer to the next command, from then on each chunk is acknowledged by the reply to the one before it, and one that is lost goes unnoticed; the checksum differs, but the upload reports success |
| `unsuitable_target` | `TargetIsSuitable` | a board with another ID is erased for an image that its flash cannot hold |
| `reader_ends_all` | `ReaderSurvives` | a datagram for a transport that is being closed, or whose queue is full, raises in the reader task and ends every upload |
| `boot_is_never_sent` | `BootIsRequested` | `ensure_in_mavlink` takes its lock twice, so a device in its bootloader is never asked to boot |

Smaller disagreements that the models show and that need no run of their own:
`reset()` keeps the payload of a reply whose marker is missing
(`protocol.py:535`), which costs a retry later and nothing else
(`ReturnMeansExecuted`); a `BAD_SILICON_REV` reply is discarded as excess data
(`protocol.py:523`), because `next_event` knows only the other two failures; a timeout of the erase or of the write loop emits no
"timeout" event, because it leaves as an `ExceptionGroup` or as a
`RuntimeError` (`uploader.py:436`, `457`); an upload whose last attempt fails
as announced is shown as waiting for good (`uploader.py:504`), and logged as
an error with an empty message (`uploader.py:627`); `flash_bootloader` and
`perform_factory_reset` compute `retrying` but never tell it
(`uploader.py:290`, `354`), so that they show "Failed" while they still retry;
the "finished" event may report success although closing the connection then
raises and the task tries again (`uploader.py:491`);
`perform_factory_reset` reports success when its command was lost
(`uploader.py:344`); an upload whose reboot is not acknowledged fails although
the image is in place (`uploader.py:487`); bytes that are in the port, or that
the reader thread is about to pass on, when `aclose` closes its queue are
dropped (`io/serial.py:207`), so that the loopback test of
`test/test_io_serial.py` depends on the reader being quick.

Observations that surprise and that no documentation contradicts:

* Upload: when replies come late the reply to one query may be taken for the
  answer to the next, so the flash size may pass for the revision and a
  bootloader whose revision is not supported may be erased.
* Connection: an empty read closes the receiver of the `Protocol`. While it still
  holds part of a reply, another empty read costs the call nothing
  (`ReadsNothingAgain`): only a transport that ceases to return them, or another
  read that raises or times out, ends that.
* Connection: the first probe waits only 0.05 s (`connection.py:103`), so a
  reply that keeps the times of the protocol may be late there. The model counts
  it as late, and the promises for an undisturbed link lapse.
* MAVLink: a signed heartbeat counts though nothing verifies its signature, and
  the checksum of a packet of unknown type is not looked at. `decode` never
  accepts a `PARAM_SET`: it hands text to an initializer that expects bytes, and the
  exception is reported as bad data.
* Serial scanner: a device that reboots comes back as a new port, so a second task
  starts while the first still retries, and after a success another upload
  begins; both share one line of the console, which goes by the name of the
  port. A device that goes and comes back between two lists, within a second, is not
  noticed: it gets no task of its own, which `StayIsServed` allows. An inspection has no await, so its verdict always precedes the next
  list; once the TODO of `scanners/serial.py:103` is done that will not hold.
* Mock: when a part of a command does not arrive in time, what did arrive
  stays in `_buffer` and is read as commands (a `PROG_MULTI`
  whose last data byte is 35 may erase the flash: its end is 35, 32); the transport stays bound to its first client
  across reboots; a simulated fault in a write that wraps loses its second half.

### Bounds, and why they are enough

* `MaxHeld` = 6 holds a length header with a sync marker behind it, and a
  four-byte payload with its marker; the properties are proved without a bound.
* A flash of 4 cells with chunks of 2 and an image of 3 has a full chunk, a
  short last one and an erased rest. The pointer of a lost acknowledgment can
  lie inside the image and at its end.
* In `upload` `MaxRetries` is 2 instead of 10, in `session` there is 1 retry,
  with `MaxFaults` larger than either, so that retries run out as well as
  succeed. A transport that raises when the upload opens it, or when the MAVLink
  packet is sent (`TransportRaises`), ends the upload and is not counted. Three
  steps of the client are a call, the reboot that its silence leads to, and the
  call or the cancellation behind it. The theorems about Connection and Upload
  need none of these bounds.
* Two stays of one device and one token make the task of the second stay wait
  for that of the first; two announced failures per reboot and two retries let
  the announced failures outlast the attempts, be used up before the last of
  them, and overlap with those of the next reboot. The unsuitable port shows that
  only targets get tasks. The theorems need none of these bounds.
* Three bytes read two at a time leave one in the port while the reader holds
  the others; of two items one is being written while the next waits.
* Queues of two fill up with four datagrams, and two datagrams per peer block a
  sender.
* In `mavlink` the parser meets every split of a packet (chunks of one byte), a
  chunk that ends within the next packet (18), and all bytes at once; a damaged
  byte is the marker, the length, flags, a byte of the header, of the payload
  or of the checksum; two packets let it lose the first and find the second.
* In `mock` a flash of 3 cells is passed by a write of two and, at its end, by
  one cell; one fault is a lost part of a command, which the second command then
  follows. Counters start over at a reboot, so that this goes on for ever. The
  run has `SimulateDesync` set, with which the mock says it is of revision 6.
* `Crc` of the instances tells all flash contents of that size apart. The real
  CRC-32 does so only with high probability: `VerifiedMeansProgrammed` holds up
  to collisions.

### Fairness

Weak fairness of what happens by itself: the event loop runs a task that can
run, the device serves what reaches it, timers expire (`Progress`, `Client`,
`Step`, `Scan`, `Write`, `Reader`, `Writer`, `Closer`; `Read`, `Timeout` and
`ReplyLate` of the mock). Nothing is assumed of faults, of cancellation or of the
arrival of data. In `TaskGroup` an operation ends, which is what `Finishes` of
`Upload` and of `MavlinkOperation` show. In `MavlinkOperation` receiving is not
fair: only the timer is. In `SerialPort` neither `port.read` nor `port.write` on
an open port need ever return.

### Assumptions about what is outside the repository

The link keeps order; datagrams on the loopback interface, where the mock
lives, may be lost but are not reordered. anyio: a lock raises `RuntimeError` when its owner takes
it again; `aclose()` of a memory stream and of an async context passes a
checkpoint; a task group wraps an exception of a child into an
`ExceptionGroup`; `CapacityLimiter` grants a token when one is free. Sending on
a UDP socket does not raise. pyserial: a read from a port that is closed under
it raises `SerialException`, a write raises that or `PortNotOpenError`. The main firmware executes MAVLink commands that
reach it and sends heartbeats by itself. A packet that was damaged in one byte
does not pass for a heartbeat: that is a property of the checksum, which
`HeartbeatsAreGenuine` checks for the packets of the instance only.
`HeardAsSent` speaks of listening that begins between two packets, whose lengths
are those that they claim (`FirmwareAssumption`). When it begins within one, the
end of that one may look like the beginning of another, and swallow it:
`HeardFromWithin` says what can still be expected.

## Proofs

`ProtocolMachineProofs` proves, for every set of fragments (sequences of bytes
that are not empty), every set of commands and every bound: `TypeCorrect`,
`WaitsAreAlwaysSound`, `TurnIsAlwaysClean`, `ResponsesAreFramed`,
`NoReplyIsUnsolicited` and `BytesAreAlwaysConserved`.

The invariants that the run checks are not inductive as they stand. `Inv` adds
to `TypeOK` that the object is `WellFormed` (each waiting state expects exactly
the bytes it should: four for a length header, two for a marker), that the
history variables agree with it (`PromiseKept`: the payload a wait is for has
the promised length; `WaitsForReply`: the object waits only while a command is
outstanding), and what the last event says of the object. `ProtocolTheorems`
states once, for every object, what each operator preserves and returns:
well-formedness, the event that comes out, the length of a reported payload and
the conservation of bytes. That rests on where `SelectInSeq` finds the sync
marker, which needs the least element of a set of positions. The proof of the
step has one lemma per action, and all but `NextEvent` are short.

`ConnectionProofs` is about `OpenSpec`, the connection under any client, for
every device, every set of faults and every number of them.
`InvalidStateIsNeverMet`: the branch that raises "invalid state" is dead,
because once the command of a call was sent, the object is in sync again only
when the call has its reply (`SyncMeansReplied`; it rests on `NextEventReturns`
of `ProtocolTheorems`). `ReturnedIsFramed`: whatever the link does, a call
returns as many bytes as its command calls for. `ReturnedIsExecuted` and
`ReturnedIsCurrent` are `ReturnMeansExecuted` and `AnswerIsCurrent`: until the
link is disturbed, a call that returns was executed, leaves nothing behind that
the next call could take for its answer, and returns what the device answers at
that moment. Neither is inductive. The invariant (`Settled`) says what may be
on the link at any time: either nothing but reboot packets that no bootloader
sees (`Quiet`), or exactly one command is outstanding: it is on its way behind
such packets (`Asked`), or its reply, or what is left of the reply when pieces
of it were lost, is divided in order between the object and the link
(`Answered`). The heart of the proof is that what is left of a reply is never
taken for a reply: it is too short, and where the length is in the reply itself
(the chip description) what is left of the header calls for more bytes than
there are. The attempt to prove it found the case `Stray`: when a reboot packet
arrives late the property is false, as TLC then showed with two faults.

The same module proves what stands in the place of the liveness that no prover
here can show: `EveryPassPays`, that each pass of the loop of
`_process_command_inner` ends the call or takes from what it may still spend
(`Cost`). That is, in lexicographic order, the retries that are left, the stages
between regaining sync and the reply, the end of input, and the bytes that the
current stage still waits for. A length that comes from the wire may be large,
but it is read only when its stage is over, so it never adds to what was there
before: this is why the order is lexicographic and why garbage without end
(`connection.py:319`) runs out of retries. The proof follows the branches of the
loop, with one lemma for each, and uses `ConnInv`, which excludes the branch
that raises "invalid state". `BudgetsRunOut` adds that the order is
well-founded: no endless series of passes gets ever cheaper. Together
they leave a call two ways not to end: to wait for ever in an await, which
the timers exclude (`CallsEnd`, checked by TLC), and `ReadsNothingAgain`.

`UploadProofs` applies that to `upload_firmware`. `UploadIsClient` (`Spec =>
OpenSpec`) shows that the upload uses the connection as a client may, so that
all of the above holds of it. The invariant of the upload itself (`FullInv`)
adds, each part checked by TLC before it was proved:

* `CallOfPhase`: the call under way is that of the phase, on any link;
* `LinkUse`: until the link is disturbed nothing is under way but the command
  of the call, sync requests and, before the bootloader has answered, reboot
  packets; once it has answered it stays until it is told to reboot;
* `Informed`: what the uploader believes of the flash size, and that the
  revision is supported, is true;
* `OneShot`: a chunk is sent once and executed at most once;
* `FlashOK`: how far the image is in place, for each command from the erasure on.

`FlashOK` is what makes the retries safe: a repeated erasure is harmless
because it precedes the first chunk, and an unacknowledged chunk is settled by
asking for the pointer. From it follow `PointersAgree`, `NoFalseMismatch`,
`ProgressIsKept` and the refinement `ImplementsFlashUpdate`, step by step: an
erasure of the device is `Erase`, a chunk that it writes is `Write(m, n)`, a
success is `Succeed`, another end is `Fail`, the first disturbance is `Lapse`,
and everything else is a stutter. They assume `ImageFits`, that the image is
not larger than the flash: the code does not check it (finding
`unsuitable_target`), and without it the writes wrap around and overwrite the
beginning of the image. `UnsupportedIsUntouched` needs no such assumption.

`SerialScannerProofs` proves `TokensAreExact`, `AttemptsAreCounted` and
`FailuresAreReported` of TaskGroup, whose tasks begin at any time, for
every finite set of targets, every number of retries and every limit. The
invariant adds to the type invariant the exact set of token holders, the account
of every task (its failed attempts are the reasons it gave and the announcements
it used up) and that an operation which was announced to fail knows it: that is
why the line of an upload says "Failed" only together with a reason. The same
invariant serves for tasks that the scanner starts: there the module proves
the same three properties, the types, and the action property
`OneTaskPerStay`. To that end it says what the loop knows of each name
(`LoopOK`) and counts tasks against stays (`StayOK`): a name has no more tasks
than its device had stays, and one less while a task is still owed to the
present one; without that, `Process` might find no target left to start.

`SharedSocketProofs` proves `StreamIsExact` and `TargetsAreUnique` for every set
of peers and every size of queue: what an open subscription holds is the window
of numbers that are pending.

`SerialPortProofs` proves `WritesAreKept`, `ReadsAreExact` and `ClosingIsQuiet`
for any number of bytes and items. As long as the reader thread lives, what the consumer has,
what the thread holds and what is in the port count from one without a gap
(`ReadsOK`); the writer holds at most one item that was accepted and is not
written (`WritesOK`); and `aclose` gets past the writer only when it is done or
time is up (`ClosingOK`).

`MavlinkOperationProofs` proves `CommandsReachFirmware` for every set of
packets, remainders, chunks and damages. The invariant says that a bootloader
is silent, that the lock is held exactly while listening (so that the request
to boot can only raise), and that whoever sends has heard. On top of it the module
proves `UndisturbedSuccessIsDone`. Nothing is acknowledged there, so a success
is only as real as the packet: `PackedIsWhole` shows that a receiver finds in
what `pack_msg` makes of any fields and any number their type, the same fields
and a checksum that matches, `WhatIsSentIsUnderstood` that the firmware therefore
knows each of the three messages. The invariant (`DoneInv`) says that what an
operation has got past was carried out or is on its way (`Asked`). The parser
shares its object with the sender; `Receive` takes from it only the buffer and
the expected length: of the attributes that are modelled, its code assigns no other.

The third subject of that module is the parser, for every checksum and every
stream. Induction over the recursion of `parse_rest` is out of reach, so the
module argues by the least counterexample, which needs only that every set of
natural numbers has a least one (`LeastNumber`). In this way it shows first that
the definition means something: the loop of `parse_buffer` ends on every buffer,
because each message takes a byte off it at least (`ParsingEnds`). What
`parse_char` takes and reports depends on the buffer alone (`Taken`, `Report`)
and is not changed by bytes behind it (`BytesBehindDoNotMatter`); from that, a
buffer may be cut anywhere (`CutsDoNotMatter`), and the loop over `receive()`
has heard at any time what one call with all bytes would have returned
(`ChunksNeverMatter`, invariant `ParserInv`). `NoByteIsEverLost` is conservation:
messages, bad data included, and buffer are together what was received.
`PacketsAreHeardAsSent` adds that a packet at the front of the buffer is
reported as it is, and, with `ListenInv` (who goes on listening has heard no
heartbeat), that an operation which was sent a heartbeat does not wait for
another. `ParsingIsAlwaysExact` states the three together.

The theorems assume of the constants what the modules state as `ASSUME`, which
TLC evaluates for the instances, and nothing else. Besides types these are: the
size of the flash and its checksums fit the four bytes of a reply (`FitsWord`;
`to_bytes` raises beyond that), and the checksum of the image together with
erased cells up to the size of the flash is that of the flash with the image in
it (`PaddingAssumption`: that is what the second argument of `Crc` means). The
checksum of a MAVLink packet that the uploader sends fits two bytes
(`ChecksumAssumption`); the packets of the main firmware have the length that
they claim, and its heartbeats the checksum of one (`FirmwareAssumption`). Of its client the connection assumes that data to program are cells, that an
item of the device information has a name (`DeviceInfoItem`) and that an
address within the serial number lies in it (`ClientCommands`).

Only model-checked:

* all liveness properties: fairness is out of the prover's reach;
* `VerifiedMeansProgrammed`, which speaks of disturbed links, on which any four
  bytes may be taken for the checksum, and so depends on the values of the
  instance;
* `HeartbeatsAreGenuine`, that no damaged packet passes for a heartbeat, which
  is a property of the checksum on given packets, and `HeardFromWithin`, which
  depends on which packets look like parts of others;
* the mock, whose write is a recursive operator, as its code is: no theorem may
  reach it. It is a test double; what it does to the flash is compared with
  Bootloader, which the theorems are about.

`TypeCorrect` of the protocol and the types of connection and upload are proved
and not in a run.

## Plan

Done: the protocol and its proofs; session, upload and its refinement, with the
proofs of both, and the bound on the loop of a call; task group, scanner and
their composition; socket; serial stream; MAVLink codec and operations, with the
proofs of the parser; the mock. What could follow: `crc32` of `utils.py` against
its definition, on short inputs; its table of 256 numbers would have to be
repeated in the model.

## Not modelled

Firmware files (`firmware.py`: JSON, base64, zlib), `utils.py`, the TCP and memory transports,
the fixed list of targets and the command line keep no state of their own worth
a model; what the rest needs of them is a constant (the image, its checksum,
the suitable ports, the limits). `receive_exactly` and `receive_until` of the serial stream
serve the tests only. Signing and verifying of MAVLink packets is dead code: nothing sets
a key. The fake progress bar during the erase is left out, and
of the events only those are kept that tell the outcome. The `RuntimeError` of a
second subscription to the same address (`network.py:128`) is left out of
SharedSocket, whose scanner yields each address once; only a fixed list that
names an address twice could meet it. Pyserial may behave in other ways than
assumed above (empty reads, as from `loop://`).
