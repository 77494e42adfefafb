----------------------------- MODULE SerialPort -----------------------------
(***************************************************************************)
(* SerialPortByteStream of ap_uploader/io/serial.py: two worker threads    *)
(* that block in pyserial, the unbuffered memory streams that connect them *)
(* with the event loop, and the steps in which aclose() takes it all down. *)
(*                                                                         *)
(* A client sends and finally closes, as BootloaderConnection does; a      *)
(* consumer receives, at the same time if it likes.  Bytes are numbered in *)
(* each direction.  A step of a thread is what it does between two calls   *)
(* that block; a step of aclose() is what it does between two awaits.      *)
(***************************************************************************)
EXTENDS Integers, Sequences, SequencesExt

CONSTANTS
  MaxReadSize,      \* max_read_size, 1024 in the code
  MaxIn,            \* bound: bytes that arrive from the device
  MaxOut            \* bound: items that the client sends

ASSUME SerialPortAssumption ==
  MaxReadSize \in Nat \ {0} /\ MaxIn \in Nat /\ MaxOut \in Nat

VARIABLES
  phase,      \* how far the stream has come, see Phases
  leaving,    \* how the body of the async with block ended
  channels,   \* the open ends: of the two queues and of the reader stream
  reader,     \* the thread of _read_worker and the bytes it holds
  writer,     \* the thread of _write_worker and the item it holds
  done,       \* the event writer_done
  aborted,    \* the task group of the threads was cancelled
  error,      \* a thread raised an exception that the task group will raise
  timedOut,   \* aclose() did not wait for the writer to the end
  port,       \* the pyserial port: what is to be read, what was written
  client,     \* "idle", or "sending" and waiting for the writer to take it
  consumer,   \* "idle", "waiting", or "ended" by EndOfStream or by closing
  accepted,   \* history: items whose send() returned
  arrived,    \* history: bytes that came from the device
  got         \* history: bytes that receive() returned

workerVars == << reader, writer, done, aborted, error >>
closingVars == << phase, leaving, channels, timedOut >>
userVars == << client, consumer, accepted, arrived, got >>
vars == << workerVars, closingVars, userVars, port >>

(* aclose() waits for the writer, closes the port, closes the stream of    *)
(* the consumer; then __aexit__ waits for the threads.                     *)
Phases == {"open", "draining", "closingPort", "closingStream", "joining", "over"}

Numbers(n) == [i \in 1..n |-> i]

(* After __aenter__: the port is open and both threads are at work. *)
Init ==
  /\ phase = "open" /\ leaving = "normally"
  /\ channels = {"writer_tx", "reader_tx", "reader_stream"}
  /\ reader = [pc |-> "reading", data |-> << >>]
  /\ writer = [pc |-> "receiving", data |-> << >>]
  /\ done = FALSE /\ aborted = FALSE /\ error = FALSE /\ timedOut = FALSE
  /\ port = [open |-> TRUE, failed |-> FALSE, inbox |-> << >>, written |-> << >>]
  /\ client = "idle" /\ consumer = "idle"
  /\ accepted = 0 /\ arrived = 0 /\ got = << >>

------------------------------------------------------------------------------
(* The device. *)

Arrive ==
  /\ port.open /\ ~port.failed /\ arrived < MaxIn
  /\ arrived' = arrived + 1
  /\ port' = [port EXCEPT !.inbox = Append(@, arrived')]
  /\ UNCHANGED << workerVars, closingVars, client, consumer, accepted, got >>

Unplug ==
  /\ port.open /\ ~port.failed
  /\ port' = [port EXCEPT !.failed = TRUE]
  /\ UNCHANGED << workerVars, closingVars, userVars >>

------------------------------------------------------------------------------
(* The reader thread. *)

(* Mutants: the thread never thinks that the port is being closed; it      *)
(* passes on at most max_read_size bytes of all that it read.              *)
never_closing == FALSE
read_all_pass_some(n) ==
  /\ reader' = [pc |-> "handing", data |-> SubSeq(port.inbox, 1, n)]
  /\ port' = [port EXCEPT !.inbox = << >>]

(* self._reader_thread_queue is None: aclose() has begun. *)
is_closing == phase # "open"

(* An exception leaves a worker.  The task group cancels its scope and     *)
(* raises in the end; a thread that was abandoned before is not heard.     *)
Raises ==
  /\ aborted' = TRUE
  /\ error' = (error \/ ~aborted)

Quietly == UNCHANGED << aborted, error >>

read(n) ==
  /\ reader' = [pc |-> "handing", data |-> SubSeq(port.inbox, 1, n)]
  /\ port' = [port EXCEPT !.inbox = SubSeq(@, n + 1, Len(@))]

(* What in_waiting said may be less than what is there by now. *)
ReaderReads ==
  /\ reader.pc = "reading" /\ port.open /\ ~port.failed
  /\ \E n \in 1..MaxReadSize : n <= Len(port.inbox) /\ read(n)
  /\ UNCHANGED << writer, done, aborted, error, closingVars, userVars >>

(* A read from a port that is closed or gone raises SerialException. *)
ReadRaises ==
  /\ reader.pc = "reading" /\ (port.open => port.failed)
  /\ reader' = [pc |-> "ended", data |-> << >>]
  /\ IF is_closing THEN Quietly ELSE Raises
  /\ UNCHANGED << writer, done, closingVars, userVars, port >>

(* send() of the queue begins: refused when an end is closed, else handed  *)
(* over to a waiting receive(), else waiting for one.                      *)
ReaderSends ==
  /\ reader.pc = "handing"
  /\ \/ /\ ~({"reader_tx", "reader_stream"} \subseteq channels)
        /\ reader' = [pc |-> "ended", data |-> << >>]
        /\ UNCHANGED << consumer, got >>
     \/ /\ {"reader_tx", "reader_stream"} \subseteq channels
        /\ consumer = "waiting"
        /\ got' = got \o reader.data
        /\ consumer' = "idle"
        /\ reader' = [pc |-> "reading", data |-> << >>]
     \/ /\ {"reader_tx", "reader_stream"} \subseteq channels
        /\ consumer # "waiting"
        /\ reader' = [reader EXCEPT !.pc = "sending"]
        /\ UNCHANGED << consumer, got >>
  /\ UNCHANGED << writer, done, aborted, error, closingVars, client, accepted,
                  arrived, port >>

(* BrokenResourceError: only closing the receiving end wakes this send(). *)
SendBreaks ==
  /\ reader.pc = "sending" /\ "reader_stream" \notin channels
  /\ reader' = [pc |-> "ended", data |-> << >>]
  /\ UNCHANGED << writer, done, aborted, error, closingVars, userVars, port >>

------------------------------------------------------------------------------
(* The writer thread.  Whatever ends it, writer_done is set. *)

WriterEnds == writer' = [pc |-> "ended", data |-> << >>] /\ done' = TRUE

(* A waiting send() is served even when the queue was closed after it. *)
WriterReceives ==
  /\ writer.pc = "receiving"
  /\ \/ /\ client = "sending"
        /\ accepted' = accepted + 1
        /\ writer' = [pc |-> "writing", data |-> << accepted' >>]
        /\ client' = "idle"
        /\ UNCHANGED done
     \/ /\ client # "sending" /\ "writer_tx" \notin channels
        /\ WriterEnds
        /\ UNCHANGED << client, accepted >>
  /\ UNCHANGED << reader, aborted, error, closingVars, consumer, arrived, got, port >>

WriterWrites ==
  /\ writer.pc = "writing" /\ port.open /\ ~port.failed
  /\ port' = [port EXCEPT !.written = @ \o writer.data]
  /\ writer' = [pc |-> "receiving", data |-> << >>]
  /\ UNCHANGED << reader, done, aborted, error, closingVars, userVars >>

(* PortNotOpenError, or, when the port is gone or was closed under the     *)
(* write, another SerialException that the worker does not handle.         *)
WriteRaises ==
  /\ writer.pc = "writing"
  /\ \/ ~port.open /\ Quietly
     \/ (~port.open \/ port.failed) /\ Raises
  /\ WriterEnds
  /\ UNCHANGED << reader, closingVars, userVars, port >>

------------------------------------------------------------------------------
(* Once the scope is cancelled, a thread that waits for the event loop     *)
(* ends; one that blocks in pyserial goes on, abandoned.                   *)
ReaderCancelled ==
  /\ aborted /\ reader.pc \in {"handing", "sending"}
  /\ reader' = [pc |-> "ended", data |-> << >>]
  /\ UNCHANGED << writer, done, aborted, error, closingVars, userVars, port >>

WriterCancelled ==
  /\ aborted /\ writer.pc = "receiving"
  /\ WriterEnds
  /\ UNCHANGED << reader, aborted, error, closingVars, userVars, port >>

------------------------------------------------------------------------------
(* The users of the stream. *)

send ==
  /\ phase = "open" /\ client = "idle" /\ accepted < MaxOut
  /\ client' = "sending"
  /\ UNCHANGED << workerVars, closingVars, consumer, accepted, arrived, got, port >>

receive ==
  /\ consumer = "idle"
  /\ \/ /\ "reader_stream" \notin channels        \* ClosedResourceError
        /\ consumer' = "ended"
        /\ UNCHANGED << reader, got >>
     \/ /\ "reader_stream" \in channels /\ reader.pc = "sending"
        /\ got' = got \o reader.data
        /\ reader' = [pc |-> "reading", data |-> << >>]
        /\ UNCHANGED consumer
     \/ /\ "reader_stream" \in channels /\ reader.pc # "sending"
        /\ consumer' = IF "reader_tx" \in channels THEN "waiting" ELSE "ended"
        /\ UNCHANGED << reader, got >>
  /\ UNCHANGED << writer, done, aborted, error, closingVars, client, accepted,
                  arrived, port >>

(* aclose() begins: it forgets its queues and closes that of the writer. *)
aclose ==
  /\ phase = "open" /\ client = "idle" /\ ~aborted
  /\ phase' = "draining"
  /\ channels' = channels \ {"writer_tx"}
  /\ UNCHANGED << workerVars, leaving, timedOut, userVars, port >>

(* The body ends by an exception of its own, or is cancelled by the task   *)
(* group of the threads or from outside; a send() under way is withdrawn.  *)
acloseOnException ==
  /\ phase = "open"
  /\ phase' = "draining" /\ leaving' = "exceptionally"
  /\ channels' = channels \ {"writer_tx"}
  /\ client' = "idle"
  /\ aborted' \in {aborted, TRUE}
  /\ UNCHANGED << reader, writer, done, error, timedOut, consumer, accepted, arrived,
                  got, port >>

------------------------------------------------------------------------------
(* The rest of aclose(), shielded from cancellation. *)

(* Mutants: the queue of the reader is left open; nobody waits for the     *)
(* writer.                                                                 *)
ForgetReaderQueue ==
  /\ phase' = "closingPort"
  /\ UNCHANGED << channels, consumer >>
any_time == TRUE

(* The waiting receive() gets EndOfStream. *)
CloseReaderQueue ==
  /\ phase' = "closingPort"
  /\ channels' = channels \ {"reader_tx"}
  /\ consumer' = IF consumer = "waiting" THEN "ended" ELSE consumer

writer_is_done == done

WriterDone ==
  /\ phase = "draining" /\ writer_is_done
  /\ CloseReaderQueue
  /\ UNCHANGED << workerVars, leaving, timedOut, client, accepted, arrived, got, port >>

(* move_on_after(3): the device does not take what is being written. *)
GiveUp ==
  /\ phase = "draining" /\ ~done
  /\ timedOut' = TRUE
  /\ CloseReaderQueue
  /\ UNCHANGED << workerVars, leaving, client, accepted, arrived, got, port >>

ClosePort ==
  /\ phase = "closingPort"
  /\ phase' = "closingStream"
  /\ port' = [port EXCEPT !.open = FALSE]
  /\ UNCHANGED << workerVars, leaving, channels, timedOut, userVars >>

CloseStream ==
  /\ phase = "closingStream"
  /\ phase' = "joining"
  /\ channels' = channels \ {"reader_stream"}
  /\ UNCHANGED << workerVars, leaving, timedOut, userVars, port >>

(* __aexit__ of the task group: it waits for the threads, unless it was    *)
(* cancelled or the body raised, and then abandons them.                   *)
Join ==
  /\ phase = "joining"
  /\ \/ reader.pc = "ended" /\ writer.pc = "ended"
     \/ aborted
     \/ leaving = "exceptionally"
  /\ phase' = "over"
  /\ aborted' = (aborted \/ leaving = "exceptionally")
  /\ UNCHANGED << reader, writer, done, error, leaving, channels, timedOut, userVars,
                  port >>

Terminated == phase = "over" /\ UNCHANGED vars

Reader == ReadRaises \/ ReaderSends \/ SendBreaks \/ ReaderCancelled
Writer == WriterReceives \/ WriteRaises \/ WriterCancelled
Closer == WriterDone \/ GiveUp \/ ClosePort \/ CloseStream \/ Join

Next ==
  \/ Arrive \/ Unplug
  \/ ReaderReads \/ Reader
  \/ WriterWrites \/ Writer
  \/ send \/ receive \/ aclose \/ acloseOnException
  \/ Closer
  \/ Terminated

(* Threads and event loop go on when they can.  Nothing is assumed of the  *)
(* device: it need not send, nor take what is being written.               *)
Spec ==
  /\ Init /\ [][Next]_vars
  /\ WF_vars(Reader) /\ WF_vars(Writer) /\ WF_vars(Closer)

------------------------------------------------------------------------------
(* The types of the stream, its threads and its users. *)
TypeOK ==
  /\ phase \in Phases /\ leaving \in {"normally", "exceptionally"}
  /\ channels \subseteq {"writer_tx", "reader_tx", "reader_stream"}
  /\ reader \in [pc : {"reading", "handing", "sending", "ended"}, data : Seq(1..MaxIn)]
  /\ writer \in [pc : {"receiving", "writing", "ended"}, data : Seq(1..MaxOut)]
  /\ Len(reader.data) <= MaxReadSize
  /\ {done, aborted, error, timedOut} \subseteq BOOLEAN
  /\ port \in [open : BOOLEAN, failed : BOOLEAN, inbox : Seq(1..MaxIn),
               written : Seq(1..MaxOut)]
  /\ client \in {"idle", "sending"} /\ consumer \in {"idle", "waiting", "ended"}
  /\ accepted \in 0..MaxOut /\ arrived \in 0..MaxIn
  /\ got \in Seq(1..MaxIn)

(* What send() accepted is on the wire, in order and complete, before      *)
(* aclose() closes the port; only a device that does not take it within    *)
(* the limit, or that is gone, makes an exception.                         *)
WritesAreKept ==
  /\ IsPrefix(port.written, Numbers(accepted))
  /\ phase \notin {"open", "draining"} /\ ~timedOut /\ ~port.failed =>
       port.written = Numbers(accepted)

(* The consumer receives what the device sent from its beginning, without  *)
(* gaps and repetitions; what closing drops is the end of it.              *)
ReadsAreExact == IsPrefix(got, Numbers(arrived))

(* Closing makes no thread raise: an exception comes out of the stream     *)
(* only if the device was gone, or did not take what was being written.    *)
ClosingIsQuiet == error => port.failed \/ timedOut

(* However it is closed, and whatever the device does, the block is left,  *)
(* both threads end and no receive() waits for ever.                       *)
ClosingEnds ==
  (phase # "open") ~>
    /\ phase = "over"
    /\ reader.pc = "ended" /\ writer.pc = "ended"
    /\ consumer # "waiting"
==============================================================================
