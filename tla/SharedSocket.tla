---------------------------- MODULE SharedSocket ----------------------------
(***************************************************************************)
(* SharedUDPSocket of ap_uploader/network.py with the UDP transports that  *)
(* subscribe to it and the scanner that listens to the rest: one socket,   *)
(* one reader task and one writer task for all the uploads that run at the *)
(* same time.                                                              *)
(*                                                                         *)
(* A step is what a task does between two awaits.  A datagram is known by  *)
(* its number in the order of arrival from its sender.                     *)
(***************************************************************************)
EXTENDS Integers, Sequences, SequencesExt

CONSTANTS
  Peers,            \* senders: pairs of address and port
  BufferSize,       \* datagrams a queue holds, 64 in the code
  UnmatchedSize,    \* datagrams the queue of the scanner holds, 256 in the code
  MaxArrivals,      \* bound: datagrams from each peer
  MaxSends          \* bound: datagrams to each peer

ASSUME SharedSocketAssumption ==
  /\ BufferSize \in Nat \ {0} /\ UnmatchedSize \in Nat \ {0}
  /\ MaxArrivals \in Nat /\ MaxSends \in Nat

VARIABLES
  up,           \* the socket is open, its workers run
  crash,        \* the exception that ended a worker and with it the program
  phase,        \* how far each transport is, from open to closed
  queue,        \* the queue of each subscription
  unmatched,    \* the queue of the scanner
  yielded,      \* senders the scanner has yielded
  outgoing,     \* datagrams to send; those beyond BufferSize block their sender
  arrived,      \* history: datagrams that have arrived
  opened,       \* history: arrived when the subscription began
  taken,        \* history: datagrams received from the subscription
  tasks,        \* history: upload tasks started for each sender
  sends         \* history: datagrams handed to send()

subscriptionVars == << phase, queue, opened, taken >>
scannerVars == << unmatched, yielded, tasks >>
sendVars == << outgoing, sends >>
vars == << up, crash, subscriptionVars, scannerVars, sendVars, arrived >>

Phases == {"absent", "open", "tx closed", "rx closed"}

Init ==
  /\ up = FALSE /\ crash = "none"
  /\ phase = [p \in Peers |-> "absent"]
  /\ queue = [p \in Peers |-> << >>]
  /\ unmatched = << >> /\ yielded = {} /\ outgoing = << >>
  /\ arrived = [p \in Peers |-> 0]
  /\ opened = arrived /\ taken = arrived /\ tasks = arrived /\ sends = arrived

Running == up /\ crash = "none"

(* _ensure_shared_udp_socket_is_up, then the scanner starts to listen.     *)
(* What arrives in between has no handler and is dropped, as if it had not *)
(* arrived.                                                                *)
StartUp ==
  /\ ~up
  /\ up' = TRUE
  /\ UNCHANGED << crash, subscriptionVars, scannerVars, sendVars, arrived >>

------------------------------------------------------------------------------
(* UDPTransport. *)

(* Mutant: the queue of an earlier subscription is used again. *)
old_queue(p) == queue[p]

new_queue(p) == << >>

(* __aenter__: one task for each sender that was yielded, so there is no   *)
(* other subscription of it.                                               *)
Subscribe(p) ==
  /\ Running
  /\ p \in yielded /\ phase[p] = "absent"
  /\ phase' = [phase EXCEPT ![p] = "open"]
  /\ queue' = [queue EXCEPT ![p] = new_queue(p)]
  /\ opened' = [opened EXCEPT ![p] = arrived[p]]
  /\ taken' = [taken EXCEPT ![p] = 0]
  /\ UNCHANGED << up, crash, scannerVars, sendVars, arrived >>

Receive(p) ==
  /\ Running
  /\ phase[p] = "open" /\ queue[p] # << >>
  /\ queue' = [queue EXCEPT ![p] = Tail(@)]
  /\ taken' = [taken EXCEPT ![p] = @ + 1]
  /\ UNCHANGED << up, crash, phase, opened, scannerVars, sendVars, arrived >>

Blocked(p) == \E i \in 1..Len(outgoing) : i > BufferSize /\ outgoing[i] = p

Send(p) ==
  /\ Running
  /\ phase[p] = "open" /\ ~Blocked(p)
  /\ sends[p] < MaxSends
  /\ outgoing' = Append(outgoing, p)
  /\ sends' = [sends EXCEPT ![p] = @ + 1]
  /\ UNCHANGED << up, crash, subscriptionVars, scannerVars, arrived >>

(* aclose() closes both ends of the queue and then leaves the context that *)
(* removes the subscription, and awaits after each of the three.           *)
CloseStep(p, from, to) ==
  /\ Running
  /\ phase[p] = from /\ ~Blocked(p)
  /\ phase' = [phase EXCEPT ![p] = to]
  /\ UNCHANGED << up, crash, queue, opened, taken, scannerVars, sendVars, arrived >>

CloseSendingEnd(p) == CloseStep(p, "open", "tx closed")
CloseReceivingEnd(p) == CloseStep(p, "tx closed", "rx closed")
Unsubscribe(p) == CloseStep(p, "rx closed", "absent")

------------------------------------------------------------------------------
(* The reader: a datagram goes to the subscription of its sender, else to  *)
(* the scanner.                                                            *)

Arrive(p) ==
  /\ Running
  /\ arrived[p] < MaxArrivals
  /\ arrived' = [arrived EXCEPT ![p] = @ + 1]

Full(p) == Len(queue[p]) = BufferSize

Dispatch(p) ==
  /\ Arrive(p)
  /\ phase[p] = "open" /\ ~Full(p)
  /\ queue' = [queue EXCEPT ![p] = Append(@, arrived[p] + 1)]
  /\ UNCHANGED << up, crash, phase, opened, taken, scannerVars, sendVars >>

(* send_nowait raises on a closed and on a full queue.  Nothing catches    *)
(* it: the task group of the socket fails, and with it that of Uploader.   *)
DispatchRaises(p) ==
  /\ Arrive(p)
  /\ \/ phase[p] \in {"tx closed", "rx closed"} /\ crash' = "ClosedResourceError"
     \/ phase[p] = "open" /\ Full(p) /\ crash' = "WouldBlock"
  /\ UNCHANGED << up, subscriptionVars, scannerVars, sendVars >>

(* A datagram that finds the queue of the scanner full is dropped. *)
DispatchUnmatched(p) ==
  /\ Arrive(p)
  /\ phase[p] = "absent"
  /\ unmatched' = IF Len(unmatched) < UnmatchedSize THEN Append(unmatched, p) ELSE unmatched
  /\ UNCHANGED << up, crash, subscriptionVars, yielded, tasks, sendVars >>

(* Mutant: the scanner forgets what it has yielded. *)
forget(p) == yielded

remember(p) == yielded \union {p}

(* UDPMAVLinkHeartbeatScanner.run: the datagram may look like a heartbeat  *)
(* of an autopilot or not.  start_upload_to is called on a yield.          *)
Scan(heartbeat) ==
  /\ Running
  /\ unmatched # << >>
  /\ LET p == Head(unmatched) IN
       IF heartbeat /\ p \notin yielded
         THEN /\ yielded' = remember(p)
              /\ tasks' = [tasks EXCEPT ![p] = @ + 1]
         ELSE UNCHANGED << yielded, tasks >>
  /\ unmatched' = Tail(unmatched)
  /\ UNCHANGED << up, crash, subscriptionVars, sendVars, arrived >>

(* Mutant: the writer sends the first datagram again and again. *)
keep_first == outgoing

written == Tail(outgoing)

(* The writer; the first of the blocked senders takes the place that is free. *)
Write ==
  /\ Running
  /\ outgoing # << >>
  /\ outgoing' = written
  /\ UNCHANGED << up, crash, subscriptionVars, scannerVars, sends, arrived >>

Next ==
  \/ StartUp \/ Write
  \/ \E heartbeat \in BOOLEAN : Scan(heartbeat)
  \/ \E p \in Peers :
       \/ Subscribe(p) \/ Receive(p) \/ Send(p)
       \/ CloseSendingEnd(p) \/ CloseReceivingEnd(p) \/ Unsubscribe(p)
       \/ Dispatch(p) \/ DispatchRaises(p) \/ DispatchUnmatched(p)

Spec == Init /\ [][Next]_vars /\ WF_vars(Write)

------------------------------------------------------------------------------
(* The types of the socket; the queues keep to their sizes. *)
TypeOK ==
  /\ up \in BOOLEAN
  /\ crash \in {"none", "ClosedResourceError", "WouldBlock"}
  /\ phase \in [Peers -> Phases]
  /\ queue \in [Peers -> Seq(1..MaxArrivals)]
  /\ \A p \in Peers : Len(queue[p]) <= BufferSize
  /\ unmatched \in Seq(Peers) /\ Len(unmatched) <= UnmatchedSize
  /\ yielded \subseteq Peers
  /\ outgoing \in Seq(Peers)
  /\ {arrived, opened, taken} \subseteq [Peers -> 0..MaxArrivals]
  /\ tasks \in [Peers -> Nat] /\ sends \in [Peers -> 0..MaxSends]

(* A transport receives exactly the datagrams of its own peer that arrive  *)
(* while it is open, once and in order: nothing of an earlier subscription *)
(* is left over, and nothing is dropped as long as the reader lives.       *)
StreamIsExact ==
  \A p \in Peers : Running /\ phase[p] = "open" =>
    queue[p] = [i \in 1..(arrived[p] - opened[p] - taken[p]) |-> opened[p] + taken[p] + i]

(* A sender is yielded once, however many of its heartbeats were waiting:  *)
(* no two uploads compete for one subscription.                            *)
TargetsAreUnique == \A p \in Peers : tasks[p] <= 1

(* A task that waits for room in the queue of the writer gets it. *)
SendersProceed ==
  \A p \in Peers : Blocked(p) ~> (~Blocked(p) \/ crash # "none")

------------------------------------------------------------------------------
(* A disagreement with the documentation, checked by a run of its own. *)

(* "Upload tasks are shielded from errors in other tasks": neither the     *)
(* closing of one transport nor a peer that sends faster than its reader   *)
(* reads should end the reader task, and with it all the others.           *)
ReaderSurvives == crash = "none"
==============================================================================
