------------------------- MODULE SharedSocketProofs -------------------------
(***************************************************************************)
(* The safety properties of SharedSocket, for every set of peers and every *)
(* size of the queues.                                                     *)
(***************************************************************************)
EXTENDS SharedSocket, SequenceTheorems, TLAPS

(* The datagrams of p that have arrived since it subscribed and that its   *)
(* transport has not taken.                                                *)
Pending(p) == arrived[p] - opened[p] - taken[p]

(* n numbers in a row, from k + 1. *)
Window(k, n) == [i \in 1..n |-> k + i]

(* A subscription that is open holds what is pending; there is none before *)
(* the socket is up.                                                       *)
PeerOK(p) ==
  /\ Running /\ phase[p] = "open" =>
       Pending(p) >= 0 /\ queue[p] = Window(opened[p] + taken[p], Pending(p))
  /\ ~up => phase[p] = "absent"
  /\ tasks[p] = IF p \in yielded THEN 1 ELSE 0

(* The inductive invariant. *)
Inv == TypeOK /\ \A p \in Peers : PeerOK(p)

(* The inductive invariant contains the properties that the run checks. *)
LEMMA InvImpliesProperties == Inv => TypeOK /\ StreamIsExact /\ TargetsAreUnique
<1> SUFFICES ASSUME Inv PROVE StreamIsExact /\ TargetsAreUnique
  BY DEF Inv
<1>1. ASSUME NEW p \in Peers PROVE PeerOK(p)
  BY DEF Inv
<1>2. StreamIsExact
  BY <1>1, Zenon DEF PeerOK, Pending, Window, StreamIsExact
<1>3. TargetsAreUnique
  BY <1>1 DEF PeerOK, TargetsAreUnique
<1> QED
  BY <1>2, <1>3

------------------------------------------------------------------------------
(* A window is a sequence of n numbers. *)
LEMMA WindowType ==
  ASSUME NEW k \in Nat, NEW n \in Nat
  PROVE  Window(k, n) \in Seq(Nat) /\ Len(Window(k, n)) = n
<1>1. Window(k, n) \in [1..n -> Nat] /\ DOMAIN Window(k, n) = 1..n
  BY DEF Window
<1>2. Window(k, n) \in Seq(Nat)
  BY <1>1, SeqDef
<1> QED
  BY <1>1, <1>2, LenProperties

(* A window of no numbers is empty, any other is not. *)
LEMMA WindowEmpty ==
  ASSUME NEW k \in Nat, NEW n \in Nat
  PROVE  (Window(k, n) = << >>) <=> (n = 0)
BY WindowType, EmptySeq

(* A sequence of n numbers that counts from k + 1 is a window. *)
LEMMA CountsFrom ==
  ASSUME NEW k \in Nat, NEW n \in Nat, NEW s \in Seq(Nat), Len(s) = n,
         \A i \in 1..n : s[i] = k + i
  PROVE  s = Window(k, n)
<1>1. DOMAIN s = 1..n /\ s = [i \in DOMAIN s |-> s[i]]
  BY LenProperties
<1> QED
  BY <1>1 DEF Window

(* A window slides by a number at either end. *)
LEMMA WindowTail ==
  ASSUME NEW k \in Nat, NEW n \in Nat \ {0}
  PROVE  Tail(Window(k, n)) = Window(k + 1, n - 1)
<1> DEFINE w == Window(k, n)
<1>1. w \in Seq(Nat) /\ Len(w) = n /\ w # << >>
  BY WindowType, WindowEmpty
<1>2. \A i \in 1..n : w[i] = k + i
  BY DEF Window
<1> HIDE DEF w
<1>3. /\ Tail(w) \in Seq(Nat) /\ Len(Tail(w)) = n - 1
      /\ \A i \in 1..(n - 1) : Tail(w)[i] = w[i + 1]
  BY <1>1, HeadTailProperties
<1>4. \A i \in 1..(n - 1) : Tail(w)[i] = (k + 1) + i
  BY <1>2, <1>3
<1>5. k + 1 \in Nat /\ n - 1 \in Nat
  OBVIOUS
<1>6. Tail(w) = Window(k + 1, n - 1)
  BY <1>3, <1>4, <1>5, CountsFrom
<1> QED
  BY <1>6 DEF w

LEMMA WindowAppend ==
  ASSUME NEW k \in Nat, NEW n \in Nat
  PROVE  Append(Window(k, n), k + n + 1) = Window(k, n + 1)
<1> DEFINE w == Window(k, n)
           longer == Append(w, k + n + 1)
<1>1. w \in Seq(Nat) /\ Len(w) = n
  BY WindowType
<1>2. \A i \in 1..n : w[i] = k + i
  BY DEF Window
<1> HIDE DEF w
<1>3. /\ longer \in Seq(Nat) /\ Len(longer) = n + 1
      /\ \A i \in 1..n : longer[i] = w[i]
      /\ longer[n + 1] = k + n + 1
  BY <1>1, AppendProperties, k + n + 1 \in Nat
<1> HIDE DEF longer
<1>4. \A i \in 1..(n + 1) : longer[i] = k + i
  BY <1>2, <1>3
<1>5. longer = Window(k, n + 1)
  BY <1>3, <1>4, CountsFrom, n + 1 \in Nat
<1> QED
  BY <1>5 DEF longer, w

------------------------------------------------------------------------------
(* Nothing has arrived when the program starts. *)
LEMMA InitInv == Init => Inv
<1> SUFFICES ASSUME Init PROVE Inv
  OBVIOUS
<1>1. TypeOK
  <2>1. << >> \in Seq(1..MaxArrivals) /\ << >> \in Seq(Peers) /\ Len(<< >>) = 0
    BY EmptySeq
  <2>2. queue \in [Peers -> Seq(1..MaxArrivals)] /\ \A p \in Peers : queue[p] = << >>
    BY <2>1 DEF Init
  <2>3. phase \in [Peers -> Phases] /\ tasks \in [Peers -> Nat]
    BY DEF Init, Phases
  <2>4. {arrived, opened, taken} \subseteq [Peers -> 0..MaxArrivals]
    BY SharedSocketAssumption DEF Init
  <2>5. sends \in [Peers -> 0..MaxSends]
    BY SharedSocketAssumption DEF Init
  <2>6. \A p \in Peers : Len(queue[p]) <= BufferSize
    BY <2>1, <2>2, SharedSocketAssumption
  <2>7. /\ unmatched \in Seq(Peers) /\ Len(unmatched) <= UnmatchedSize
        /\ outgoing \in Seq(Peers)
    BY <2>1, SharedSocketAssumption DEF Init
  <2> QED
    BY <2>2, <2>3, <2>4, <2>5, <2>6, <2>7 DEF Init, TypeOK
<1>2. ASSUME NEW p \in Peers PROVE PeerOK(p)
  BY DEF Init, PeerOK, Running
<1> QED
  BY <1>1, <1>2 DEF Inv

(* What the invariant says of a peer. *)
LEMMA PeerFacts ==
  ASSUME Inv, NEW p \in Peers
  PROVE  /\ phase[p] \in Phases /\ queue[p] \in Seq(1..MaxArrivals)
         /\ Len(queue[p]) \in 0..BufferSize
         /\ arrived[p] \in 0..MaxArrivals /\ opened[p] \in 0..MaxArrivals
         /\ taken[p] \in 0..MaxArrivals
         /\ tasks[p] \in Nat /\ sends[p] \in 0..MaxSends
         /\ MaxArrivals \in Nat /\ MaxSends \in Nat /\ BufferSize \in Nat \ {0}
         /\ PeerOK(p)
BY SharedSocketAssumption DEF Inv, TypeOK

(* The numbers among them. *)
LEMMA PeerCounts ==
  ASSUME Inv, NEW p \in Peers
  PROVE  /\ arrived[p] \in Nat /\ opened[p] \in Nat /\ taken[p] \in Nat
         /\ sends[p] \in Nat /\ MaxSends \in Nat
         /\ arrived[p] <= MaxArrivals /\ MaxArrivals \in Nat
BY PeerFacts

(* A peer is as it was if its variables are, and the socket only goes down. *)
LEMMA PeerKept ==
  ASSUME NEW p \in Peers, PeerOK(p), up' = up, Running' => Running,
         phase'[p] \in {phase[p]} \union (IF up THEN Phases \ {"open"} ELSE {}),
         queue'[p] = queue[p], opened'[p] = opened[p], taken'[p] = taken[p],
         Running' /\ phase'[p] = "open" => arrived'[p] = arrived[p],
         tasks'[p] = tasks[p], p \in yielded' <=> p \in yielded
  PROVE  PeerOK(p)'
BY DEF PeerOK, Pending, Running

------------------------------------------------------------------------------
(* One lemma per action. *)

(* When the socket comes up nobody has subscribed yet. *)
LEMMA StartUpStep == ASSUME Inv, StartUp PROVE Inv'
<1>1. TypeOK'
  BY DEF Inv, TypeOK, StartUp, subscriptionVars, scannerVars, sendVars
<1>2. ASSUME NEW p \in Peers PROVE PeerOK(p)'
  BY PeerFacts DEF PeerOK, Pending, StartUp, subscriptionVars, scannerVars, sendVars
<1> QED
  BY <1>1, <1>2 DEF Inv

(* UDPTransport.__aenter__: the new queue holds nothing, and nothing of    *)
(* what has arrived so far is pending.                                     *)
LEMMA SubscribeStep == ASSUME Inv, NEW p \in Peers, Subscribe(p) PROVE Inv'
<1>1. /\ phase' = [phase EXCEPT ![p] = "open"] /\ queue' = [queue EXCEPT ![p] = << >>]
      /\ opened' = [opened EXCEPT ![p] = arrived[p]] /\ taken' = [taken EXCEPT ![p] = 0]
      /\ UNCHANGED << up, crash, unmatched, yielded, tasks, outgoing, sends, arrived >>
      /\ up
  BY DEF Subscribe, new_queue, scannerVars, sendVars, Running
<1>2. TypeOK'
  <2>1. << >> \in Seq(1..MaxArrivals) /\ Len(<< >>) <= BufferSize
    BY EmptySeq, SharedSocketAssumption
  <2>2. arrived[p] \in 0..MaxArrivals /\ 0 \in 0..MaxArrivals
    BY PeerFacts
  <2>3. "open" \in Phases
    BY DEF Phases
  <2> QED
    BY <1>1, <2>1, <2>2, <2>3 DEF Inv, TypeOK
<1>3. ASSUME NEW q \in Peers PROVE PeerOK(q)'
  <2>1. CASE q = p
    <3>1. /\ queue'[p] = << >> /\ opened'[p] = arrived'[p] /\ taken'[p] = 0
          /\ arrived'[p] \in Nat
      BY <1>1, PeerFacts DEF Inv, TypeOK
    <3>2. Window(arrived'[p] + 0, 0) = << >>
      BY <3>1, WindowType
    <3> QED
      BY <2>1, <1>1, <3>1, <3>2, PeerFacts DEF PeerOK, Pending
  <2>2. CASE q # p
    BY <2>2, <1>1, PeerFacts, PeerKept DEF Inv, TypeOK, Running
  <2> QED
    BY <2>1, <2>2
<1> QED
  BY <1>2, <1>3 DEF Inv

(* UDPTransport.receive: the window begins one datagram later. *)
LEMMA ReceiveStep == ASSUME Inv, NEW p \in Peers, Receive(p) PROVE Inv'
<1>1. /\ Running /\ phase[p] = "open" /\ queue[p] # << >>
      /\ queue' = [queue EXCEPT ![p] = Tail(queue[p])]
      /\ taken' = [taken EXCEPT ![p] = taken[p] + 1]
      /\ UNCHANGED << up, crash, phase, opened, unmatched, yielded, tasks, outgoing,
                      sends, arrived >>
  BY DEF Receive, scannerVars, sendVars
<1>2. /\ Pending(p) \in Nat \ {0} /\ queue[p] = Window(opened[p] + taken[p], Pending(p))
      /\ opened[p] + taken[p] \in Nat /\ taken[p] + 1 \in 0..MaxArrivals
  <2>1. Pending(p) \in Nat /\ queue[p] = Window(opened[p] + taken[p], Pending(p))
    BY <1>1, PeerFacts DEF PeerOK, Pending
  <2>2. opened[p] + taken[p] \in Nat
    BY PeerCounts
  <2>3. Pending(p) # 0
    BY <1>1, <2>1, <2>2, WindowType
  <2> QED
    BY <2>1, <2>2, <2>3, PeerCounts DEF Pending
<1>3. queue'[p] = Window(opened[p] + (taken[p] + 1), Pending(p) - 1)
  <2>1. queue'[p] = Tail(queue[p])
    BY <1>1 DEF Inv, TypeOK
  <2>2. opened[p] + taken[p] + 1 = opened[p] + (taken[p] + 1)
    BY PeerFacts
  <2> QED
    BY <2>1, <2>2, <1>2, WindowTail
<1>4. TypeOK'
  <2>1. /\ Tail(queue[p]) \in Seq(1..MaxArrivals)
        /\ Len(Tail(queue[p])) <= BufferSize
    <3>1. queue[p] \in Seq(1..MaxArrivals) /\ queue[p] # << >> /\ Len(queue[p]) <= BufferSize
      BY <1>1, PeerFacts
    <3>2. /\ Tail(queue[p]) \in Seq(1..MaxArrivals) /\ Len(queue[p]) \in Nat
          /\ Len(Tail(queue[p])) = Len(queue[p]) - 1
      BY <3>1, HeadTailProperties, LenProperties
    <3> QED
      BY <3>1, <3>2, SharedSocketAssumption
  <2> QED
    BY <1>1, <1>2, <2>1 DEF Inv, TypeOK
<1>5. ASSUME NEW q \in Peers PROVE PeerOK(q)'
  <2>1. CASE q = p
    <3>1. taken'[p] = taken[p] + 1 /\ Pending(p)' = Pending(p) - 1
      <4>1. /\ taken'[p] = taken[p] + 1
            /\ arrived'[p] = arrived[p] /\ opened'[p] = opened[p]
        BY <1>1 DEF Inv, TypeOK
      <4> QED
        BY <4>1, PeerCounts DEF Pending
    <3> QED
      BY <2>1, <1>1, <1>2, <1>3, <3>1, PeerFacts DEF PeerOK
  <2>2. CASE q # p
    BY <2>2, <1>1, PeerFacts, PeerKept DEF Inv, TypeOK, Running
  <2> QED
    BY <2>1, <2>2
<1> QED
  BY <1>4, <1>5 DEF Inv

(* Sending changes what the writer has to do, and nothing else. *)
LEMMA SendStep == ASSUME Inv, NEW p \in Peers, Send(p) PROVE Inv'
<1>1. /\ outgoing' = Append(outgoing, p) /\ sends' = [sends EXCEPT ![p] = sends[p] + 1]
      /\ UNCHANGED << up, crash, phase, queue, opened, taken, unmatched, yielded, tasks,
                      arrived >>
      /\ sends[p] < MaxSends
  BY DEF Send, subscriptionVars, scannerVars
<1>2. TypeOK'
  <2>1. Append(outgoing, p) \in Seq(Peers)
    <3>1. outgoing \in Seq(Peers)
      BY DEF Inv, TypeOK
    <3> QED
      BY <3>1, AppendProperties
  <2>2. sends[p] + 1 \in 0..MaxSends
    BY <1>1, PeerCounts
  <2> QED
    BY <1>1, <2>1, <2>2 DEF Inv, TypeOK
<1>3. ASSUME NEW q \in Peers PROVE PeerOK(q)'
  BY <1>1, PeerFacts, PeerKept DEF Running
<1> QED
  BY <1>2, <1>3 DEF Inv

(* The steps of aclose() end what the property promises of the queue. *)
LEMMA CloseStepKeeps ==
  ASSUME Inv, NEW p \in Peers, NEW from, NEW to \in Phases \ {"open"}, CloseStep(p, from, to)
  PROVE  Inv'
<1>1. /\ phase' = [phase EXCEPT ![p] = to] /\ up
      /\ UNCHANGED << up, crash, queue, opened, taken, unmatched, yielded, tasks, outgoing,
                      sends, arrived >>
  BY DEF CloseStep, scannerVars, sendVars, Running
<1>2. TypeOK'
  BY <1>1 DEF Inv, TypeOK
<1>3. ASSUME NEW q \in Peers PROVE PeerOK(q)'
  <2>1. phase'[q] \in {phase[q]} \union (Phases \ {"open"})
    BY <1>1 DEF Inv, TypeOK
  <2> QED
    BY <1>1, <2>1, PeerFacts, PeerKept DEF Running
<1> QED
  BY <1>2, <1>3 DEF Inv

LEMMA CloseSteps ==
  ASSUME Inv, NEW p \in Peers, CloseSendingEnd(p) \/ CloseReceivingEnd(p) \/ Unsubscribe(p)
  PROVE  Inv'
<1>1. {"tx closed", "rx closed", "absent"} \subseteq Phases \ {"open"}
  BY DEF Phases
<1> QED
  BY <1>1, CloseStepKeeps DEF CloseSendingEnd, CloseReceivingEnd, Unsubscribe

(* A datagram more has arrived from p. *)
LEMMA ArriveTypes ==
  ASSUME Inv, NEW p \in Peers, Arrive(p)
  PROVE  /\ arrived' \in [Peers -> 0..MaxArrivals] /\ arrived[p] + 1 \in 1..MaxArrivals
         /\ arrived'[p] = arrived[p] + 1 /\ Running
         /\ \A q \in Peers \ {p} : arrived'[q] = arrived[q]
<1>1. /\ arrived' = [arrived EXCEPT ![p] = arrived[p] + 1]
      /\ arrived[p] < MaxArrivals /\ Running
  BY DEF Arrive
<1>2. arrived[p] + 1 \in 1..MaxArrivals /\ arrived[p] + 1 \in 0..MaxArrivals
  BY <1>1, PeerFacts
<1>3. arrived \in [Peers -> 0..MaxArrivals]
  BY DEF Inv, TypeOK
<1> QED
  BY <1>1, <1>2, <1>3

(* A datagram for an open subscription: the window ends one later. *)
LEMMA DispatchStep == ASSUME Inv, NEW p \in Peers, Dispatch(p) PROVE Inv'
<1>1. /\ Arrive(p) /\ phase[p] = "open" /\ ~Full(p)
      /\ queue' = [queue EXCEPT ![p] = Append(queue[p], arrived[p] + 1)]
      /\ UNCHANGED << up, crash, phase, opened, taken, unmatched, yielded, tasks, outgoing,
                      sends >>
  BY DEF Dispatch, scannerVars, sendVars
<1>2. TypeOK'
  <2>1. queue[p] \in Seq(1..MaxArrivals) /\ arrived[p] + 1 \in 1..MaxArrivals
    BY <1>1, PeerFacts, ArriveTypes
  <2>2. /\ Append(queue[p], arrived[p] + 1) \in Seq(1..MaxArrivals)
        /\ Len(Append(queue[p], arrived[p] + 1)) = Len(queue[p]) + 1
    BY <2>1, AppendProperties
  <2>3. Len(Append(queue[p], arrived[p] + 1)) <= BufferSize
    BY <2>2, <1>1, PeerFacts DEF Full
  <2> QED
    BY <1>1, <2>2, <2>3, ArriveTypes DEF Inv, TypeOK
<1>3. ASSUME NEW q \in Peers PROVE PeerOK(q)'
  <2>1. CASE q = p
    <3>1. /\ Pending(p) \in Nat /\ queue[p] = Window(opened[p] + taken[p], Pending(p))
          /\ opened[p] + taken[p] \in Nat
          /\ arrived[p] + 1 = opened[p] + taken[p] + Pending(p) + 1
      <4>1. Pending(p) >= 0 /\ queue[p] = Window(opened[p] + taken[p], Pending(p))
        BY <1>1, PeerFacts, ArriveTypes DEF PeerOK
      <4>2. /\ Pending(p) \in Int /\ opened[p] + taken[p] \in Nat
            /\ arrived[p] + 1 = opened[p] + taken[p] + Pending(p) + 1
        BY PeerCounts DEF Pending
      <4> QED
        BY <4>1, <4>2
    <3>2. queue'[p] = Window(opened[p] + taken[p], Pending(p) + 1)
      <4>1. queue'[p] = Append(queue[p], arrived[p] + 1)
        BY <1>1 DEF Inv, TypeOK
      <4> QED
        BY <4>1, <3>1, WindowAppend
    <3>3. Pending(p)' = Pending(p) + 1
      <4>1. arrived'[p] = arrived[p] + 1 /\ opened'[p] = opened[p] /\ taken'[p] = taken[p]
        BY <1>1, ArriveTypes
      <4> QED
        BY <4>1, PeerCounts DEF Pending
    <3> QED
      BY <2>1, <1>1, <3>1, <3>2, <3>3, PeerFacts, ArriveTypes DEF PeerOK, Running
  <2>2. CASE q # p
    <3>1. queue'[q] = queue[q] /\ arrived'[q] = arrived[q]
      BY <2>2, <1>1, ArriveTypes DEF Inv, TypeOK
    <3> QED
      BY <1>1, <3>1, PeerFacts, PeerKept DEF Running
  <2> QED
    BY <2>1, <2>2
<1> QED
  BY <1>2, <1>3 DEF Inv

(* A datagram that the reader cannot deliver ends everything. *)
LEMMA DispatchRaisesStep == ASSUME Inv, NEW p \in Peers, DispatchRaises(p) PROVE Inv'
<1>1. /\ Arrive(p) /\ crash' \in {"ClosedResourceError", "WouldBlock"}
      /\ UNCHANGED << up, phase, queue, opened, taken, unmatched, yielded, tasks, outgoing,
                      sends >>
  BY DEF DispatchRaises, subscriptionVars, scannerVars, sendVars
<1>2. TypeOK'
  BY <1>1, ArriveTypes DEF Inv, TypeOK
<1>3. ASSUME NEW q \in Peers PROVE PeerOK(q)'
  BY <1>1, PeerFacts, PeerKept DEF Running
<1> QED
  BY <1>2, <1>3 DEF Inv

(* A datagram of nobody's goes to the scanner, or is dropped. *)
LEMMA DispatchUnmatchedStep ==
  ASSUME Inv, NEW p \in Peers, DispatchUnmatched(p) PROVE Inv'
<1>1. /\ Arrive(p) /\ phase[p] = "absent"
      /\ unmatched' = IF Len(unmatched) < UnmatchedSize THEN Append(unmatched, p)
                                                         ELSE unmatched
      /\ UNCHANGED << up, crash, phase, queue, opened, taken, yielded, tasks, outgoing,
                      sends >>
  BY DEF DispatchUnmatched, subscriptionVars, sendVars
<1>2. TypeOK'
  <2>1. unmatched' \in Seq(Peers) /\ Len(unmatched') <= UnmatchedSize
    <3>1. unmatched \in Seq(Peers) /\ Len(unmatched) \in Nat /\ Len(unmatched) <= UnmatchedSize
      BY LenProperties DEF Inv, TypeOK
    <3>2. /\ Append(unmatched, p) \in Seq(Peers)
          /\ Len(Append(unmatched, p)) = Len(unmatched) + 1
      BY <3>1, AppendProperties
    <3> QED
      BY <1>1, <3>1, <3>2, SharedSocketAssumption
  <2> QED
    BY <1>1, <2>1, ArriveTypes DEF Inv, TypeOK
<1>3. ASSUME NEW q \in Peers PROVE PeerOK(q)'
  <2>1. phase[q] = "open" => arrived'[q] = arrived[q]
    BY <1>1, ArriveTypes
  <2> QED
    BY <1>1, <2>1, PeerFacts, PeerKept DEF Running
<1> QED
  BY <1>2, <1>3 DEF Inv

(* The scanner starts a task only for a sender it has not yielded yet. *)
LEMMA ScanStep == ASSUME Inv, NEW heartbeat \in BOOLEAN, Scan(heartbeat) PROVE Inv'
<1> DEFINE s == Head(unmatched)
<1>1. /\ unmatched' = Tail(unmatched) /\ unmatched # << >>
      /\ UNCHANGED << up, crash, phase, queue, opened, taken, outgoing, sends, arrived >>
      /\ \/ /\ s \notin yielded /\ yielded' = yielded \union {s}
            /\ tasks' = [tasks EXCEPT ![s] = tasks[s] + 1]
         \/ UNCHANGED << yielded, tasks >>
  BY DEF Scan, remember, subscriptionVars, sendVars
<1>2. /\ s \in Peers /\ Tail(unmatched) \in Seq(Peers)
      /\ Len(Tail(unmatched)) <= UnmatchedSize
  <2>1. unmatched \in Seq(Peers) /\ Len(unmatched) \in Nat /\ Len(unmatched) <= UnmatchedSize
    BY LenProperties DEF Inv, TypeOK
  <2>2. /\ s \in Peers /\ Tail(unmatched) \in Seq(Peers)
        /\ Len(Tail(unmatched)) = Len(unmatched) - 1
    BY <1>1, <2>1, HeadTailProperties
  <2> QED
    BY <2>1, <2>2, SharedSocketAssumption
<1> HIDE DEF s
<1>3. TypeOK'
  <2>1. yielded' \subseteq Peers /\ tasks' \in [Peers -> Nat]
    <3>1. tasks[s] + 1 \in Nat
      BY <1>2, PeerFacts
    <3> QED
      BY <1>1, <1>2, <3>1 DEF Inv, TypeOK
  <2> QED
    BY <1>1, <1>2, <2>1 DEF Inv, TypeOK
<1>4. ASSUME NEW q \in Peers PROVE PeerOK(q)'
  <2>1. CASE q = s /\ s \notin yielded /\ yielded' = yielded \union {s}
                /\ tasks' = [tasks EXCEPT ![s] = tasks[s] + 1]
    <3>1. tasks'[q] = 1 /\ q \in yielded'
      BY <2>1, PeerFacts DEF Inv, TypeOK, PeerOK
    <3> QED
      BY <3>1, <1>1, PeerFacts DEF PeerOK, Pending, Running
  <2>2. CASE tasks'[q] = tasks[q] /\ (q \in yielded' <=> q \in yielded)
    BY <2>2, <1>1, PeerFacts, PeerKept DEF Running
  <2> QED
    BY <2>1, <2>2, <1>1, <1>2 DEF Inv, TypeOK
<1> QED
  BY <1>3, <1>4 DEF Inv

(* The writer takes its datagram off the queue. *)
LEMMA WriteStep == ASSUME Inv, Write PROVE Inv'
<1>1. /\ outgoing' = Tail(outgoing) /\ outgoing # << >>
      /\ UNCHANGED << up, crash, phase, queue, opened, taken, unmatched, yielded, tasks,
                      sends, arrived >>
  BY DEF Write, written, subscriptionVars, scannerVars
<1>2. TypeOK'
  BY <1>1, HeadTailProperties DEF Inv, TypeOK
<1>3. ASSUME NEW q \in Peers PROVE PeerOK(q)'
  BY <1>1, PeerFacts, PeerKept DEF Running
<1> QED
  BY <1>2, <1>3 DEF Inv

(* Every step of the socket and its users preserves the invariant. *)
LEMMA NextInv == Inv /\ [Next]_vars => Inv'
<1> SUFFICES ASSUME Inv, [Next]_vars PROVE Inv'
  OBVIOUS
<1>1. CASE UNCHANGED vars
  <2>1. TypeOK'
    BY <1>1 DEF vars, subscriptionVars, scannerVars, sendVars, Inv, TypeOK
  <2>2. ASSUME NEW q \in Peers PROVE PeerOK(q)'
    BY <1>1, PeerFacts, PeerKept DEF vars, subscriptionVars, scannerVars, sendVars, Running
  <2> QED
    BY <2>1, <2>2 DEF Inv
<1>2. CASE StartUp \/ Write \/ \E heartbeat \in BOOLEAN : Scan(heartbeat)
  BY <1>2, StartUpStep, WriteStep, ScanStep
<1>3. ASSUME NEW p \in Peers,
             \/ Subscribe(p) \/ Receive(p) \/ Send(p)
             \/ CloseSendingEnd(p) \/ CloseReceivingEnd(p) \/ Unsubscribe(p)
             \/ Dispatch(p) \/ DispatchRaises(p) \/ DispatchUnmatched(p)
      PROVE  Inv'
  BY <1>3, SubscribeStep, ReceiveStep, SendStep, CloseSteps, DispatchStep,
     DispatchRaisesStep, DispatchUnmatchedStep
<1> QED
  BY <1>1, <1>2, <1>3 DEF Next

(* The invariant holds in every reachable state. *)
LEMMA AlwaysInv == Spec => []Inv
BY InitInv, NextInv, PTL DEF Spec

------------------------------------------------------------------------------
(* UDPTransport.receive returns exactly the datagrams of its own peer, in  *)
(* order and from the moment it subscribed, for any number of transports,  *)
(* whatever the other ones do and whenever datagrams arrive.               *)
THEOREM StreamsAreAlwaysExact == Spec => []StreamIsExact
BY AlwaysInv, InvImpliesProperties, PTL

(* UDPMAVLinkHeartbeatScanner.run yields a sender at most once, so that no *)
(* two transports ever compete for one subscription.                       *)
THEOREM TargetsAreAlwaysUnique == Spec => []TargetsAreUnique
BY AlwaysInv, InvImpliesProperties, PTL
==============================================================================
