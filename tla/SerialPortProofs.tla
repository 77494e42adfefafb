-------------------------- MODULE SerialPortProofs --------------------------
(***************************************************************************)
(* The safety properties of SerialPort, however many bytes arrive and      *)
(* items are sent, and whenever the stream is closed.                      *)
(***************************************************************************)
EXTENDS SerialPort, SequenceTheorems, TLAPS

(* The types that the proofs need. *)
Types ==
  /\ phase \in Phases
  /\ reader \in [pc : {"reading", "handing", "sending", "ended"}, data : Seq(Nat)]
  /\ writer \in [pc : {"receiving", "writing", "ended"}, data : Seq(Nat)]
  /\ port \in [open : BOOLEAN, failed : BOOLEAN, inbox : Seq(Nat), written : Seq(Nat)]
  /\ done \in BOOLEAN /\ error \in BOOLEAN /\ timedOut \in BOOLEAN
  /\ accepted \in Nat /\ arrived \in Nat /\ got \in Seq(Nat)

(* A sequence that counts from 1. *)
Counting(s) == \A i \in 1..Len(s) : s[i] = i

(* aclose() gets past the writer only when that is done or time is up, and *)
(* closes the port after that; the event writer_done means that the thread *)
(* has ended, on whatever way.                                             *)
ClosingOK ==
  /\ ~port.open => phase \in {"closingStream", "joining", "over"}
  /\ phase \notin {"open", "draining"} => done \/ timedOut
  /\ done <=> writer.pc = "ended"
  /\ error => port.failed \/ timedOut

(* What was accepted is written but for the item that the writer holds; it *)
(* drops one only if the port was gone, or closed before the writer ended. *)
WritesOK ==
  /\ Counting(port.written)
  /\ writer.pc = "receiving" => accepted = Len(port.written)
  /\ writer.pc = "writing" => accepted = Len(port.written) + 1 /\ writer.data = << accepted >>
  /\ writer.pc = "ended" =>
       \/ accepted = Len(port.written)
       \/ accepted = Len(port.written) + 1 /\ (port.failed \/ timedOut)

(* As long as the reader lives, what has arrived is what the consumer has, *)
(* then what the reader holds, then what is in the port.                   *)
Stream == (got \o reader.data) \o port.inbox

ReadsOK ==
  /\ Counting(got) /\ Len(got) <= arrived
  /\ reader.pc # "ended" => Counting(Stream) /\ Len(Stream) = arrived
  /\ reader.pc = "reading" => reader.data = << >>

(* The inductive invariant. *)
Inv == Types /\ ClosingOK /\ WritesOK /\ ReadsOK

------------------------------------------------------------------------------
(* Numbers and the sequences that count. *)

LEMMA NumbersCount ==
  ASSUME NEW n \in Nat
  PROVE  Numbers(n) \in Seq(Nat) /\ Len(Numbers(n)) = n /\ Counting(Numbers(n))
<1>1. Numbers(n) \in [1..n -> Nat] /\ DOMAIN Numbers(n) = 1..n
  BY DEF Numbers
<1>2. Numbers(n) \in Seq(Nat)
  BY <1>1, SeqDef
<1>3. Len(Numbers(n)) = n
  BY <1>1, <1>2, LenProperties
<1>4. Counting(Numbers(n))
  BY <1>3 DEF Counting, Numbers
<1> QED
  BY <1>2, <1>3, <1>4

LEMMA CountingIsNumbers ==
  ASSUME NEW s \in Seq(Nat), Counting(s)
  PROVE  s = Numbers(Len(s))
<1>1. Len(s) \in Nat
  BY LenProperties
<1> QED
  BY <1>1, NumbersCount, SeqEqual DEF Counting

LEMMA CountingIsPrefix ==
  ASSUME NEW s \in Seq(Nat), Counting(s), NEW n \in Nat, Len(s) <= n
  PROVE  IsPrefix(s, Numbers(n))
<1> DEFINE l == Len(s)
           t == Numbers(n)
<1>1. l \in Nat /\ t \in Seq(Nat) /\ Len(t) = n /\ Counting(t)
  BY LenProperties, NumbersCount
<1> HIDE DEF t
<1>2. SubSeq(s, 1, l) = s
  BY SubSeqFull
<1>3. \A i \in 1..l : t[i] \in Nat
  BY <1>1, ElementOfSeq
<1>4. /\ SubSeq(t, 1, l) \in Seq(Nat) /\ Len(SubSeq(t, 1, l)) = l
      /\ \A i \in 1..l : SubSeq(t, 1, l)[i] = t[i]
  BY <1>1, <1>3, SubSeqProperties
<1>5. \A i \in 1..l : SubSeq(t, 1, l)[i] = s[i]
  BY <1>1, <1>4 DEF Counting
<1>6. SubSeq(t, 1, l) = s
  BY <1>4, <1>5, SeqEqual
<1> QED
  BY <1>1, <1>2, <1>6 DEF IsPrefix, t

(* The next number goes on counting. *)
LEMMA CountingGoesOn ==
  ASSUME NEW s \in Seq(Nat), Counting(s)
  PROVE  /\ Append(s, Len(s) + 1) \in Seq(Nat)
         /\ Len(Append(s, Len(s) + 1)) = Len(s) + 1
         /\ Counting(Append(s, Len(s) + 1))
<1>1. Len(s) \in Nat /\ Len(s) + 1 \in Nat
  BY LenProperties
<1>2. /\ Append(s, Len(s) + 1) \in Seq(Nat)
      /\ Len(Append(s, Len(s) + 1)) = Len(s) + 1
      /\ \A i \in 1..Len(s) : Append(s, Len(s) + 1)[i] = s[i]
      /\ Append(s, Len(s) + 1)[Len(s) + 1] = Len(s) + 1
  BY <1>1, AppendProperties
<1> QED
  BY <1>1, <1>2 DEF Counting

(* The beginning of a sequence that counts counts. *)
LEMMA BeginningCounts ==
  ASSUME NEW s \in Seq(Nat), NEW t \in Seq(Nat), Counting(s \o t)
  PROVE  Counting(s) /\ Len(s) <= Len(s \o t)
<1>1. /\ Len(s) \in Nat /\ Len(t) \in Nat /\ Len(s \o t) = Len(s) + Len(t)
      /\ \A i \in 1..(Len(s) + Len(t)) : (s \o t)[i] = IF i <= Len(s) THEN s[i] ELSE t[i - Len(s)]
  BY LenProperties, ConcatProperties
<1> QED
  BY <1>1 DEF Counting

(* How the three parts of the stream hand bytes on. *)
LEMMA Parts ==
  ASSUME NEW g \in Seq(Nat), NEW d \in Seq(Nat), NEW b \in Seq(Nat)
  PROVE  g \o d \in Seq(Nat) /\ (g \o d) \o b \in Seq(Nat)
BY ConcatProperties

LEMMA PartsMove ==
  ASSUME NEW g \in Seq(Nat), NEW d \in Seq(Nat), NEW b \in Seq(Nat)
  PROVE  (g \o << >>) \o (d \o b) = (g \o d) \o b
<1>1. g \o << >> = g
  BY ConcatEmptySeq
<1>2. (g \o d) \o b = g \o (d \o b)
  <2> DEFINE N == Nat
  <2>1. g \in Seq(N) /\ d \in Seq(N) /\ b \in Seq(N)
    OBVIOUS
  <2> HIDE DEF N
  <2> QED
    BY <2>1, ConcatAssociative, SMTT(40)
<1> QED
  BY <1>1, <1>2, Zenon

LEMMA PartsGrow ==
  ASSUME NEW g \in Seq(Nat), NEW d \in Seq(Nat), NEW b \in Seq(Nat), NEW e \in Nat
  PROVE  (g \o d) \o Append(b, e) = Append((g \o d) \o b, e)
<1>1. g \o d \in Seq(Nat) /\ (g \o d) \o b \in Seq(Nat) /\ << e >> \in Seq(Nat)
  BY ConcatProperties
<1>2. Append(b, e) = b \o << e >> /\ Append((g \o d) \o b, e) = ((g \o d) \o b) \o << e >>
  BY <1>1, AppendIsConcat
<1> QED
  BY <1>1, <1>2, ConcatAssociative

LEMMA Split ==
  ASSUME NEW b \in Seq(Nat), NEW n \in 1..Len(b)
  PROVE  /\ SubSeq(b, 1, n) \in Seq(Nat) /\ SubSeq(b, n + 1, Len(b)) \in Seq(Nat)
         /\ SubSeq(b, 1, n) \o SubSeq(b, n + 1, Len(b)) = b
<1>1. Len(b) \in Nat /\ \A i \in 1..Len(b) : b[i] \in Nat
  BY LenProperties, ElementOfSeq
<1>2. SubSeq(b, 1, n) \in Seq(Nat)
  BY <1>1, SubSeqProperties
<1>3. SubSeq(b, n + 1, Len(b)) \in Seq(Nat)
  BY <1>1, SubSeqProperties
<1>4. SubSeq(b, 1, n) \o SubSeq(b, n + 1, Len(b)) = SubSeq(b, 1, Len(b))
  <2>1. 1 \in 1..Len(b) + 1 /\ n \in 1 - 1..Len(b) /\ Len(b) \in n..Len(b)
    BY <1>1
  <2> QED
    BY <2>1, ConcatAdjacentSubSeq
<1> QED
  BY <1>2, <1>3, <1>4, SubSeqFull

------------------------------------------------------------------------------
(* The inductive invariant contains the properties that the run checks. *)
LEMMA InvImpliesProperties == Inv => WritesAreKept /\ ReadsAreExact /\ ClosingIsQuiet
<1> SUFFICES ASSUME Inv PROVE WritesAreKept /\ ReadsAreExact /\ ClosingIsQuiet
  OBVIOUS
<1> DEFINE w == port.written
<1>1. w \in Seq(Nat) /\ Len(w) \in Nat /\ Counting(w) /\ w = Numbers(Len(w))
  BY CountingIsNumbers, LenProperties DEF Inv, Types, WritesOK
<1>2. writer.pc \in {"receiving", "writing", "ended"} /\ accepted \in Nat
  BY DEF Inv, Types
<1>3. Len(w) <= accepted
  BY <1>1, <1>2 DEF Inv, WritesOK
<1>4. ASSUME phase \notin {"open", "draining"}, ~timedOut, ~port.failed
      PROVE  w = Numbers(accepted)
  BY <1>1, <1>4 DEF Inv, WritesOK, ClosingOK
<1>5. WritesAreKept
  BY <1>1, <1>2, <1>3, <1>4, CountingIsPrefix DEF WritesAreKept
<1>6. ReadsAreExact
  BY CountingIsPrefix DEF ReadsAreExact, Inv, Types, ReadsOK
<1> QED
  BY <1>5, <1>6 DEF Inv, ClosingOK, ClosingIsQuiet

(* Nothing has been sent or read when the port has been opened. *)
LEMMA InitInv == Init => Inv
<1> SUFFICES ASSUME Init PROVE Inv
  OBVIOUS
<1>1. /\ << >> \in Seq(Nat) /\ Len(<< >>) = 0 /\ Counting(<< >>)
      /\ (<< >> \o << >>) \o << >> = << >>
  <2>1. << >> \in Seq(Nat) /\ Len(<< >>) = 0
    BY EmptySeq
  <2> QED
    BY <2>1, ConcatEmptySeq DEF Counting
<1>2. Types
  BY <1>1 DEF Init, Types, Phases
<1>3. ClosingOK
  BY DEF Init, ClosingOK
<1>4. WritesOK
  BY <1>1 DEF Init, WritesOK
<1>5. ReadsOK
  BY <1>1 DEF Init, ReadsOK, Stream
<1> QED
  BY <1>2, <1>3, <1>4, <1>5 DEF Inv

------------------------------------------------------------------------------
(* What a step leaves alone. *)

(* The reader may give up, with what it holds. *)
LEMMA ReadsKept ==
  ASSUME ReadsOK, UNCHANGED << got, arrived >>, port'.inbox = port.inbox,
         reader' = reader \/ reader'.pc = "ended"
  PROVE  ReadsOK'
BY DEF ReadsOK, Stream

(* A device that is gone stays gone, and so does the time. *)
LEMMA WritesKept ==
  ASSUME WritesOK, UNCHANGED << writer, accepted >>, port'.written = port.written,
         port.failed => port'.failed, timedOut => timedOut'
  PROVE  WritesOK'
BY DEF WritesOK

(* The parts of the types that change least. *)
LEMMA ClosingKept ==
  ASSUME ClosingOK, UNCHANGED << phase, done, error, timedOut >>,
         writer'.pc = writer.pc, port'.open = port.open, port.failed => port'.failed
  PROVE  ClosingOK'
BY DEF ClosingOK

------------------------------------------------------------------------------
(* One lemma per action.  First the device. *)

(* A byte more is in the port, and in the stream if the reader lives. *)
LEMMA ArriveStep == ASSUME Inv, Arrive PROVE Inv'
<1>1. /\ arrived' = arrived + 1
      /\ port' = [port EXCEPT !.inbox = Append(port.inbox, arrived + 1)]
      /\ UNCHANGED << phase, reader, writer, done, error, timedOut, accepted, got >>
  BY DEF Arrive, workerVars, closingVars
<1>2. /\ reader.data \in Seq(Nat) /\ port.inbox \in Seq(Nat) /\ got \in Seq(Nat)
      /\ arrived \in Nat /\ arrived + 1 \in Nat
  BY DEF Inv, Types
<1>3. /\ port'.inbox = Append(port.inbox, arrived + 1) /\ port'.written = port.written
      /\ port'.open = port.open /\ port'.failed = port.failed
  BY <1>1 DEF Inv, Types
<1>4. Append(port.inbox, arrived + 1) \in Seq(Nat)
  BY <1>2, AppendProperties
<1>5. Types'
  BY <1>1, <1>2, <1>4 DEF Inv, Types
<1>6. ReadsOK'
  <2>1. ASSUME reader.pc # "ended" PROVE Counting(Stream') /\ Len(Stream') = arrived'
    <3>1. Stream \in Seq(Nat) /\ Counting(Stream) /\ Len(Stream) = arrived
      BY <2>1, <1>2, Parts DEF Inv, ReadsOK, Stream
    <3>2. Stream' = Append(Stream, arrived + 1)
      <4>1. (got \o reader.data) \o Append(port.inbox, arrived + 1)
              = Append((got \o reader.data) \o port.inbox, arrived + 1)
        BY <1>2, PartsGrow
      <4> QED
        BY <4>1, <1>1, <1>3 DEF Stream
    <3> QED
      BY <3>1, <3>2, <1>1, CountingGoesOn
  <2>2. Len(got) <= arrived'
    BY <1>1, <1>2, LenProperties DEF Inv, ReadsOK
  <2> QED
    BY <1>1, <2>1, <2>2 DEF Inv, ReadsOK
<1> QED
  BY <1>1, <1>3, <1>5, <1>6, WritesKept, ClosingKept DEF Inv

LEMMA UnplugStep == ASSUME Inv, Unplug PROVE Inv'
<1>1. /\ port' = [port EXCEPT !.failed = TRUE]
      /\ UNCHANGED << phase, reader, writer, done, error, timedOut, accepted, arrived, got >>
  BY DEF Unplug, workerVars, closingVars, userVars
<1>2. /\ port'.inbox = port.inbox /\ port'.written = port.written
      /\ port'.open = port.open /\ port'.failed
  BY <1>1 DEF Inv, Types
<1>3. Types'
  BY <1>1 DEF Inv, Types
<1> QED
  BY <1>1, <1>2, <1>3, ReadsKept, WritesKept, ClosingKept DEF Inv

------------------------------------------------------------------------------
(* The reader. *)

(* What is taken out of the port is held by the reader. *)
LEMMA ReaderReadsStep == ASSUME Inv, ReaderReads PROVE Inv'
<1>1. PICK n \in 1..MaxReadSize :
        /\ n <= Len(port.inbox)
        /\ reader' = [pc |-> "handing", data |-> SubSeq(port.inbox, 1, n)]
        /\ port' = [port EXCEPT !.inbox = SubSeq(port.inbox, n + 1, Len(port.inbox))]
  BY DEF ReaderReads, read
<1>2. /\ reader.pc = "reading"
      /\ UNCHANGED << phase, writer, done, error, timedOut, accepted, arrived, got >>
  BY DEF ReaderReads, closingVars, userVars
<1>3. port.inbox \in Seq(Nat) /\ got \in Seq(Nat) /\ n \in 1..Len(port.inbox)
  BY <1>1, SerialPortAssumption, LenProperties DEF Inv, Types
<1>4. /\ port'.inbox = SubSeq(port.inbox, n + 1, Len(port.inbox))
      /\ port'.written = port.written /\ port'.open = port.open /\ port'.failed = port.failed
  BY <1>1 DEF Inv, Types
<1>5. /\ SubSeq(port.inbox, 1, n) \in Seq(Nat)
      /\ SubSeq(port.inbox, n + 1, Len(port.inbox)) \in Seq(Nat)
      /\ SubSeq(port.inbox, 1, n) \o SubSeq(port.inbox, n + 1, Len(port.inbox)) = port.inbox
  BY <1>3, Split
<1>6. Types'
  BY <1>1, <1>2, <1>5 DEF Inv, Types
<1>7. Stream' = Stream
  <2> DEFINE front == SubSeq(port.inbox, 1, n)
             back == SubSeq(port.inbox, n + 1, Len(port.inbox))
  <2>1. Stream = (got \o << >>) \o (front \o back)
    BY <1>2, <1>5 DEF Inv, ReadsOK, Stream
  <2>2. Stream' = (got \o front) \o back
    BY <1>1, <1>2, <1>4 DEF Stream
  <2> QED
    BY <2>1, <2>2, <1>3, <1>5, PartsMove
<1>8. ReadsOK'
  BY <1>1, <1>2, <1>7 DEF Inv, ReadsOK
<1> QED
  BY <1>2, <1>4, <1>6, <1>8, WritesKept, ClosingKept DEF Inv

(* The bytes that the reader holds go to the consumer. *)
LEMMA Delivery ==
  ASSUME Inv, reader.pc # "ended",
         got' = got \o reader.data, reader' = [pc |-> "reading", data |-> << >>],
         UNCHANGED << phase, writer, done, error, timedOut, accepted, arrived, port >>
  PROVE  Inv'
<1>1. /\ got \in Seq(Nat) /\ reader.data \in Seq(Nat) /\ port.inbox \in Seq(Nat)
      /\ << >> \in Seq(Nat)
  BY DEF Inv, Types
<1>2. got' \in Seq(Nat)
  BY <1>1, Parts
<1>3. Types'
  BY <1>1, <1>2 DEF Inv, Types
<1>4. Stream' = Stream
  <2>1. Stream' = (got' \o << >>) \o port.inbox
    BY DEF Stream
  <2>2. Stream' = got' \o port.inbox
    BY <2>1, <1>1, <1>2, ConcatEmptySeq
  <2> QED
    BY <2>2 DEF Stream
<1>5. Counting(got') /\ Len(got') <= Len(Stream)
  BY <1>1, <1>2, BeginningCounts DEF Inv, ReadsOK, Stream
<1>6. ReadsOK'
  BY <1>4, <1>5 DEF Inv, ReadsOK
<1> QED
  BY <1>3, <1>6, WritesKept, ClosingKept DEF Inv

(* A reader that gives up without a word, or goes on with what it holds. *)
LEMMA ReaderRests ==
  ASSUME Inv, UNCHANGED << phase, writer, done, error, timedOut, accepted, arrived, got, port >>,
         \/ reader' = [pc |-> "ended", data |-> << >>]
         \/ reader' = [reader EXCEPT !.pc = "sending"] /\ reader.pc = "handing"
  PROVE  Inv'
<1>1. << >> \in Seq(Nat)
  BY EmptySeq
<1>2. Types'
  <2>1. reader' \in [pc : {"reading", "handing", "sending", "ended"}, data : Seq(Nat)]
    <3>1. CASE reader' = [pc |-> "ended", data |-> << >>]
      BY <3>1, <1>1
    <3>2. CASE reader' = [reader EXCEPT !.pc = "sending"]
      BY <3>2 DEF Inv, Types
    <3> QED
      BY <3>1, <3>2
  <2> QED
    BY <2>1 DEF Inv, Types
<1>3. ReadsOK'
  <2>1. CASE reader'.pc = "ended"
    BY <2>1, ReadsKept DEF Inv
  <2>2. CASE reader' = [reader EXCEPT !.pc = "sending"] /\ reader.pc = "handing"
    <3>1. reader'.data = reader.data /\ reader'.pc = "sending" /\ Stream' = Stream
      BY <2>2 DEF Inv, Types, Stream
    <3> QED
      BY <2>2, <3>1 DEF Inv, ReadsOK
  <2> QED
    BY <2>1, <2>2
<1> QED
  BY <1>2, <1>3, WritesKept, ClosingKept DEF Inv

(* send() of the queue, and what ends it. *)
LEMMA ReaderSendsStep ==
  ASSUME Inv, ReaderSends \/ SendBreaks \/ ReaderCancelled PROVE Inv'
<1>1. UNCHANGED << phase, writer, done, error, timedOut, accepted, arrived, port >>
  BY DEF ReaderSends, SendBreaks, ReaderCancelled, closingVars, userVars
<1>2. CASE got' = got \o reader.data /\ reader' = [pc |-> "reading", data |-> << >>]
        /\ reader.pc = "handing"
  BY <1>1, <1>2, Delivery
<1>3. CASE /\ got' = got
           /\ \/ reader' = [pc |-> "ended", data |-> << >>]
              \/ reader' = [reader EXCEPT !.pc = "sending"] /\ reader.pc = "handing"
  BY <1>1, <1>3, ReaderRests
<1> QED
  BY <1>2, <1>3 DEF ReaderSends, SendBreaks, ReaderCancelled, userVars

(* The consumer waits, ends, or takes what the reader offers. *)
LEMMA ReceiveStep == ASSUME Inv, receive PROVE Inv'
<1>1. UNCHANGED << phase, writer, done, error, timedOut, accepted, arrived, port >>
  BY DEF receive, closingVars
<1>2. CASE got' = got \o reader.data /\ reader' = [pc |-> "reading", data |-> << >>]
        /\ reader.pc = "sending"
  BY <1>1, <1>2, Delivery
<1>3. CASE UNCHANGED << reader, got >>
  BY <1>1, <1>3, ReadsKept, WritesKept, ClosingKept DEF Inv, Types
<1> QED
  BY <1>2, <1>3 DEF receive

(* A read from a port that is open raises only if the device is gone; and  *)
(* nobody hears of one that raises while the port is being closed.         *)
LEMMA ReadRaisesStep == ASSUME Inv, ReadRaises PROVE Inv'
<1>1. /\ reader' = [pc |-> "ended", data |-> << >>]
      /\ port.open => port.failed
      /\ IF is_closing THEN Quietly ELSE Raises
      /\ UNCHANGED << phase, writer, done, timedOut, accepted, arrived, got, port >>
  BY DEF ReadRaises, closingVars, userVars
<1>2. error' \in BOOLEAN /\ (error' => error \/ phase = "open")
  BY <1>1, Zenon DEF is_closing, Quietly, Raises, Inv, Types
<1>3. phase = "open" => port.failed
  BY <1>1 DEF Inv, ClosingOK
<1>4. Types'
  BY <1>1, <1>2, EmptySeq DEF Inv, Types
<1>5. ClosingOK'
  BY <1>1, <1>2, <1>3 DEF Inv, ClosingOK
<1> QED
  BY <1>1, <1>4, <1>5, ReadsKept, WritesKept DEF Inv

------------------------------------------------------------------------------
(* The writer. *)

(* The writer takes an item, which is accepted by that, or ends. *)
LEMMA WriterReceivesStep == ASSUME Inv, WriterReceives PROVE Inv'
<1>1. /\ writer.pc = "receiving"
      /\ UNCHANGED << phase, reader, error, timedOut, arrived, got, port >>
  BY DEF WriterReceives, closingVars
<1>2. accepted = Len(port.written) /\ accepted \in Nat
  BY <1>1 DEF Inv, Types, WritesOK
<1>3. CASE accepted' = accepted + 1 /\ writer' = [pc |-> "writing", data |-> << accepted + 1 >>]
        /\ done' = done
  <2>1. Types'
    BY <1>1, <1>2, <1>3 DEF Inv, Types
  <2>2. WritesOK' /\ ClosingOK'
    BY <1>1, <1>2, <1>3 DEF Inv, WritesOK, ClosingOK
  <2> QED
    BY <2>1, <2>2, <1>1, ReadsKept DEF Inv
<1>4. CASE accepted' = accepted /\ WriterEnds
  <2>1. Types'
    BY <1>1, <1>4, EmptySeq DEF Inv, Types, WriterEnds
  <2>2. WritesOK' /\ ClosingOK'
    BY <1>1, <1>2, <1>4 DEF Inv, WritesOK, ClosingOK, WriterEnds
  <2> QED
    BY <2>1, <2>2, <1>1, ReadsKept DEF Inv
<1> QED
  BY <1>3, <1>4 DEF WriterReceives

(* The item that the writer holds is the next one on the wire. *)
LEMMA WriterWritesStep == ASSUME Inv, WriterWrites PROVE Inv'
<1>1. /\ writer.pc = "writing"
      /\ port' = [port EXCEPT !.written = port.written \o writer.data]
      /\ writer' = [pc |-> "receiving", data |-> << >>]
      /\ UNCHANGED << phase, reader, done, error, timedOut, accepted, arrived, got >>
  BY DEF WriterWrites, closingVars, userVars
<1>2. /\ port.written \in Seq(Nat) /\ accepted \in Nat /\ Len(port.written) \in Nat
      /\ accepted = Len(port.written) + 1 /\ writer.data = << accepted >>
      /\ Counting(port.written)
  BY <1>1, LenProperties DEF Inv, Types, WritesOK
<1>3. port.written \o writer.data = Append(port.written, Len(port.written) + 1)
  BY <1>2, AppendIsConcat
<1>4. /\ port'.written = Append(port.written, Len(port.written) + 1)
      /\ port'.inbox = port.inbox /\ port'.open = port.open /\ port'.failed = port.failed
  BY <1>1, <1>3 DEF Inv, Types
<1>5. /\ port'.written \in Seq(Nat) /\ Len(port'.written) = accepted
      /\ Counting(port'.written)
  BY <1>2, <1>4, CountingGoesOn
<1>6. Types'
  <2>1. port' \in [open : BOOLEAN, failed : BOOLEAN, inbox : Seq(Nat), written : Seq(Nat)]
    BY <1>1, <1>4, <1>5 DEF Inv, Types
  <2>2. writer' \in [pc : {"receiving", "writing", "ended"}, data : Seq(Nat)]
    BY <1>1, EmptySeq
  <2> QED
    BY <1>1, <2>1, <2>2 DEF Inv, Types
<1>7. WritesOK' /\ ClosingOK'
  BY <1>1, <1>4, <1>5 DEF Inv, WritesOK, ClosingOK
<1> QED
  BY <1>1, <1>4, <1>6, <1>7, ReadsKept DEF Inv

(* A write raises when the device is gone, or when the port was closed     *)
(* under it because time was up.                                           *)
LEMMA WriteRaisesStep == ASSUME Inv, WriteRaises PROVE Inv'
<1>1. /\ writer.pc = "writing" /\ WriterEnds
      /\ ~port.open \/ port.failed
      /\ Quietly \/ Raises
      /\ UNCHANGED << phase, reader, timedOut, accepted, arrived, got, port >>
  BY DEF WriteRaises, closingVars, userVars
<1>2. error' \in BOOLEAN
  BY <1>1, Zenon DEF Quietly, Raises, Inv, Types
<1>3. port.failed \/ timedOut
  BY <1>1 DEF Inv, ClosingOK
<1>4. Types'
  BY <1>1, <1>2, EmptySeq DEF Inv, Types, WriterEnds
<1>5. WritesOK' /\ ClosingOK'
  BY <1>1, <1>3 DEF Inv, WritesOK, ClosingOK, WriterEnds
<1> QED
  BY <1>1, <1>4, <1>5, ReadsKept DEF Inv

LEMMA WriterCancelledStep == ASSUME Inv, WriterCancelled PROVE Inv'
<1>1. /\ writer.pc = "receiving" /\ WriterEnds
      /\ UNCHANGED << phase, reader, error, timedOut, accepted, arrived, got, port >>
  BY DEF WriterCancelled, closingVars, userVars
<1>2. Types'
  BY <1>1, EmptySeq DEF Inv, Types, WriterEnds
<1>3. WritesOK' /\ ClosingOK'
  BY <1>1 DEF Inv, WritesOK, ClosingOK, WriterEnds
<1> QED
  BY <1>1, <1>2, <1>3, ReadsKept DEF Inv

------------------------------------------------------------------------------
(* The client and aclose(). *)

(* send(), the beginning of aclose(), the closing of the stream, and the   *)
(* end of the block: none of them touches the port or a thread.            *)
LEMMA PhaseStep ==
  ASSUME Inv,
         UNCHANGED << reader, writer, done, error, accepted, arrived, got, port >>,
         phase' \in Phases, timedOut' \in BOOLEAN, timedOut => timedOut',
         phase' \notin {"open", "draining"} => done \/ timedOut',
         ~port.open => phase' \in {"closingStream", "joining", "over"}
  PROVE  Inv'
<1>1. Types'
  BY DEF Inv, Types
<1>2. ClosingOK'
  BY DEF Inv, ClosingOK
<1> QED
  BY <1>1, <1>2, ReadsKept, WritesKept DEF Inv

LEMMA UsersStep == ASSUME Inv, send \/ aclose \/ acloseOnException PROVE Inv'
<1>1. /\ UNCHANGED << reader, writer, done, error, timedOut, accepted, arrived, got, port >>
      /\ phase' = phase \/ (phase = "open" /\ phase' = "draining")
  <2>1. CASE send
    BY <2>1 DEF send, workerVars, closingVars
  <2>2. CASE aclose
    BY <2>2 DEF aclose, workerVars, userVars
  <2>3. CASE acloseOnException
    BY <2>3 DEF acloseOnException
  <2> QED
    BY <2>1, <2>2, <2>3
<1> QED
  BY <1>1, PhaseStep DEF Inv, Types, ClosingOK, Phases

LEMMA CloserStep == ASSUME Inv, WriterDone \/ GiveUp \/ CloseStream \/ Join PROVE Inv'
<1>1. UNCHANGED << reader, writer, done, error, accepted, arrived, got, port >>
  BY DEF WriterDone, GiveUp, CloseReaderQueue, CloseStream, Join, workerVars, userVars
<1>2. CASE /\ phase = "draining" /\ phase' = "closingPort" /\ timedOut' \in {timedOut, TRUE}
           /\ done \/ timedOut'
  <2>1. phase' \in Phases
    BY <1>2 DEF Phases
  <2>2. timedOut \in BOOLEAN
    BY DEF Inv, Types
  <2>3. timedOut' \in BOOLEAN /\ (timedOut => timedOut')
    <3>1. CASE timedOut' = timedOut
      BY <2>2, <3>1, Zenon
    <3>2. CASE timedOut' = TRUE
      BY <3>2, Zenon
    <3> QED
      BY <1>2, <3>1, <3>2
  <2>4. port.open
    BY <1>2 DEF Inv, Types, ClosingOK
  <2> QED
    BY <1>1, <1>2, <2>1, <2>3, <2>4, PhaseStep
<1>3. CASE /\ phase \in {"closingStream", "joining"} /\ phase' \in {"joining", "over"}
           /\ timedOut' = timedOut
  BY <1>1, <1>3, PhaseStep DEF Inv, Types, ClosingOK, Phases
<1> QED
  BY <1>2, <1>3 DEF WriterDone, writer_is_done, GiveUp, CloseReaderQueue, CloseStream, Join

LEMMA ClosePortStep == ASSUME Inv, ClosePort PROVE Inv'
<1>1. /\ phase = "closingPort" /\ phase' = "closingStream"
      /\ port' = [port EXCEPT !.open = FALSE]
      /\ UNCHANGED << reader, writer, done, error, timedOut, accepted, arrived, got >>
  BY DEF ClosePort, workerVars, userVars
<1>2. /\ port'.inbox = port.inbox /\ port'.written = port.written
      /\ port'.failed = port.failed
  BY <1>1 DEF Inv, Types
<1>3. Types'
  BY <1>1 DEF Inv, Types, Phases
<1>4. ClosingOK'
  BY <1>1, <1>2 DEF Inv, ClosingOK
<1> QED
  BY <1>1, <1>2, <1>3, <1>4, ReadsKept, WritesKept DEF Inv

(* Every step of the threads, the users and aclose() preserves the         *)
(* invariant.                                                              *)
LEMMA NextInv == Inv /\ [Next]_vars => Inv'
<1> SUFFICES ASSUME Inv, [Next]_vars PROVE Inv'
  OBVIOUS
<1>1. ASSUME UNCHANGED vars PROVE Inv'
  <2>1. Types'
    BY <1>1 DEF vars, workerVars, closingVars, userVars, Inv, Types
  <2> QED
    BY <2>1, <1>1, ReadsKept, WritesKept, ClosingKept
    DEF vars, workerVars, closingVars, userVars, Inv
<1>2. CASE Arrive \/ Unplug
  BY <1>2, ArriveStep, UnplugStep
<1>3. CASE ReaderReads \/ Reader \/ receive
  BY <1>3, ReaderReadsStep, ReadRaisesStep, ReaderSendsStep, ReceiveStep DEF Reader
<1>4. CASE WriterWrites \/ Writer
  BY <1>4, WriterWritesStep, WriterReceivesStep, WriteRaisesStep, WriterCancelledStep
  DEF Writer
<1>5. CASE send \/ aclose \/ acloseOnException \/ Closer
  BY <1>5, UsersStep, CloserStep, ClosePortStep DEF Closer
<1>6. CASE Terminated
  BY <1>1, <1>6 DEF Terminated
<1> QED
  BY <1>1, <1>2, <1>3, <1>4, <1>5, <1>6 DEF Next

(* The invariant holds in every reachable state. *)
LEMMA AlwaysInv == Spec => []Inv
BY InitInv, NextInv, PTL DEF Spec

------------------------------------------------------------------------------
(* SerialPortByteStream.aclose closes the port only when everything that   *)
(* send() accepted has been written, in order; a device that is gone, or   *)
(* that takes nothing for too long, is the only exception.                 *)
THEOREM WritesAreAlwaysKept == Spec => []WritesAreKept
BY AlwaysInv, InvImpliesProperties, PTL

(* SerialPortByteStream.receive returns the bytes of the device from the   *)
(* first one, with no gap and no repetition, whenever it is closed.        *)
THEOREM ReadsAreAlwaysExact == Spec => []ReadsAreExact
BY AlwaysInv, InvImpliesProperties, PTL

(* Closing the queues and the port under the two worker threads makes none *)
(* of them raise, unless the device is gone or takes nothing for too long. *)
THEOREM ClosingIsAlwaysQuiet == Spec => []ClosingIsQuiet
BY AlwaysInv, InvImpliesProperties, PTL
==============================================================================
