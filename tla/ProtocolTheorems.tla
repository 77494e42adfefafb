-------------------------- MODULE ProtocolTheorems --------------------------
(***************************************************************************)
(* What the operators of Protocol preserve and return, for every object    *)
(* and every sequence of bytes.                                            *)
(***************************************************************************)
EXTENDS Protocol, SequenceTheorems, WellFoundedInduction, TLAPS

(* The objects that the operations of Protocol build: each waiting state   *)
(* expects the bytes it should, and a wait for a payload begins without    *)
(* one.                                                                    *)
WellFormed(p) ==
  /\ p \in ProtocolType
  /\ p.state = "waitResponseLength" => p.expected = 4 /\ p.payload = NoBytes
  /\ p.state = "waitResponse" => p.expected > 0 /\ p.payload = NoBytes
  /\ p.state = "waitSync" => p.expected = 2

EventType ==
  [type : EventTypes, code : {0} \union KnownReplies, payload : Seq(Byte)]

(* A set of numbers that is not empty has a least element. *)
LEMMA LeastElement ==
  ASSUME NEW I \in SUBSET Nat, I # {}
  PROVE  \E x \in I : \A y \in I : x <= y
<1> DEFINE R == OpToRel(<, Nat)
<1>1. IsWellFoundedOn(R, Nat)
  BY NatLessThanWellFounded
<1>2. \A x, y \in Nat : << y, x >> \in R <=> y < x
  BY DEF OpToRel
<1> HIDE DEF R
<1>3. PICK x \in I : \A y \in I : ~(<< y, x >> \in R)
  BY <1>1, WFMin
<1>4. \A y \in I : ~(y < x)
  <2> TAKE y \in I
  <2>1. x \in Nat /\ y \in Nat
    OBVIOUS
  <2> QED BY <2>1, <1>2, <1>3, Zenon
<1>5. \A y \in I : x <= y
  <2> TAKE y \in I
  <2>1. ~(y < x)
    BY <1>4
  <2> QED BY <2>1
<1> QED BY <1>5

(* sync_index points at a sync byte, or at nothing. *)
LEMMA SyncIndex ==
  ASSUME NEW b \in Seq(Byte)
  PROVE  /\ sync_index(b) \in 0..Len(b)
         /\ sync_index(b) > 0 => b[sync_index(b)] = IN_SYNC
<1> DEFINE I == {i \in 1..Len(b) : b[i] = IN_SYNC}
<1>1. CASE I = {}
  <2>1. sync_index(b) = 0
    BY <1>1 DEF sync_index, SelectInSeq
  <2> QED BY <2>1
<1>2. CASE I # {}
  <2>1. sync_index(b) = Min(I)
    BY <1>2 DEF sync_index, SelectInSeq
  <2>2. \E x \in I : \A y \in I : x <= y
    <3>1. I \in SUBSET Nat
      OBVIOUS
    <3> HIDE DEF I
    <3> QED BY <3>1, <1>2, LeastElement
  <2>3. Min(I) \in I
    BY <2>2 DEF Min
  <2> QED BY <2>1, <2>3
<1> QED BY <1>1, <1>2

(* Cutting a sequence in two loses nothing. *)
LEMMA Cut ==
  ASSUME NEW b \in Seq(Byte), NEW n \in 0..Len(b)
  PROVE  /\ SubSeq(b, 1, n) \in Seq(Byte) /\ Len(SubSeq(b, 1, n)) = n
         /\ drop(b, n) \in Seq(Byte) /\ Len(drop(b, n)) = Len(b) - n
         /\ b = SubSeq(b, 1, n) \o drop(b, n)
<1>1. \A i \in 1..n : b[i] \in Byte
  OBVIOUS
<1>2. \A i \in n+1..Len(b) : b[i] \in Byte
  OBVIOUS
<1>3. SubSeq(b, 1, n) \in Seq(Byte) /\ Len(SubSeq(b, 1, n)) = n
  BY <1>1, SubSeqProperties
<1>4. drop(b, n) \in Seq(Byte) /\ Len(drop(b, n)) = Len(b) - n
  BY <1>2, SubSeqProperties DEF drop
<1>5. SubSeq(b, 1, n) \o SubSeq(b, n+1, Len(b)) = SubSeq(b, 1, Len(b))
  <2>1. 1 \in 1..Len(b)+1 /\ n \in 1-1..Len(b) /\ Len(b) \in n..Len(b)
    OBVIOUS
  <2> QED BY <2>1, ConcatAdjacentSubSeq
<1> QED BY <1>3, <1>4, <1>5, SubSeqFull DEF drop

(* A part of a sequence, by its elements. *)
LEMMA PartIs ==
  ASSUME NEW s \in Seq(Byte), NEW lo \in Nat, NEW hi \in Nat, lo <= hi, hi <= Len(s)
  PROVE  /\ SubSeq(s, lo + 1, hi) \in Seq(Byte) /\ Len(SubSeq(s, lo + 1, hi)) = hi - lo
         /\ \A i \in 1..(hi - lo) : SubSeq(s, lo + 1, hi)[i] = s[lo + i]
<1> DEFINE t == SubSeq(s, lo + 1, hi)
<1>1. /\ lo + 1 \in Int /\ hi \in Int /\ hi - (lo + 1) + 1 = hi - lo
      /\ IF lo + 1 <= hi THEN hi - (lo + 1) + 1 = hi - lo ELSE 0 = hi - lo
  OBVIOUS
<1>2. \A i \in (lo + 1)..hi : s[i] \in Byte
  <2> TAKE i \in (lo + 1)..hi
  <2>1. Len(s) \in Nat
    BY LenProperties
  <2>2. i \in 1..Len(s)
    BY <2>1
  <2> QED BY <2>2, ElementOfSeq
<1>3. /\ t \in Seq(Byte)
      /\ Len(t) = IF lo + 1 <= hi THEN hi - (lo + 1) + 1 ELSE 0
      /\ \A i \in 1..(hi - (lo + 1) + 1) : t[i] = s[(lo + 1) + i - 1]
  BY <1>1, <1>2, SubSeqProperties
<1> HIDE DEF t
<1>4. ASSUME NEW i \in 1..(hi - lo) PROVE t[i] = s[lo + i]
  <2>1. (lo + 1) + i - 1 = lo + i
    OBVIOUS
  <2> QED BY <1>1, <1>3, <2>1
<1>5. t \in Seq(Byte) /\ Len(t) = hi - lo /\ \A i \in 1..(hi - lo) : t[i] = s[lo + i]
  BY <1>1, <1>3, <1>4
<1> QED BY <1>5 DEF t

(* The empty sequence of bytes, kept as a name in what follows. *)
LEMMA NoBytesType ==
  /\ NoBytes \in Seq(Byte) /\ Len(NoBytes) = 0
  /\ \A b \in Seq(Byte) : b \o NoBytes = b /\ NoBytes \o b = b
  /\ \A b \in Seq(Byte) : Len(b) = 0 <=> b = NoBytes
  BY ConcatEmptySeq DEF NoBytes

(* Only nothing concatenates to nothing. *)
LEMMA NoBytesInParts ==
  ASSUME NEW a \in Seq(Byte), NEW b \in Seq(Byte), a \o b = NoBytes
  PROVE  a = NoBytes /\ b = NoBytes
<1>1. Len(a) \in Nat /\ Len(b) \in Nat /\ Len(a) + Len(b) = 0
  BY ConcatProperties, LenProperties, NoBytesType
<1>2. Len(a) = 0 /\ Len(b) = 0
  BY <1>1
<1> QED BY <1>2, NoBytesType

(* Concatenation is associative, in the form Zenon instantiates. *)
LEMMA Associative ==
  \A a, b, c \in Seq(Byte) : (a \o b) \o c = a \o (b \o c)
  BY ConcatAssociative

(* What is left behind a prefix that is dropped. *)
LEMMA DropPrefix ==
  ASSUME NEW a \in Seq(Byte), NEW b \in Seq(Byte)
  PROVE  drop(a \o b, Len(a)) = b
<1> DEFINE c == a \o b
           n == Len(a)
           m == Len(b)
           s == drop(c, n)
<1>1. n \in Nat /\ m \in Nat
  BY LenProperties
<1>2. /\ c \in Seq(Byte) /\ Len(c) = n + m
      /\ \A i \in 1..(n + m) : c[i] = IF i <= n THEN a[i] ELSE b[i - n]
  BY ConcatProperties
<1> HIDE DEF c, n, m
<1>3. n \in 0..Len(c) /\ Len(c) - n = m
  BY <1>1, <1>2
<1>4. s \in Seq(Byte) /\ Len(s) = m
  BY <1>2, <1>3, Cut
<1>5. \A i \in 1..m : s[i] = c[n + i]
  BY <1>1, <1>2, <1>3 DEF drop
<1> HIDE DEF s
<1>6. ASSUME NEW i \in 1..Len(s) PROVE s[i] = b[i]
  <2>1. n + i \in 1..(n + m) /\ ~(n + i <= n) /\ (n + i) - n = i /\ i \in 1..m
    BY <1>1, <1>4
  <2> QED BY <1>2, <1>5, <2>1
<1>7. Len(s) = Len(b)
  BY <1>4 DEF m
<1>8. s = b
  BY <1>4, <1>6, <1>7, SeqEqual
<1> QED BY <1>8 DEF s, c, n

(* The first two bytes: the sync byte and the response type. *)
LEMMA FirstTwo ==
  ASSUME NEW b \in Seq(Byte), 2 \in 0..Len(b)
  PROVE  SubSeq(b, 1, 2) = << b[1], b[2] >>
<1>1. Len(b) \in Nat /\ Len(b) >= 2
  OBVIOUS
<1>2. \A i \in 1..2 : b[i] \in Byte
  BY <1>1, ElementOfSeq
<1>3. /\ Len(SubSeq(b, 1, 2)) = 2
      /\ \A i \in 1..2 : SubSeq(b, 1, 2)[i] = b[i]
      /\ SubSeq(b, 1, 2) \in Seq(Byte)
  BY <1>2, SubSeqProperties
<1>4. << b[1], b[2] >> \in Seq(Byte) /\ Len(<< b[1], b[2] >>) = 2
  BY <1>2
<1> DEFINE s == SubSeq(b, 1, 2)
           t == << b[1], b[2] >>
<1>5. s[1] = t[1] /\ s[2] = t[2]
  BY <1>3
<1>6. s \in Seq(Byte) /\ t \in Seq(Byte) /\ Len(s) = 2 /\ Len(t) = 2
  BY <1>3, <1>4
<1> HIDE DEF s, t
<1>7. \A i \in 1..2 : s[i] = t[i]
  BY <1>5
<1>8. s = t
  BY <1>6, <1>7, SeqEqual
<1> QED BY <1>8 DEF s, t

(* A length header never encodes a negative length. *)
LEMMA WordIsNat ==
  ASSUME NEW w \in Seq(Byte), Len(w) = 4
  PROVE  from_word(w) \in Nat
<1>1. \A i \in 1..4 : w[i] \in Byte
  BY ElementOfSeq
<1>2. \A b \in Byte : b \in Nat
  BY DEF Byte
<1>3. w[1] \in Nat /\ w[2] \in Nat /\ w[3] \in Nat /\ w[4] \in Nat
  BY <1>1, <1>2
<1>4. \A a, b, c, d \in Nat : a + 256 * b + 65536 * c + 16777216 * d \in Nat
  OBVIOUS
<1>5. from_word(w) = w[1] + 256 * w[2] + 65536 * w[3] + 16777216 * w[4]
  BY DEF from_word
<1> QED BY <1>3, <1>4, <1>5

(* The operations that wait build well-formed objects. *)
LEMMA StartWaiting ==
  ASSUME NEW p \in ProtocolType, NEW length \in Int
  PROVE  /\ WellFormed(start_waiting_for_response(p, length))
         /\ start_waiting_for_response(p, length).state \in Waiting
         /\ start_waiting_for_response(p, length).buffer = p.buffer
         /\ start_waiting_for_response(p, length).closed = p.closed
         /\ start_waiting_for_response(p, length).payload =
              IF length = 0 THEN p.payload ELSE NoBytes
         /\ length < 0 => start_waiting_for_response(p, length).state = "waitResponseLength"
         /\ length = 0 => start_waiting_for_response(p, length).state = "waitSync"
         /\ length > 0 => /\ start_waiting_for_response(p, length).state = "waitResponse"
                          /\ start_waiting_for_response(p, length).expected = length
<1> DEFINE r == start_waiting_for_response(p, length)
<1>1. CASE length < 0
  <2>1. r = [p EXCEPT !.state = "waitResponseLength", !.payload = NoBytes, !.expected = 4]
    BY <1>1 DEF start_waiting_for_response
  <2> HIDE DEF r
  <2>2. r \in ProtocolType
    BY <2>1, NoBytesType DEF ProtocolType, ProtocolState
  <2>3. /\ r.state = "waitResponseLength" /\ r.payload = NoBytes /\ r.expected = 4
        /\ r.buffer = p.buffer /\ r.closed = p.closed
    BY <2>1 DEF ProtocolType
  <2>4. WellFormed(r) /\ r.state \in Waiting
    BY <1>1, <2>2, <2>3 DEF WellFormed, Waiting
  <2> QED BY <1>1, <2>3, <2>4 DEF r
<1>2. CASE length = 0
  <2>1. r = [p EXCEPT !.state = "waitSync", !.expected = 2]
    BY <1>2 DEF start_waiting_for_response, start_waiting_for_sync
  <2> HIDE DEF r
  <2>2. r \in ProtocolType
    BY <2>1, NoBytesType DEF ProtocolType, ProtocolState
  <2>3. /\ r.state = "waitSync" /\ r.payload = p.payload /\ r.expected = 2
        /\ r.buffer = p.buffer /\ r.closed = p.closed
    BY <2>1 DEF ProtocolType
  <2>4. WellFormed(r) /\ r.state \in Waiting
    BY <1>2, <2>2, <2>3 DEF WellFormed, Waiting
  <2> QED BY <1>2, <2>3, <2>4 DEF r
<1>3. CASE length > 0
  <2>1. r = [p EXCEPT !.state = "waitResponse", !.payload = NoBytes, !.expected = length]
    BY <1>3 DEF start_waiting_for_response
  <2> HIDE DEF r
  <2>2. r \in ProtocolType
    <3>1. length \in Nat
      BY <1>3
    <3> QED BY <2>1, <3>1, NoBytesType DEF ProtocolType, ProtocolState
  <2>3. /\ r.state = "waitResponse" /\ r.payload = NoBytes /\ r.expected = length
        /\ r.buffer = p.buffer /\ r.closed = p.closed
    BY <2>1 DEF ProtocolType
  <2>4. WellFormed(r) /\ r.state \in Waiting
    BY <1>3, <2>2, <2>3 DEF WellFormed, Waiting
  <2> QED BY <1>3, <2>3, <2>4 DEF r
<1> QED BY <1>1, <1>2, <1>3

(* A length header that is complete, and the payload length it is about,   *)
(* as the states of the object tell them.                                  *)
HeaderDue(p) == p.state = "waitResponseLength" /\ Len(p.buffer) >= p.expected

Header(p) == IF HeaderDue(p) THEN SubSeq(p.buffer, 1, 4) ELSE NoBytes

Promise(p) ==
  CASE p.state = "waitResponseLength" -> from_word(SubSeq(p.buffer, 1, 4))
    [] p.state = "waitResponse" -> p.expected
    [] OTHER -> Len(p.payload)

(* The length stage consumes its header exactly when it is complete. *)
LEMMA ReadLength ==
  ASSUME NEW p, WellFormed(p)
  PROVE  LET r == read_length(p) IN
         /\ WellFormed(r)
         /\ r.closed = p.closed
         /\ ~HeaderDue(p) => r = p
         /\ HeaderDue(p) =>
              /\ r.state \in {"waitResponse", "waitSync"}
              /\ r.payload = NoBytes
              /\ r.buffer = drop(p.buffer, 4)
              /\ Promise(r) = from_word(SubSeq(p.buffer, 1, 4))
<1>1. CASE ~HeaderDue(p)
  BY <1>1 DEF read_length, HeaderDue
<1>2. CASE HeaderDue(p)
  <2> DEFINE q == [p EXCEPT !.buffer = drop(p.buffer, 4)]
             w == SubSeq(p.buffer, 1, 4)
  <2>1. p \in ProtocolType /\ p.buffer \in Seq(Byte) /\ p.expected = 4 /\ p.payload = NoBytes
    BY <1>2 DEF WellFormed, HeaderDue, ProtocolType
  <2>2. 4 \in 0..Len(p.buffer)
    BY <1>2, <2>1 DEF HeaderDue
  <2>3. /\ w \in Seq(Byte) /\ Len(w) = 4
        /\ drop(p.buffer, 4) \in Seq(Byte)
    BY <2>1, <2>2, Cut
  <2>4. from_word(w) \in Nat
    BY <2>3, WordIsNat
  <2>5. read_length(p) = start_waiting_for_response(q, from_word(w))
    BY <1>2, <2>1 DEF read_length, HeaderDue
  <2>6. /\ q \in ProtocolType
        /\ q.buffer = drop(p.buffer, 4) /\ q.payload = NoBytes /\ q.closed = p.closed
    BY <2>1, <2>3 DEF ProtocolType
  <2> HIDE DEF q, w
  <2>7. /\ WellFormed(read_length(p))
        /\ read_length(p).closed = p.closed
        /\ read_length(p).payload = NoBytes
        /\ read_length(p).buffer = drop(p.buffer, 4)
        /\ from_word(w) = 0 => read_length(p).state = "waitSync"
        /\ from_word(w) > 0 => /\ read_length(p).state = "waitResponse"
                               /\ read_length(p).expected = from_word(w)
    BY <2>4, <2>5, <2>6, StartWaiting
  <2>8. Promise(read_length(p)) = from_word(w)
    BY <2>4, <2>7, NoBytesType DEF Promise
  <2> QED BY <1>2, <2>4, <2>7, <2>8 DEF w
<1> QED BY <1>1, <1>2

(* The payload stage moves the promised bytes, all or none of them. *)
LEMMA ReadPayload ==
  ASSUME NEW p, WellFormed(p)
  PROVE  LET r == read_payload(p) IN
         /\ WellFormed(r)
         /\ r.closed = p.closed
         /\ p.state # "waitResponse" => r = p
         /\ p.state = "waitResponse" => r.state \in {"waitResponse", "waitSync"}
         /\ r.state = "waitResponse" => r = p
         /\ r.state = "waitSync" => Len(r.payload) = Promise(p)
         /\ r.payload \o r.buffer = p.payload \o p.buffer
<1> DEFINE r == read_payload(p)
<1>1. CASE ~(p.state = "waitResponse" /\ Len(p.buffer) >= p.expected)
  <2>1. r = p
    BY <1>1 DEF read_payload
  <2>2. r.state = "waitSync" => Len(r.payload) = Promise(p)
    BY <2>1 DEF Promise
  <2> QED BY <1>1, <2>1, <2>2
<1>2. CASE p.state = "waitResponse" /\ Len(p.buffer) >= p.expected
  <2> DEFINE head == SubSeq(p.buffer, 1, p.expected)
             rest == drop(p.buffer, p.expected)
  <2>1. /\ p \in ProtocolType /\ p.buffer \in Seq(Byte) /\ p.payload = NoBytes
        /\ p.expected \in 0..Len(p.buffer)
    BY <1>2 DEF WellFormed, ProtocolType
  <2>2. /\ head \in Seq(Byte) /\ Len(head) = p.expected
        /\ rest \in Seq(Byte)
        /\ p.buffer = head \o rest
    BY <2>1, Cut
  <2>3. r = [[p EXCEPT !.payload = head, !.buffer = rest]
               EXCEPT !.state = "waitSync", !.expected = 2]
    BY <1>2 DEF read_payload, start_waiting_for_sync
  <2> HIDE DEF r, head, rest
  <2>4. r \in ProtocolType
    BY <2>1, <2>2, <2>3 DEF ProtocolType, ProtocolState
  <2>5. /\ r.state = "waitSync" /\ r.expected = 2 /\ r.closed = p.closed
        /\ r.payload = head /\ r.buffer = rest
    BY <2>1, <2>3 DEF ProtocolType
  <2>6. WellFormed(r)
    BY <2>4, <2>5 DEF WellFormed
  <2>7. Promise(p) = p.expected
    BY <1>2 DEF Promise
  <2>8. r.payload \o r.buffer = p.payload \o p.buffer
    BY <2>1, <2>2, <2>5, NoBytesType
  <2> QED BY <1>2, <2>2, <2>5, <2>6, <2>7, <2>8 DEF r
<1> QED BY <1>1, <1>2

(* Excess data is the payload and the front of the buffer; without any, it *)
(* is the client's turn.                                                   *)
LEMMA PurgeExcessData ==
  ASSUME NEW p, WellFormed(p), NEW n \in 0..Len(p.buffer)
  PROVE  LET o == purge_excess_data(p, n) IN
         /\ WellFormed(o.proto)
         /\ o.event \in EventType
         /\ o.event.type \in {"None", "ExcessData"}
         /\ o.event.type = "None" => n = 0 /\ o.proto = p /\ p.payload = NoBytes
         /\ o.proto.state = p.state
         /\ p.payload \o p.buffer = o.event.payload \o (o.proto.payload \o o.proto.buffer)
<1> DEFINE o == purge_excess_data(p, n)
           head == SubSeq(p.buffer, 1, n)
           rest == drop(p.buffer, n)
<1>1. /\ p \in ProtocolType /\ p.buffer \in Seq(Byte) /\ p.payload \in Seq(Byte)
      /\ p.payload \o p.buffer \in Seq(Byte)
  BY ConcatProperties DEF WellFormed, ProtocolType
<1>2. CASE p.payload # NoBytes \/ n > 0
  <2>1. /\ head \in Seq(Byte) /\ rest \in Seq(Byte) /\ p.buffer = head \o rest
    BY <1>1, Cut
  <2> DEFINE q == [p EXCEPT !.payload = NoBytes, !.buffer = rest]
  <2>2. o.proto = q /\ o.event = ExcessData(p.payload \o head)
    BY <1>2 DEF purge_excess_data, Outcome
  <2> HIDE DEF o, head, rest
  <2>3. /\ q \in ProtocolType /\ q.state = p.state /\ q.expected = p.expected
        /\ q.payload = NoBytes /\ q.buffer = rest
    BY <1>1, <2>1, NoBytesType DEF ProtocolType
  <2>4. WellFormed(q)
    <3> HIDE DEF q
    <3> QED BY <2>3 DEF WellFormed
  <2> HIDE DEF q
  <2>5. p.payload \o head \in Seq(Byte)
    BY <1>1, <2>1, ConcatProperties
  <2>6. /\ o.event.type = "ExcessData" /\ o.event.payload = p.payload \o head
        /\ o.event \in EventType
    BY <2>2, <2>5 DEF ExcessData, EventType, EventTypes
  <2>7. p.payload \o p.buffer = (p.payload \o head) \o rest
    <3>1. (p.payload \o head) \o rest = p.payload \o (head \o rest)
      BY <1>1, <2>1, Associative, Zenon
    <3> QED BY <2>1, <3>1
  <2>8. o.proto.payload \o o.proto.buffer = rest
    BY <2>1, <2>2, <2>3, NoBytesType
  <2> QED BY <2>2, <2>3, <2>4, <2>6, <2>7, <2>8 DEF o
<1>3. CASE p.payload = NoBytes /\ n = 0
  <2>1. o.proto = p /\ o.event = NoEvent
    BY <1>3 DEF purge_excess_data, Outcome
  <2>2. /\ NoEvent \in EventType /\ NoEvent.type = "None" /\ NoEvent.payload = NoBytes
    BY NoBytesType DEF NoEvent, EventType, EventTypes
  <2> HIDE DEF o
  <2> QED BY <1>1, <1>3, <2>1, <2>2, NoBytesType DEF o
<1>4. n = 0 \/ n > 0
  BY <1>1
<1> QED BY <1>2, <1>3, <1>4

(* The bytes that an event hands to the client. *)
Carried(e) ==
  IF e.type = "Response" THEN e.payload \o << IN_SYNC, e.code >> ELSE e.payload

(* What the sync stage returns: a reply only for a complete sync marker,   *)
(* with the payload that was waiting for it.                               *)
LEMMA ReadSync ==
  ASSUME NEW p, WellFormed(p), p.state = "waitSync"
  PROVE  LET o == read_sync(p) IN
         /\ WellFormed(o.proto)
         /\ o.event \in EventType
         /\ o.event.type \in {"NeedMoreData", "ExcessData", "Response"}
         /\ o.event.type = "NeedMoreData" => o.proto = p
         /\ o.event.type = "ExcessData" => o.proto.state = "waitSync"
         /\ o.event.type = "Response" =>
              /\ o.proto.state = "inSync"
              /\ o.proto.payload = NoBytes
              /\ o.event.payload = p.payload
         /\ p.payload \o p.buffer = Carried(o.event) \o (o.proto.payload \o o.proto.buffer)
<1> DEFINE o == read_sync(p)
           k == sync_index(p.buffer)
<1>1. /\ p \in ProtocolType /\ p.buffer \in Seq(Byte) /\ p.payload \in Seq(Byte)
      /\ p.payload \o p.buffer \in Seq(Byte)
      /\ Len(p.buffer) \in Nat
  BY ConcatProperties DEF WellFormed, ProtocolType
<1>2. /\ k \in 0..Len(p.buffer)
      /\ k > 0 => p.buffer[k] = IN_SYNC
      /\ p.buffer = NoBytes => k = 0
  BY <1>1, SyncIndex, NoBytesType
<1> HIDE DEF k
<1>3. CASE p.buffer = NoBytes \/ (k = 1 /\ Len(p.buffer) < 2)
  <2>1. o.proto = p /\ o.event = NeedMoreData
    BY <1>2, <1>3, NoBytesType DEF read_sync, Outcome, k
  <2>2. /\ NeedMoreData \in EventType /\ NeedMoreData.type = "NeedMoreData"
        /\ NeedMoreData.payload = NoBytes
    BY NoBytesType DEF NeedMoreData, EventType, EventTypes
  <2> HIDE DEF o
  <2>3. Carried(o.event) = NoBytes
    BY <2>1, <2>2 DEF Carried
  <2> QED BY <1>1, <2>1, <2>2, <2>3, NoBytesType DEF o
<1>4. CASE \/ p.buffer # NoBytes /\ k # 1
           \/ k = 1 /\ Len(p.buffer) >= 2 /\ p.buffer[2] \notin KnownReplies
  <2>1. PICK n \in 1..Len(p.buffer) : o = purge_excess_data(p, n)
    <3>1. CASE p.buffer # NoBytes /\ k = 0
      <4>1. o = purge_excess_data(p, Len(p.buffer))
        BY <3>1 DEF read_sync, k
      <4>2. Len(p.buffer) \in 1..Len(p.buffer)
        BY <1>1, <3>1, NoBytesType
      <4> QED BY <4>1, <4>2
    <3>2. CASE p.buffer # NoBytes /\ k > 1
      <4>1. o = purge_excess_data(p, k - 1)
        BY <3>2 DEF read_sync, k
      <4>2. k - 1 \in 1..Len(p.buffer)
        BY <1>1, <1>2, <3>2
      <4> QED BY <4>1, <4>2
    <3>3. CASE k = 1 /\ Len(p.buffer) >= 2 /\ p.buffer[2] \notin KnownReplies
      <4>1. o = purge_excess_data(p, 2)
        BY <1>1, <1>2, <3>3, NoBytesType DEF read_sync, k
      <4>2. 2 \in 1..Len(p.buffer)
        BY <1>1, <3>3
      <4> QED BY <4>1, <4>2
    <3>4. k = 0 \/ k = 1 \/ k > 1
      BY <1>1, <1>2
    <3> QED BY <1>4, <3>1, <3>2, <3>3, <3>4
  <2>2. n \in 0..Len(p.buffer) /\ n # 0
    BY <1>1
  <2> HIDE DEF o
  <2>3. /\ WellFormed(o.proto) /\ o.event \in EventType
        /\ o.event.type = "ExcessData" /\ o.proto.state = "waitSync"
        /\ p.payload \o p.buffer = o.event.payload \o (o.proto.payload \o o.proto.buffer)
    BY <2>1, <2>2, PurgeExcessData
  <2>4. Carried(o.event) = o.event.payload
    BY <2>3 DEF Carried
  <2> QED BY <2>3, <2>4 DEF o
<1>5. CASE k = 1 /\ Len(p.buffer) >= 2 /\ p.buffer[2] \in KnownReplies
  <2> DEFINE code == p.buffer[2]
             rest == drop(p.buffer, 2)
             marker == << IN_SYNC, code >>
  <2>1. 2 \in 0..Len(p.buffer)
    BY <1>1, <1>5
  <2>2. /\ SubSeq(p.buffer, 1, 2) \in Seq(Byte)
        /\ p.buffer = SubSeq(p.buffer, 1, 2) \o rest
    BY <1>1, <2>1, Cut
  <2>14. rest \in Seq(Byte)
    BY <1>1, <2>1, Cut
  <2>3. SubSeq(p.buffer, 1, 2) = << p.buffer[1], p.buffer[2] >>
    BY <1>1, <2>1, FirstTwo
  <2>4. marker = SubSeq(p.buffer, 1, 2)
    BY <1>2, <1>5, <2>3
  <2>5. /\ o.event = Response(code, p.payload)
        /\ o.proto = move_to_in_sync_state([p EXCEPT !.buffer = rest])
    BY <1>1, <1>2, <1>5, NoBytesType DEF read_sync, Outcome, k
  <2>6. o.proto = [[p EXCEPT !.buffer = rest]
                     EXCEPT !.state = "inSync", !.payload = NoBytes, !.expected = 0]
    BY <2>5 DEF move_to_in_sync_state
  <2> HIDE DEF o, rest, code
  <2>7. o.proto \in ProtocolType
    <3>1. p \in ProtocolType
      BY <1>1
    <3> DEFINE q == [p EXCEPT !.buffer = rest]
    <3>2. q \in ProtocolType
      BY <3>1, <2>14 DEF ProtocolType
    <3>3. o.proto = [q EXCEPT !.state = "inSync", !.payload = NoBytes, !.expected = 0]
      BY <2>6
    <3>4. NoBytes \in Seq(Byte)
      BY NoBytesType
    <3> HIDE DEF q
    <3> DEFINE r == o.proto
    <3>5. r = [q EXCEPT !.state = "inSync", !.payload = NoBytes, !.expected = 0]
      BY <3>3
    <3> HIDE DEF r
    <3>6. r \in ProtocolType
      BY <3>2, <3>4, <3>5 DEF ProtocolType, ProtocolState
    <3> QED BY <3>6 DEF r
  <2>8. o.proto.state = "inSync" /\ o.proto.payload = NoBytes /\ o.proto.buffer = rest
    BY <1>1, <2>6 DEF ProtocolType
  <2>9. WellFormed(o.proto)
    BY <2>7, <2>8 DEF WellFormed
  <2>10. /\ o.event \in EventType /\ o.event.type = "Response"
         /\ o.event.payload = p.payload /\ o.event.code = code
    BY <1>1, <1>5, <2>5 DEF Response, EventType, EventTypes, code
  <2>11. Carried(o.event) = p.payload \o marker
    BY <2>10 DEF Carried
  <2> HIDE DEF marker
  <2>12. p.payload \o p.buffer = (p.payload \o marker) \o rest
    <3>1. (p.payload \o marker) \o rest = p.payload \o (marker \o rest)
      BY <1>1, <2>2, <2>14, <2>4, Associative, Zenon
    <3> QED BY <2>2, <2>4, <3>1
  <2>13. o.proto.payload \o o.proto.buffer = rest
    BY <2>14, <2>8, NoBytesType
  <2> QED BY <2>8, <2>9, <2>10, <2>11, <2>12, <2>13 DEF o
<1>6. \/ p.buffer = NoBytes
      \/ p.buffer # NoBytes /\ k # 1
      \/ k = 1 /\ Len(p.buffer) < 2
      \/ k = 1 /\ Len(p.buffer) >= 2
  BY <1>1
<1> QED BY <1>3, <1>4, <1>5, <1>6

(* The length stage and the payload stage together: they stop at what has  *)
(* not arrived, and lose nothing but the header.                           *)
LEMMA TwoStages ==
  ASSUME NEW p, WellFormed(p)
  PROVE  LET r == read_payload(read_length(p)) IN
         /\ WellFormed(r)
         /\ p.payload \o p.buffer = Header(p) \o (r.payload \o r.buffer)
         /\ r.payload \o r.buffer \in Seq(Byte) /\ Len(r.buffer) \in 0..Len(r.buffer)
         /\ r.state \in Waiting <=> p.state \in Waiting
         /\ r.state = "inSync" <=> p.state = "inSync"
         /\ r.state = "waitResponseLength" => r = p /\ ~HeaderDue(p)
         /\ r.state \in {"waitResponse", "waitSync"} =>
              /\ p.state = "waitResponseLength" => HeaderDue(p)
              /\ Promise(r) = Promise(p)
         /\ p.state \notin Waiting => r = p
<1> DEFINE l == read_length(p)
           r == read_payload(l)
           held(q) == q.payload \o q.buffer
<1>1. /\ p.buffer \in Seq(Byte) /\ p.payload \in Seq(Byte)
      /\ held(p) \in Seq(Byte)
  BY ConcatProperties DEF WellFormed, ProtocolType
<1> QED
  <2>1. /\ WellFormed(l)
        /\ ~HeaderDue(p) => l = p
        /\ HeaderDue(p) => /\ l.state \in {"waitResponse", "waitSync"}
                           /\ l.payload = NoBytes /\ l.buffer = drop(p.buffer, 4)
                           /\ Promise(l) = from_word(SubSeq(p.buffer, 1, 4))
    BY ReadLength
  <2>2. /\ WellFormed(r)
        /\ l.state # "waitResponse" => r = l
        /\ l.state = "waitResponse" => r.state \in {"waitResponse", "waitSync"}
        /\ r.state = "waitResponse" => r = l
        /\ r.state = "waitSync" => Len(r.payload) = Promise(l)
        /\ held(r) = held(l)
    BY <2>1, ReadPayload
  <2> HIDE DEF l, r
  <2>4. held(p) = Header(p) \o held(r)
    <3>1. CASE HeaderDue(p)
      <4>1. p.payload = NoBytes /\ 4 \in 0..Len(p.buffer)
        BY <1>1, <3>1 DEF HeaderDue, WellFormed
      <4>2. /\ p.buffer = SubSeq(p.buffer, 1, 4) \o drop(p.buffer, 4)
            /\ drop(p.buffer, 4) \in Seq(Byte)
        BY <1>1, <4>1, Cut
      <4>3. held(p) = p.buffer /\ held(l) = drop(p.buffer, 4)
        BY <1>1, <2>1, <3>1, <4>1, <4>2, NoBytesType
      <4> QED BY <2>2, <3>1, <4>2, <4>3 DEF Header
    <3>2. CASE ~HeaderDue(p)
      BY <1>1, <2>1, <2>2, <3>2, NoBytesType DEF Header
    <3> QED BY <3>1, <3>2
  <2>5. held(r) \in Seq(Byte) /\ Len(r.buffer) \in 0..Len(r.buffer)
    <3>1. r.payload \in Seq(Byte) /\ r.buffer \in Seq(Byte)
      BY <2>2 DEF WellFormed, ProtocolType
    <3> QED BY <3>1, ConcatProperties
  <2>6. /\ r.state \in Waiting <=> p.state \in Waiting
        /\ r.state = "inSync" <=> p.state = "inSync"
        /\ r.state = "waitResponseLength" => r = p /\ ~HeaderDue(p)
        /\ r.state \in {"waitResponse", "waitSync"} =>
             /\ p.state = "waitResponseLength" => HeaderDue(p)
             /\ Promise(r) = Promise(p)
        /\ p.state \notin Waiting => r = p
    <3>1. CASE HeaderDue(p)
      <4>1. p.state = "waitResponseLength" /\ Promise(p) = Promise(l)
        BY <2>1, <3>1 DEF HeaderDue, Promise
      <4>2. r.state \in {"waitResponse", "waitSync"}
        BY <2>1, <2>2, <3>1
      <4>3. Promise(r) = Promise(l)
        BY <2>2, <4>2 DEF Promise
      <4> QED BY <3>1, <4>1, <4>2, <4>3 DEF Waiting
    <3>2. CASE ~HeaderDue(p)
      <4>1. l = p
        BY <2>1, <3>2
      <4>2. CASE p.state = "waitResponse"
        <5>1. Promise(r) = Promise(p) /\ r.state \in {"waitResponse", "waitSync"}
          BY <2>2, <4>1, <4>2 DEF Promise
        <5> QED BY <4>2, <5>1 DEF Waiting
      <4>3. CASE p.state # "waitResponse"
        BY <2>2, <3>2, <4>1, <4>3
      <4> QED BY <4>2, <4>3
    <3> QED BY <3>1, <3>2
  <2> QED BY <2>2, <2>4, <2>5, <2>6 DEF r, l

(* What next_event returns, and what it makes of the object. *)
LEMMA NextEventReturns ==
  ASSUME NEW p, WellFormed(p)
  PROVE  LET o == next_event(p) IN
         /\ WellFormed(o.proto)
         /\ o.event \in EventType
         /\ o.event.type = "None" =>
              o.proto = p /\ p.state \notin Waiting /\ p.payload = NoBytes /\ p.buffer = NoBytes
         /\ o.event.type = "Response" =>
              /\ p.state \in Waiting /\ o.proto.state = "inSync" /\ o.proto.payload = NoBytes
              /\ Len(o.event.payload) = Promise(p)
              /\ p.state = "waitResponseLength" => HeaderDue(p)
         /\ o.event.type # "Response" => (o.proto.state = "inSync" <=> p.state = "inSync")
         /\ o.proto.state \in Waiting => p.state \in Waiting
         /\ o.proto.state = "waitResponseLength" => o.proto = p /\ ~HeaderDue(p)
         /\ o.proto.state \in {"waitResponse", "waitSync"} =>
              /\ p.state = "waitResponseLength" => HeaderDue(p)
              /\ o.event.type # "ExcessData" => Promise(o.proto) = Promise(p)
         /\ o.proto.state = "waitResponse" => o.event.type # "ExcessData"
         /\ p.payload \o p.buffer =
              Header(p) \o (Carried(o.event) \o (o.proto.payload \o o.proto.buffer))
<1> DEFINE o == next_event(p)
           l == read_length(p)
           r == read_payload(l)
           held(q) == q.payload \o q.buffer
<1>1. /\ p.buffer \in Seq(Byte) /\ p.payload \in Seq(Byte)
      /\ held(p) \in Seq(Byte)
  BY ConcatProperties DEF WellFormed, ProtocolType
<1>2. CASE p.buffer = NoBytes /\ p.closed
  <2>1. o.proto = p /\ o.event = ConnectionClosed
    BY <1>2 DEF next_event, Outcome
  <2>2. /\ ConnectionClosed \in EventType /\ ConnectionClosed.type = "ConnectionClosed"
        /\ ConnectionClosed.payload = NoBytes
    BY NoBytesType DEF ConnectionClosed, EventType, EventTypes
  <2>3. ~HeaderDue(p)
    BY <1>1, <1>2, NoBytesType DEF HeaderDue, WellFormed
  <2> HIDE DEF o
  <2>4. Header(p) = NoBytes /\ Carried(o.event) = NoBytes
    BY <2>1, <2>2, <2>3 DEF Header, Carried
  <2>5. /\ o.proto.state = "waitResponseLength" => o.proto = p /\ ~HeaderDue(p)
        /\ o.proto.state \in {"waitResponse", "waitSync"} =>
             p.state # "waitResponseLength" /\ Promise(o.proto) = Promise(p)
    BY <2>1, <2>3
  <2>6. held(p) = Header(p) \o (Carried(o.event) \o held(o.proto))
    <3>1. held(o.proto) = held(p)
      BY <2>1
    <3>2. NoBytes \o held(p) = held(p)
      BY <1>1, NoBytesType
    <3> HIDE DEF held
    <3> QED BY <2>4, <3>1, <3>2, Zenon
  <2>7. o.event \in EventType /\ o.event.type = "ConnectionClosed"
    BY <2>1, <2>2
  <2> QED BY <2>1, <2>5, <2>6, <2>7 DEF o, Waiting
<1>3. CASE ~(p.buffer = NoBytes /\ p.closed)
  <2>3. o = CASE r.state \in {"waitResponseLength", "waitResponse"} -> Outcome(NeedMoreData, r)
              [] r.state = "waitSync" -> read_sync(r)
              [] OTHER -> purge_excess_data(r, Len(r.buffer))
    BY <1>3 DEF next_event
  <2> HIDE DEF o, l, r
  <2>4. /\ WellFormed(r)
        /\ held(p) = Header(p) \o held(r)
        /\ held(r) \in Seq(Byte) /\ Len(r.buffer) \in 0..Len(r.buffer)
        /\ r.state \in Waiting <=> p.state \in Waiting
        /\ r.state = "inSync" <=> p.state = "inSync"
        /\ r.state = "waitResponseLength" => r = p /\ ~HeaderDue(p)
        /\ r.state \in {"waitResponse", "waitSync"} =>
             /\ p.state = "waitResponseLength" => HeaderDue(p)
             /\ Promise(r) = Promise(p)
        /\ p.state \notin Waiting => r = p
    BY TwoStages DEF l, r
  <2>7. CASE r.state \in {"waitResponseLength", "waitResponse"}
    <3>1. o.proto = r /\ o.event = NeedMoreData
      BY <2>3, <2>7 DEF Outcome
    <3>2. /\ NeedMoreData \in EventType /\ NeedMoreData.type = "NeedMoreData"
          /\ NeedMoreData.payload = NoBytes
      BY NoBytesType DEF NeedMoreData, EventType, EventTypes
    <3>3. Carried(o.event) = NoBytes
      BY <3>1, <3>2 DEF Carried
    <3> QED BY <2>4, <2>7, <3>1, <3>2, <3>3, NoBytesType DEF o
  <2>8. CASE r.state = "waitSync"
    <3>1. o = read_sync(r)
      BY <2>3, <2>8
    <3>2. /\ WellFormed(o.proto)
          /\ o.event \in EventType
          /\ o.event.type \in {"NeedMoreData", "ExcessData", "Response"}
          /\ o.event.type = "NeedMoreData" => o.proto = r
          /\ o.event.type = "ExcessData" => o.proto.state = "waitSync"
          /\ o.event.type = "Response" =>
               /\ o.proto.state = "inSync"
               /\ o.proto.payload = NoBytes
               /\ o.event.payload = r.payload
          /\ held(r) = Carried(o.event) \o held(o.proto)
      BY <2>4, <2>8, <3>1, ReadSync
    <3>3. p.state \in Waiting /\ p.state # "inSync" /\ Promise(r) = Promise(p)
      BY <2>4, <2>8 DEF Waiting
    <3>4. Len(r.payload) = Promise(p)
      BY <2>8, <3>3 DEF Promise
    <3> QED BY <2>4, <2>8, <3>2, <3>3, <3>4 DEF o
  <2>9. CASE r.state \notin Waiting
    <3>1. o = purge_excess_data(r, Len(r.buffer)) /\ r = p
      BY <2>3, <2>4, <2>9 DEF Waiting
    <3>2. /\ WellFormed(o.proto)
          /\ o.event \in EventType
          /\ o.event.type \in {"None", "ExcessData"}
          /\ o.event.type = "None" =>
               Len(r.buffer) = 0 /\ o.proto = r /\ r.payload = NoBytes
          /\ o.proto.state = r.state
          /\ held(r) = o.event.payload \o held(o.proto)
      BY <2>4, <3>1, PurgeExcessData
    <3>3. Carried(o.event) = o.event.payload
      BY <3>2 DEF Carried
    <3>4. Len(r.buffer) = 0 => p.buffer = NoBytes
      BY <1>1, <3>1, NoBytesType
    <3>5. o.proto.state \notin Waiting
      BY <2>9, <3>2
    <3> QED BY <2>4, <2>9, <3>1, <3>2, <3>3, <3>4, <3>5 DEF o, Waiting
  <2> QED BY <2>7, <2>8, <2>9 DEF Waiting
<1> QED BY <1>2, <1>3

(* A single byte that is the sync byte is found. *)
LEMMA SyncIsFound ==
  ASSUME NEW b \in Seq(Byte), Len(b) = 1, b[1] = IN_SYNC PROVE sync_index(b) = 1
<1> DEFINE I == {i \in 1..Len(b) : b[i] = IN_SYNC}
<1>1. I = {1}
  OBVIOUS
<1>2. sync_index(b) = Min(I)
  BY <1>1 DEF sync_index, SelectInSeq
<1> HIDE DEF I
<1>3. Min(I) \in I
  BY <1>1 DEF Min
<1> QED BY <1>1, <1>2, <1>3

(* A reply that is waited for is found in excess only behind its payload,  *)
(* and not while the first byte of its sync marker alone is there.         *)
LEMMA ExcessIsMisplaced ==
  ASSUME NEW p, WellFormed(p), p.state \in Waiting, next_event(p).event.type = "ExcessData"
  PROVE  LET held == p.payload \o p.buffer
             due == Len(Header(p)) + Promise(p) + 1
         IN  /\ p.state = "waitResponseLength" => HeaderDue(p)
             /\ Len(held) >= due
             /\ Len(held) = due => held[due] # IN_SYNC
<1> DEFINE o == next_event(p)
           r == read_payload(read_length(p))
           held == p.payload \o p.buffer
           left == r.payload \o r.buffer
<1>1. ~(p.buffer = NoBytes /\ p.closed)
  BY DEF next_event, Outcome, ConnectionClosed
<1>2. o = CASE r.state \in {"waitResponseLength", "waitResponse"} -> Outcome(NeedMoreData, r)
            [] r.state = "waitSync" -> read_sync(r)
            [] OTHER -> purge_excess_data(r, Len(r.buffer))
  BY <1>1 DEF next_event
<1>3. /\ WellFormed(r) /\ held = Header(p) \o left
      /\ r.state \in Waiting
      /\ r.state \in {"waitResponse", "waitSync"} =>
           /\ p.state = "waitResponseLength" => HeaderDue(p)
           /\ Promise(r) = Promise(p)
  BY TwoStages
<1> HIDE DEF o, r, held
<1>4. o.event.type = "ExcessData"
  BY DEF o
<1>5. r.state = "waitSync"
  <2>1. ~(r.state \in {"waitResponseLength", "waitResponse"})
    BY <1>2, <1>4 DEF Outcome, NeedMoreData
  <2> QED BY <1>3, <2>1 DEF Waiting
<1>6. o = read_sync(r)
  BY <1>2, <1>5
<1>7. r.buffer \in Seq(Byte) /\ r.payload \in Seq(Byte) /\ Header(p) \in Seq(Byte)
  <2>1. p.buffer \in Seq(Byte)
    BY DEF WellFormed, ProtocolType
  <2>2. Header(p) \in Seq(Byte)
    <3>1. CASE HeaderDue(p)
      <4>1. 4 \in 0..Len(p.buffer)
        BY <2>1, <3>1 DEF HeaderDue, WellFormed
      <4> QED BY <2>1, <3>1, <4>1, Cut DEF Header
    <3>2. CASE ~HeaderDue(p)
      BY <3>2, NoBytesType DEF Header
    <3> QED BY <3>1, <3>2
  <2> QED BY <1>3, <2>2 DEF WellFormed, ProtocolType
<1>8. Len(r.payload) = Promise(p)
  <2>1. p.state # "inSync" /\ Promise(r) = Promise(p)
    BY <1>3, <1>5 DEF Waiting
  <2> QED BY <1>5, <2>1 DEF Promise
<1>9. r.buffer # NoBytes /\ ~(Len(r.buffer) = 1 /\ r.buffer[1] = IN_SYNC)
  <2>1. r.buffer # NoBytes
    <3>1. r.buffer = NoBytes => sync_index(r.buffer) = 0
      <4>1. sync_index(r.buffer) \in 0..Len(r.buffer)
        BY <1>7, SyncIndex
      <4>2. r.buffer = NoBytes => Len(r.buffer) = 0
        BY NoBytesType
      <4> QED BY <4>1, <4>2
    <3> QED BY <1>4, <1>6, <3>1 DEF read_sync, Outcome, NeedMoreData
  <2>2. ASSUME Len(r.buffer) = 1, r.buffer[1] = IN_SYNC PROVE FALSE
    <3>1. sync_index(r.buffer) = 1 /\ Len(r.buffer) < 2
      BY <1>7, <2>2, SyncIsFound
    <3> QED BY <1>4, <1>6, <2>1, <3>1 DEF read_sync, Outcome, NeedMoreData
  <2> QED BY <2>1, <2>2
<1> DEFINE h == Len(Header(p))
           n == Len(r.payload)
           m == Len(r.buffer)
<1>10. h \in Nat /\ n \in Nat /\ m \in Nat /\ m # 0
  BY <1>7, <1>9, LenProperties, NoBytesType
<1>11. /\ left \in Seq(Byte) /\ Len(left) = n + m
       /\ Len(held) = h + (n + m)
  BY <1>3, <1>7, ConcatProperties
<1>12. CASE m # 1
  <2> DEFINE due == Len(Header(p)) + Promise(p) + 1
  <2>1. due = h + n + 1
    BY <1>8
  <2> HIDE DEF h, n, m, due
  <2>2. Len(held) > due
    BY <1>10, <1>11, <1>12, <2>1
  <2>3. Len(held) >= due /\ Len(held) # due
    BY <1>10, <2>1, <2>2
  <2> QED BY <1>3, <1>5, <2>3 DEF due, held
<1>13. CASE m = 1
  <2>1. held[h + n + 1] = r.buffer[1]
    <3>1. left[n + 1] = r.buffer[1]
      <4>1. n + 1 \in (n + 1)..(n + m) /\ (n + 1) - n = 1
        BY <1>10, <1>13
      <4>2. \A i \in (n + 1)..(n + m) : left[i] = r.buffer[i - n]
        BY <1>7, ConcatProperties
      <4> HIDE DEF left, n, m
      <4> QED BY <4>1, <4>2
    <3>2. \A i \in (h + 1)..(h + Len(left)) : held[i] = left[i - h]
      <4>1. /\ Header(p) \in Seq(Byte) /\ left \in Seq(Byte)
            /\ held = Header(p) \o left
        BY <1>3, <1>7, <1>11
      <4> HIDE DEF left
      <4> QED BY <4>1, ConcatProperties
    <3> HIDE DEF left, n, m, h
    <3>3. h + n + 1 \in (h + 1)..(h + Len(left)) /\ (h + n + 1) - h = n + 1
      BY <1>10, <1>11
    <3>4. held[h + n + 1] = left[(h + n + 1) - h]
      BY <3>2, <3>3
    <3> QED BY <3>1, <3>3, <3>4
  <2>2. r.buffer[1] # IN_SYNC
    BY <1>9, <1>13
  <2> DEFINE due == Len(Header(p)) + Promise(p) + 1
  <2>3. due = h + n + 1
    BY <1>8
  <2> HIDE DEF h, n, m, due
  <2>4. Len(held) = due /\ due \in Nat
    BY <1>10, <1>11, <1>13, <2>3
  <2>5. held[due] # IN_SYNC /\ Len(held) >= due
    BY <2>1, <2>2, <2>3, <2>4
  <2> QED BY <1>3, <1>5, <2>5 DEF due, held
<1> QED BY <1>12, <1>13

------------------------------------------------------------------------------
(* What is left of a reply on a link that loses some of it and cuts it up. *)

(* G is what was received of the first k bytes of R: its byte i is byte    *)
(* i + slip[i] of R, where slip[i] bytes have been lost before it.         *)
Kept(G, R, k) ==
  /\ k \in Len(G)..Len(R)
  /\ \E slip \in [1..Len(G) -> 0..(k - Len(G))] :
       /\ \A i \in 1..Len(G) : G[i] = R[i + slip[i]]
       /\ \A i, j \in 1..Len(G) : i <= j => slip[i] <= slip[j]

(* The pieces ps are parts of R behind its first k bytes, in their order.  *)
PiecesOf(ps, R, k) ==
  \E at \in [1..Len(ps) -> k..Len(R)] : \A j \in 1..Len(ps) :
    /\ ps[j] # NoBytes /\ at[j] + Len(ps[j]) <= Len(R)
    /\ ps[j] = SubSeq(R, at[j] + 1, at[j] + Len(ps[j]))
    /\ \A i \in 1..(j - 1) : at[i] + Len(ps[i]) <= at[j]

(* Nothing has been received of a reply that is still to come. *)
LEMMA NothingIsKept == ASSUME NEW R \in Seq(Byte) PROVE Kept(NoBytes, R, 0)
<1>1. Len(R) \in Nat /\ Len(NoBytes) = 0
  BY LenProperties, NoBytesType
<1> DEFINE slip == [i \in 1..0 |-> 0]
<1>2. slip \in [1..0 -> 0..(0 - 0)] /\ \A i \in 1..0 : FALSE
  OBVIOUS
<1> HIDE DEF slip
<1> DEFINE G == NoBytes
<1>3. Len(G) = 0 /\ 0 \in 0..Len(R)
  BY <1>1
<1> HIDE DEF G
<1>4. Kept(G, R, 0)
  BY <1>2, <1>3 DEF Kept
<1> QED BY <1>4 DEF G

(* A piece that arrives extends what was received. *)
LEMMA MoreIsKept ==
  ASSUME NEW G \in Seq(Byte), NEW R \in Seq(Byte), NEW k \in Nat, Kept(G, R, k),
         NEW a \in k..Len(R), NEW piece \in Seq(Byte), a + Len(piece) <= Len(R),
         piece = SubSeq(R, a + 1, a + Len(piece))
  PROVE  Kept(G \o piece, R, a + Len(piece))
<1> DEFINE m == Len(piece)
           n == Len(G)
           both == G \o piece
<1>1. m \in Nat /\ n \in Nat /\ Len(R) \in Nat /\ a \in Nat
  BY LenProperties
<1>2. /\ both \in Seq(Byte) /\ Len(both) = n + m
      /\ \A i \in 1..n : both[i] = G[i]
      /\ \A i \in (n + 1)..(n + m) : both[i] = piece[i - n]
  BY <1>1, ConcatProperties
<1>3. \A j \in 1..m : piece[j] = R[a + j]
  <2>1. \A i \in (a + 1)..(a + m) : R[i] \in Byte
    BY <1>1, ElementOfSeq
  <2>2. a + 1 \in Int /\ a + m \in Int
    BY <1>1
  <2> DEFINE s == SubSeq(R, a + 1, a + m)
  <2>3. \A i \in 1..((a + m) - (a + 1) + 1) : s[i] = R[(a + 1) + i - 1]
    BY <2>1, <2>2, SubSeqProperties
  <2> HIDE DEF s
  <2>4. ASSUME NEW j \in 1..m PROVE s[j] = R[a + j]
    <3>1. j \in 1..((a + m) - (a + 1) + 1) /\ (a + 1) + j - 1 = a + j
      BY <1>1
    <3> QED BY <2>3, <3>1
  <2>5. piece = s
    BY DEF s
  <2> HIDE DEF m
  <2> QED BY <2>4, <2>5
<1>4. k \in n..Len(R)
  BY DEF Kept
<1>5. PICK slip \in [1..n -> 0..(k - n)] :
        /\ \A i \in 1..n : G[i] = R[i + slip[i]]
        /\ \A i, j \in 1..n : i <= j => slip[i] <= slip[j]
  BY DEF Kept
<1> DEFINE slid == [i \in 1..(n + m) |-> IF i <= n THEN slip[i] ELSE a - n]
<1> HIDE DEF m, n, both
<1>6. slid \in [1..(n + m) -> 0..((a + m) - (n + m))]
  <2>1. ASSUME NEW i \in 1..(n + m) PROVE slid[i] \in 0..((a + m) - (n + m))
    <3>1. CASE i <= n
      <4>1. slip[i] \in 0..(k - n)
        BY <1>1, <3>1
      <4> QED BY <1>1, <1>4, <3>1, <4>1
    <3>2. CASE ~(i <= n)
      BY <1>1, <1>4, <3>2
    <3> QED BY <3>1, <3>2
  <2> QED BY <2>1
<1>7. ASSUME NEW i \in 1..(n + m) PROVE both[i] = R[i + slid[i]]
  <2>1. CASE i <= n
    BY <1>1, <1>2, <1>5, <2>1
  <2>2. CASE ~(i <= n)
    <3>1. i \in (n + 1)..(n + m) /\ i - n \in 1..m /\ i + (a - n) = a + (i - n)
      BY <1>1, <2>2
    <3>2. both[i] = R[a + (i - n)]
      BY <1>2, <1>3, <3>1
    <3> QED BY <2>2, <3>1, <3>2
  <2> QED BY <2>1, <2>2
<1>8. ASSUME NEW i \in 1..(n + m), NEW j \in 1..(n + m), i <= j PROVE slid[i] <= slid[j]
  <2>1. CASE j <= n
    <3>1. i \in 1..n /\ j \in 1..n
      BY <1>1, <1>8, <2>1
    <3> QED BY <1>5, <1>8, <2>1, <3>1
  <2>2. CASE ~(j <= n) /\ i <= n
    <3>1. i \in 1..n
      BY <1>1, <2>2
    <3>2. slip[i] \in 0..(k - n)
      BY <3>1
    <3> QED BY <1>1, <1>4, <2>2, <3>2
  <2>3. CASE ~(j <= n) /\ ~(i <= n)
    BY <1>1, <1>4, <2>3
  <2> QED BY <2>1, <2>2, <2>3
<1>9. a + m \in (n + m)..Len(R)
  <2>1. a + m <= Len(R)
    BY DEF m
  <2> QED BY <1>1, <1>4, <2>1
<1> HIDE DEF slid
<1>10. Kept(both, R, a + m)
  BY <1>2, <1>6, <1>7, <1>8, <1>9 DEF Kept
<1> QED BY <1>10 DEF both, m

(* What was received without a loss is a prefix of the reply. *)
LEMMA WithoutLoss ==
  ASSUME NEW G \in Seq(Byte), NEW R \in Seq(Byte), NEW k \in Nat, Kept(G, R, k),
         k = Len(G)
  PROVE  /\ \A i \in 1..Len(G) : G[i] = R[i]
         /\ Len(G) = Len(R) => G = R
<1>1. Len(G) \in Nat /\ Len(R) \in Nat
  BY LenProperties
<1>2. PICK slip \in [1..Len(G) -> 0..(k - Len(G))] :
        \A i \in 1..Len(G) : G[i] = R[i + slip[i]]
  BY DEF Kept
<1>3. \A i \in 1..Len(G) : G[i] = R[i]
  <2> TAKE i \in 1..Len(G)
  <2>1. slip[i] = 0
    BY <1>1
  <2> QED BY <1>1, <1>2, <2>1
<1>4. Len(G) = Len(R) => G = R
  BY <1>3, SeqEqual
<1> QED BY <1>3, <1>4

(* No reply brings more bytes than it has. *)
LEMMA KeptIsBounded ==
  ASSUME NEW G \in Seq(Byte), NEW R \in Seq(Byte), NEW k \in Nat, Kept(G, R, k)
  PROVE  Len(G) <= k /\ k <= Len(R)
BY LenProperties DEF Kept

LEMMA PiecesOfOne ==
  ASSUME NEW R \in Seq(Byte), R # NoBytes PROVE PiecesOf(<< R >>, R, 0)
<1>1. Len(R) \in Nat /\ SubSeq(R, 1, Len(R)) = R
  BY LenProperties, SubSeqFull
<1> DEFINE at == [j \in 1..1 |-> 0]
<1>2. at \in [1..1 -> 0..Len(R)]
  BY <1>1
<1>3. Len(<< R >>) = 1 /\ << R >>[1] = R
  OBVIOUS
<1>4. at[1] = 0 /\ at[1] + 1 = 1 /\ at[1] + Len(R) = Len(R)
  BY <1>1
<1> DEFINE ps == << R >>
<1> HIDE DEF at, ps
<1>5. \A j \in 1..1 :
        /\ ps[j] # NoBytes /\ at[j] + Len(ps[j]) <= Len(R)
        /\ ps[j] = SubSeq(R, at[j] + 1, at[j] + Len(ps[j]))
        /\ \A i \in 1..(j - 1) : at[i] + Len(ps[i]) <= at[j]
  <2> TAKE j \in 1..1
  <2>1. j = 1 /\ ps[j] = R
    BY <1>3 DEF ps
  <2>2. 1..(j - 1) = {}
    BY <2>1
  <2> QED BY <1>1, <1>4, <2>1, <2>2
<1>6. Len(ps) = 1
  BY <1>3 DEF ps
<1>7. PiecesOf(ps, R, 0)
  BY <1>2, <1>5, <1>6 DEF PiecesOf
<1> QED BY <1>7 DEF ps

(* The first piece, and the pieces behind it. *)
LEMMA FirstPiece ==
  ASSUME NEW ps \in Seq(Seq(Byte)), ps # << >>, NEW R \in Seq(Byte), NEW k \in Nat,
         PiecesOf(ps, R, k)
  PROVE  /\ Head(ps) \in Seq(Byte) /\ Head(ps) # NoBytes
         /\ PiecesOf(Tail(ps), R, k)
         /\ \E a \in k..Len(R) :
              /\ a + Len(Head(ps)) <= Len(R)
              /\ Head(ps) = SubSeq(R, a + 1, a + Len(Head(ps)))
              /\ PiecesOf(Tail(ps), R, a + Len(Head(ps)))
<1> DEFINE n == Len(ps)
           rest == Tail(ps)
           first == Head(ps)
<1>1. /\ n \in Nat /\ n >= 1 /\ Len(R) \in Nat
      /\ first \in Seq(Byte) /\ rest \in Seq(Seq(Byte)) /\ first = ps[1]
      /\ Len(rest) = n - 1 /\ \A j \in 1..(n - 1) : rest[j] = ps[j + 1]
  <2>1. n \in Nat /\ n # 0 /\ Len(R) \in Nat
    BY EmptySeq, LenProperties
  <2>2. /\ first \in Seq(Byte) /\ rest \in Seq(Seq(Byte)) /\ first = ps[1]
        /\ Len(rest) = n - 1
    BY HeadTailProperties
  <2>3. \A j \in 1..Len(rest) : rest[j] = ps[j + 1]
    BY HeadTailProperties
  <2> HIDE DEF n, rest, first
  <2> QED BY <2>1, <2>2, <2>3
<1>2. Len(first) \in Nat
  BY <1>1, LenProperties
<1>3. PICK at \in [1..n -> k..Len(R)] : \A j \in 1..n :
        /\ ps[j] # NoBytes /\ at[j] + Len(ps[j]) <= Len(R)
        /\ ps[j] = SubSeq(R, at[j] + 1, at[j] + Len(ps[j]))
        /\ \A i \in 1..(j - 1) : at[i] + Len(ps[i]) <= at[j]
  BY DEF PiecesOf
<1> HIDE DEF n, rest, first
<1>4. /\ at[1] \in k..Len(R) /\ first # NoBytes /\ at[1] + Len(first) <= Len(R)
      /\ first = SubSeq(R, at[1] + 1, at[1] + Len(first))
  <2>1. 1 \in 1..n
    BY <1>1
  <2> QED BY <1>1, <1>3, <2>1
<1> DEFINE on == [j \in 1..(n - 1) |-> at[j + 1]]
<1>5. ASSUME NEW m \in Nat, \A j \in 1..(n - 1) : m <= at[j + 1] PROVE PiecesOf(rest, R, m)
  <2>1. on \in [1..(n - 1) -> m..Len(R)]
    <3>1. ASSUME NEW j \in 1..(n - 1) PROVE on[j] \in m..Len(R)
      <4>1. j + 1 \in 1..n /\ on[j] = at[j + 1]
        BY <1>1
      <4>2. at[j + 1] \in k..Len(R) /\ m <= at[j + 1]
        BY <1>5, <4>1
      <4> QED BY <1>1, <4>1, <4>2
    <3> QED BY <3>1
  <2>2. ASSUME NEW j \in 1..(n - 1)
        PROVE  /\ rest[j] # NoBytes /\ on[j] + Len(rest[j]) <= Len(R)
               /\ rest[j] = SubSeq(R, on[j] + 1, on[j] + Len(rest[j]))
               /\ \A i \in 1..(j - 1) : on[i] + Len(rest[i]) <= on[j]
    <3>1. j + 1 \in 1..n /\ on[j] = at[j + 1] /\ rest[j] = ps[j + 1]
      BY <1>1
    <3>2. ASSUME NEW i \in 1..(j - 1) PROVE on[i] + Len(rest[i]) <= on[j]
      <4>1. /\ i \in 1..(n - 1) /\ on[i] = at[i + 1] /\ rest[i] = ps[i + 1]
            /\ i + 1 \in 1..((j + 1) - 1)
        BY <1>1
      <4>2. at[i + 1] + Len(ps[i + 1]) <= at[j + 1]
        BY <1>3, <3>1, <4>1
      <4> QED BY <3>1, <4>1, <4>2
    <3> HIDE DEF on
    <3>3. /\ ps[j + 1] # NoBytes /\ at[j + 1] + Len(ps[j + 1]) <= Len(R)
          /\ ps[j + 1] = SubSeq(R, at[j + 1] + 1, at[j + 1] + Len(ps[j + 1]))
      BY <1>3, <3>1
    <3> QED BY <3>1, <3>2, <3>3
  <2> HIDE DEF on
  <2> QED BY <1>1, <2>1, <2>2 DEF PiecesOf
<1>6. PiecesOf(rest, R, k)
  <2>1. ASSUME NEW j \in 1..(n - 1) PROVE k <= at[j + 1]
    <3>1. j + 1 \in 1..n
      BY <1>1
    <3>2. at[j + 1] \in k..Len(R)
      BY <3>1
    <3> QED BY <1>1, <3>2
  <2> QED BY <1>5, <2>1
<1>7. PiecesOf(rest, R, at[1] + Len(first))
  <2>1. ASSUME NEW j \in 1..(n - 1) PROVE at[1] + Len(first) <= at[j + 1]
    <3>1. j + 1 \in 1..n /\ 1 \in 1..((j + 1) - 1)
      BY <1>1
    <3> QED BY <1>1, <1>3, <3>1
  <2>2. at[1] + Len(first) \in Nat
    <3>1. at[1] \in Nat
      BY <1>4
    <3>2. Len(first) \in Nat
      BY <1>2, LenProperties
    <3> HIDE DEF first, rest, on
    <3> QED BY <3>1, <3>2
  <2> QED BY <1>5, <2>1, <2>2
<1>8. \E a \in k..Len(R) :
        /\ a + Len(first) <= Len(R)
        /\ first = SubSeq(R, a + 1, a + Len(first))
        /\ PiecesOf(rest, R, a + Len(first))
  BY <1>4, <1>7
<1> QED BY <1>1, <1>4, <1>6, <1>8 DEF rest, first

LEMMA NoPieces == ASSUME NEW R \in Seq(Byte) PROVE PiecesOf(<< >>, R, 0)
<1> DEFINE at == [j \in 1..0 |-> 0]
<1>1. 1..Len(<< >>) = {} /\ 1..0 = {}
  OBVIOUS
<1>2. at \in [1..Len(<< >>) -> 0..Len(R)]
  BY <1>1
<1> QED BY <1>1, <1>2 DEF PiecesOf

(* No piece is left behind the end of the reply. *)
LEMMA NoPieceIsLeft ==
  ASSUME NEW ps \in Seq(Seq(Byte)), NEW R \in Seq(Byte), PiecesOf(ps, R, Len(R))
  PROVE  ps = << >>
<1> SUFFICES ASSUME ps # << >> PROVE FALSE
  OBVIOUS
<1>1. Len(R) \in Nat
  BY LenProperties
<1>2. /\ Head(ps) \in Seq(Byte) /\ Head(ps) # NoBytes
      /\ \E a \in Len(R)..Len(R) : a + Len(Head(ps)) <= Len(R)
  BY <1>1, FirstPiece
<1>3. Len(Head(ps)) \in Nat /\ Len(Head(ps)) # 0
  BY <1>2, LenProperties, NoBytesType
<1> QED BY <1>1, <1>2, <1>3

(* A piece before other pieces. *)
LEMMA PieceBefore ==
  ASSUME NEW ps \in Seq(Seq(Byte)), NEW R \in Seq(Byte), NEW k \in Nat,
         NEW first \in Seq(Byte), first # NoBytes, NEW a \in k..Len(R),
         a + Len(first) <= Len(R), first = SubSeq(R, a + 1, a + Len(first)),
         PiecesOf(ps, R, a + Len(first))
  PROVE  PiecesOf(<< first >> \o ps, R, k)
<1> DEFINE n == Len(ps)
           m == Len(first)
           qs == << first >> \o ps
<1>1. n \in Nat /\ m \in Nat /\ Len(R) \in Nat /\ a \in Nat
  BY LenProperties
<1>2. /\ Len(qs) = n + 1 /\ qs[1] = first
      /\ \A j \in 2..(n + 1) : qs[j] = ps[j - 1]
  OBVIOUS
<1>3. PICK at \in [1..n -> (a + m)..Len(R)] : \A j \in 1..n :
        /\ ps[j] # NoBytes /\ at[j] + Len(ps[j]) <= Len(R)
        /\ ps[j] = SubSeq(R, at[j] + 1, at[j] + Len(ps[j]))
        /\ \A i \in 1..(j - 1) : at[i] + Len(ps[i]) <= at[j]
  BY DEF PiecesOf
<1> DEFINE on == [j \in 1..(n + 1) |-> IF j = 1 THEN a ELSE at[j - 1]]
<1> HIDE DEF n, qs
<1>4. on \in [1..(n + 1) -> k..Len(R)]
  <2>1. ASSUME NEW j \in 1..(n + 1) PROVE on[j] \in k..Len(R)
    <3>1. CASE j = 1
      BY <3>1
    <3>2. CASE j # 1
      <4>1. j - 1 \in 1..n
        BY <1>1, <3>2
      <4>2. at[j - 1] \in (a + m)..Len(R)
        BY <4>1
      <4>3. on[j] = at[j - 1]
        BY <3>2
      <4> HIDE DEF on, m
      <4> QED BY <1>1, <4>2, <4>3
    <3> QED BY <3>1, <3>2
  <2> QED BY <2>1
<1>5. ASSUME NEW j \in 1..(n + 1)
      PROVE  /\ qs[j] # NoBytes /\ on[j] + Len(qs[j]) <= Len(R)
             /\ qs[j] = SubSeq(R, on[j] + 1, on[j] + Len(qs[j]))
             /\ \A i \in 1..(j - 1) : on[i] + Len(qs[i]) <= on[j]
  <2>1. CASE j = 1
    <3>1. on[j] = a /\ qs[j] = first
      BY <1>1, <1>2, <2>1
    <3>2. 1..(j - 1) = {}
      BY <2>1
    <3> HIDE DEF on, m
    <3> QED BY <3>1, <3>2
  <2>2. CASE j # 1
    <3>1. j - 1 \in 1..n /\ on[j] = at[j - 1] /\ qs[j] = ps[j - 1]
      BY <1>1, <1>2, <2>2
    <3>2. ASSUME NEW i \in 1..(j - 1) PROVE on[i] + Len(qs[i]) <= on[j]
      <4>1. CASE i = 1
        <5>1. on[i] = a /\ Len(qs[i]) = m
          BY <1>1, <1>2, <4>1
        <5>2. at[j - 1] \in (a + m)..Len(R)
          BY <3>1
        <5> HIDE DEF on, m
        <5> QED BY <1>1, <3>1, <5>1, <5>2
      <4>2. CASE i # 1
        <5>1. i - 1 \in 1..((j - 1) - 1) /\ i \in 1..(n + 1) /\ i \in 2..(n + 1)
          BY <1>1, <4>2
        <5>2. on[i] = at[i - 1] /\ qs[i] = ps[i - 1]
          BY <1>2, <4>2, <5>1
        <5> HIDE DEF on, m
        <5> QED BY <1>3, <3>1, <5>1, <5>2
      <4> QED BY <4>1, <4>2
    <3> HIDE DEF on, m
    <3>3. /\ ps[j - 1] # NoBytes /\ at[j - 1] + Len(ps[j - 1]) <= Len(R)
          /\ ps[j - 1] = SubSeq(R, at[j - 1] + 1, at[j - 1] + Len(ps[j - 1]))
      BY <1>3, <3>1
    <3> QED BY <3>1, <3>2, <3>3
  <2> QED BY <2>1, <2>2
<1> HIDE DEF on
<1>6. PiecesOf(qs, R, k)
  BY <1>2, <1>4, <1>5 DEF PiecesOf
<1> QED BY <1>6 DEF qs

LEMMA TwoInARow ==
  ASSUME NEW a \in Seq(Byte), NEW b \in Seq(Byte)
  PROVE  << a >> \o << b >> = << a, b >>
<1> DEFINE S == Seq(Byte)
           r == << a >> \o << b >>
           t == << a, b >>
<1>1. a \in S /\ b \in S
  OBVIOUS
<1> HIDE DEF S
<1>2. r \in Seq(S) /\ Len(r) = 2 /\ r[1] = a /\ r[2] = b
  BY <1>1
<1>3. t \in Seq(S) /\ Len(t) = 2 /\ t[1] = a /\ t[2] = b
  BY <1>1
<1> HIDE DEF r, t
<1>4. \A i \in 1..Len(r) : r[i] = t[i]
  BY <1>2, <1>3
<1>5. r = t
  BY <1>2, <1>3, <1>4, SeqEqual
<1> QED BY <1>5 DEF r, t

(* A piece that is cut in two. *)
LEMMA PieceIsCut ==
  ASSUME NEW ps \in Seq(Seq(Byte)), ps # << >>, NEW R \in Seq(Byte), NEW k \in Nat,
         PiecesOf(ps, R, k), NEW n \in 1..(Len(Head(ps)) - 1)
  PROVE  PiecesOf(<< SubSeq(Head(ps), 1, n), drop(Head(ps), n) >> \o Tail(ps), R, k)
<1> DEFINE first == Head(ps)
           m == Len(first)
           rest == Tail(ps)
           x == SubSeq(first, 1, n)
           y == drop(first, n)
<1>1. PICK a \in k..Len(R) :
        /\ a + m <= Len(R) /\ first = SubSeq(R, a + 1, a + m)
        /\ PiecesOf(rest, R, a + m)
  BY FirstPiece
<1>2. first \in Seq(Byte) /\ rest \in Seq(Seq(Byte))
  BY HeadTailProperties, EmptySeq
<1>3. m \in Nat /\ Len(R) \in Nat /\ n \in 1..(m - 1)
  BY <1>2, LenProperties
<1> HIDE DEF first, rest
<1>4. /\ x \in Seq(Byte) /\ Len(x) = n /\ y \in Seq(Byte) /\ Len(y) = m - n
      /\ x # NoBytes /\ y # NoBytes
  <2>1. n \in 0..m
    BY <1>3
  <2> HIDE DEF x, y
  <2>2. x \in Seq(Byte) /\ Len(x) = n /\ y \in Seq(Byte) /\ Len(y) = m - n
    BY <1>2, <2>1, Cut DEF x, y
  <2>3. n # 0 /\ m - n # 0
    BY <1>3
  <2> QED BY <2>2, <2>3, NoBytesType
<1>5. x = SubSeq(R, a + 1, a + n) /\ y = SubSeq(R, (a + n) + 1, a + m)
  <2> DEFINE u == SubSeq(R, a + 1, a + n)
             v == SubSeq(R, (a + n) + 1, a + m)
  <2>1. /\ (a + m) - a = m /\ (a + n) - a = n /\ (a + m) - (a + n) = m - n
        /\ a <= a + m /\ a <= a + n /\ a + n <= a + m /\ a + n <= Len(R)
        /\ a \in Nat /\ a + n \in Nat /\ a + m \in Nat /\ a + m <= Len(R)
    BY <1>1, <1>3
  <2> HIDE DEF m
  <2>2. \A i \in 1..m : first[i] = R[a + i]
    <3>1. \A i \in 1..((a + m) - a) : SubSeq(R, a + 1, a + m)[i] = R[a + i]
      BY <2>1, PartIs
    <3> QED BY <1>1, <2>1, <3>1
  <2>3. u \in Seq(Byte) /\ Len(u) = n /\ \A i \in 1..n : u[i] = R[a + i]
    <3>1. Len(u) = (a + n) - a /\ \A i \in 1..((a + n) - a) : u[i] = R[a + i]
      BY <2>1, PartIs
    <3>2. u \in Seq(Byte)
      BY <2>1, PartIs
    <3> HIDE DEF u
    <3> QED BY <2>1, <3>1, <3>2
  <2>4. v \in Seq(Byte) /\ Len(v) = m - n /\ \A i \in 1..(m - n) : v[i] = R[(a + n) + i]
    <3>1. Len(v) = (a + m) - (a + n)
            /\ \A i \in 1..((a + m) - (a + n)) : v[i] = R[(a + n) + i]
      BY <2>1, PartIs
    <3>2. v \in Seq(Byte)
      BY <2>1, PartIs
    <3> HIDE DEF v
    <3> QED BY <2>1, <3>1, <3>2
  <2>5. \A i \in 1..n : x[i] = first[i]
    <3>1. 0 \in Nat /\ 0 <= n /\ n <= Len(first) /\ n \in Nat /\ 0 + 1 = 1 /\ n - 0 = n
      BY <1>3 DEF m
    <3> HIDE DEF x, y, u, v
    <3>2. \A i \in 1..(n - 0) : SubSeq(first, 0 + 1, n)[i] = first[0 + i]
      BY <1>2, <3>1, PartIs
    <3> USE DEF x
    <3>3. \A i \in 1..n : 0 + i = i
      BY <3>1
    <3> QED BY <3>1, <3>2, <3>3
  <2>6. \A i \in 1..(m - n) : y[i] = first[n + i]
    <3>1. n \in Nat /\ m \in Nat /\ n <= m /\ m = Len(first)
      BY <1>3 DEF m
    <3>2. \A i \in 1..(m - n) : SubSeq(first, n + 1, m)[i] = first[n + i]
      <4>1. m <= Len(first)
        BY <3>1
      <4> HIDE DEF x, y, u, v
      <4> QED BY <1>2, <3>1, <4>1, PartIs
    <3>3. y = SubSeq(first, n + 1, m)
      BY <3>1 DEF drop
    <3> HIDE DEF y
    <3> QED BY <3>2, <3>3
  <2> HIDE DEF u, v, x, y
  <2>7. \A i \in 1..n : x[i] = u[i]
    <3> TAKE i \in 1..n
    <3>1. i \in 1..m
      BY <1>3
    <3>2. x[i] = first[i]
      BY <2>5
    <3>3. first[i] = R[a + i]
      BY <2>2, <3>1
    <3>4. u[i] = R[a + i]
      BY <2>3
    <3> QED BY <3>2, <3>3, <3>4
  <2>8. \A i \in 1..(m - n) : y[i] = v[i]
    <3> TAKE i \in 1..(m - n)
    <3>1. n + i \in 1..m /\ a + (n + i) = (a + n) + i
      BY <1>1, <1>3
    <3> QED BY <2>2, <2>4, <2>6, <3>1
  <2>9. x = u
    BY <1>4, <2>3, <2>7, SeqEqual
  <2>10. y = v
    BY <1>4, <2>4, <2>8, SeqEqual
  <2> QED BY <2>9, <2>10 DEF u, v
<1> HIDE DEF x, y, m
<1>6. PiecesOf(<< y >> \o rest, R, a + n)
  <2>1. (a + n) + Len(y) = a + m /\ a + n \in Nat /\ a + n \in (a + n)..Len(R)
    BY <1>1, <1>3, <1>4
  <2> QED BY <1>1, <1>2, <1>4, <1>5, <2>1, PieceBefore
<1>7. << y >> \o rest \in Seq(Seq(Byte))
  BY <1>2, <1>4, ConcatProperties
<1>8. PiecesOf(<< x >> \o (<< y >> \o rest), R, k)
  <2>1. a + Len(x) = a + n /\ a + n <= Len(R)
    BY <1>1, <1>3, <1>4
  <2> DEFINE tail == << y >> \o rest
  <2> HIDE DEF tail
  <2> QED BY <1>4, <1>5, <1>6, <1>7, <2>1, PieceBefore DEF tail
<1>9. << x, y >> \o rest = << x >> \o (<< y >> \o rest)
  <2> DEFINE B == Seq(Byte)
  <2>1. x \in B /\ y \in B /\ rest \in Seq(B)
    BY <1>2, <1>4 DEF x, y
  <2>2. << x >> \o << y >> = << x, y >>
    BY <1>4, TwoInARow
  <2> HIDE DEF B
  <2>3. << x >> \in Seq(B) /\ << y >> \in Seq(B)
    BY <2>1
  <2>4. (<< x >> \o << y >>) \o rest = << x >> \o (<< y >> \o rest)
    BY <2>1, <2>3, ConcatAssociative
  <2> QED BY <2>2, <2>4
<1> QED BY <1>8, <1>9 DEF x, y, first, rest

------------------------------------------------------------------------------
(* The replies a call may meet: none is longer than the call expects, each *)
(* ends with its sync marker, and only the chip description states its own *)
(* length, whose last three bytes are zero and no later byte is.           *)
ReplyTo(R, type) ==
  /\ R \in Seq(Byte) /\ Len(R) >= 2 /\ R[Len(R) - 1] = IN_SYNC
  /\ response_length(type) >= 0 => Len(R) <= response_length(type) + 2
  /\ response_length(type) < 0 =>
       \/ Len(R) = 2
       \/ Len(R) = 8 /\ R[1] = 2 /\ R[4] = 0 /\ \A i \in 5..8 : R[i] # 0

(* Whatever was lost of it, four bytes kept of the chip description do not *)
(* announce less than its two characters.                                  *)
LEMMA LengthIsNotUnderstated ==
  ASSUME NEW type, NEW R, ReplyTo(R, type), response_length(type) < 0,
         NEW G \in Seq(Byte), NEW k \in Nat, Kept(G, R, k), Len(G) >= 4, Len(R) # 2
  PROVE  Len(R) = 8 /\ from_word(G) >= 2
<1>1. /\ R \in Seq(Byte) /\ Len(R) = 8 /\ R[1] = 2 /\ R[4] = 0
      /\ \A i \in 5..8 : R[i] # 0
  BY DEF ReplyTo
<1>2. Len(G) \in Nat /\ Len(G) <= k /\ k <= 8
  BY <1>1, KeptIsBounded, LenProperties
<1>3. PICK slip \in [1..Len(G) -> 0..(k - Len(G))] :
        /\ \A i \in 1..Len(G) : G[i] = R[i + slip[i]]
        /\ \A i, j \in 1..Len(G) : i <= j => slip[i] <= slip[j]
  BY DEF Kept
<1>4. 1 \in 1..Len(G) /\ 2 \in 1..Len(G) /\ 3 \in 1..Len(G) /\ 4 \in 1..Len(G)
  BY <1>2
<1>5. G[1] \in Nat /\ G[2] \in Nat /\ G[3] \in Nat /\ G[4] \in Nat
  <2>1. \A i \in 1..Len(G) : G[i] \in Byte
    BY ElementOfSeq
  <2>2. G[1] \in Byte /\ G[2] \in Byte /\ G[3] \in Byte /\ G[4] \in Byte
    BY <1>4, <2>1, Zenon
  <2>3. Byte \subseteq Nat
    BY DEF Byte
  <2> QED BY <2>2, <2>3, Zenon
<1>6. G[4] = 0 => G[1] = 2
  <2> SUFFICES ASSUME G[4] = 0 PROVE G[1] = 2
    OBVIOUS
  <2>1. slip[1] \in 0..(k - Len(G)) /\ slip[4] \in 0..(k - Len(G)) /\ slip[1] <= slip[4]
    BY <1>3, <1>4
  <2>2. G[1] = R[1 + slip[1]] /\ G[4] = R[4 + slip[4]]
    BY <1>3, <1>4
  <2>3. 4 + slip[4] \notin 5..8
    BY <1>1, <2>2
  <2>4. slip[4] = 0 /\ slip[1] = 0
    BY <1>2, <2>1, <2>3
  <2> QED BY <1>1, <2>2, <2>4
<1>7. from_word(G) >= 2
  <2> DEFINE a == G[1]
             b == G[2]
             c == G[3]
             d == G[4]
  <2>1. a \in Nat /\ b \in Nat /\ c \in Nat /\ d \in Nat /\ (d = 0 => a = 2)
    BY <1>5, <1>6
  <2> HIDE DEF a, b, c, d
  <2>2. a + 256 * b + 65536 * c + 16777216 * d >= 2
    BY <2>1, SMT
  <2> QED BY <2>2, SMT DEF from_word, a, b, c, d
<1> QED BY <1>1, <1>7

(* The object waits for the reply to a command of this type, of which it   *)
(* has consumed the length header H, if the reply has one.                 *)
Awaits(p, type, H) ==
  IF response_length(type) >= 0
    THEN /\ H = NoBytes /\ p.state \in {"waitResponse", "waitSync"}
         /\ Promise(p) = response_length(type)
    ELSE \/ H = NoBytes /\ p.state = "waitResponseLength"
         \/ /\ Len(H) = 4 /\ p.state \in {"waitResponse", "waitSync"}
            /\ Promise(p) = from_word(H)

(* What it has received of the reply behind that. *)
Gathered(p) == p.payload \o p.buffer

(* The header that is consumed next belongs to the same reply. *)
LEMMA HeaderIsFirst ==
  ASSUME NEW p, WellFormed(p), NEW type, NEW H \in Seq(Byte), Awaits(p, type, H),
         p.state = "waitResponseLength" => HeaderDue(p)
  PROVE  LET N == H \o Header(p) IN
         /\ N \in Seq(Byte) /\ Header(p) \in Seq(Byte)
         /\ IF response_length(type) >= 0 THEN N = NoBytes /\ Promise(p) = response_length(type)
            ELSE Len(N) = 4 /\ Promise(p) = from_word(N)
         /\ Promise(p) \in Nat
<1> DEFINE N == H \o Header(p)
<1>1. p \in ProtocolType /\ p.buffer \in Seq(Byte) /\ p.payload \in Seq(Byte)
  BY DEF WellFormed, ProtocolType
<1>2. CASE p.state = "waitResponseLength"
  <2>1. HeaderDue(p) /\ H = NoBytes /\ response_length(type) < 0
    BY <1>2 DEF Awaits, response_length
  <2>2. 4 \in 0..Len(p.buffer)
    BY <1>1, <1>2, <2>1, LenProperties DEF HeaderDue, WellFormed
  <2> DEFINE w == SubSeq(p.buffer, 1, 4)
  <2>3. w \in Seq(Byte) /\ Len(w) = 4
    BY <1>1, <2>2, Cut
  <2>4. Header(p) = w /\ Promise(p) = from_word(w)
    BY <1>2, <2>1 DEF Header, Promise
  <2> HIDE DEF w
  <2>5. from_word(w) \in Nat
    BY <2>3, WordIsNat
  <2>6. N = w
    BY <2>1, <2>3, <2>4, NoBytesType
  <2>7. ~(response_length(type) >= 0) /\ Header(p) \in Seq(Byte)
    BY <2>1, <2>3, <2>4 DEF response_length
  <2> HIDE DEF N
  <2>8. N \in Seq(Byte) /\ Len(N) = 4 /\ Promise(p) = from_word(N) /\ Promise(p) \in Nat
    BY <2>3, <2>4, <2>5, <2>6, Zenon
  <2> QED BY <2>7, <2>8, Zenon DEF N
<1>3. CASE p.state # "waitResponseLength"
  <2>1. Header(p) = NoBytes
    BY <1>3 DEF Header, HeaderDue
  <2>2. N = H
    BY <2>1, NoBytesType
  <2>3. Promise(p) \in Nat
    <3>1. p.expected \in Nat /\ Len(p.payload) \in Nat
      BY <1>1, LenProperties DEF ProtocolType
    <3> QED BY <1>3, <3>1 DEF Promise
  <2>4. IF response_length(type) >= 0 THEN H = NoBytes /\ Promise(p) = response_length(type)
        ELSE Len(H) = 4 /\ Promise(p) = from_word(H)
    BY <1>3 DEF Awaits
  <2> HIDE DEF N
  <2> QED BY <2>1, <2>2, <2>3, <2>4, NoBytesType DEF N
<1> QED BY <1>2, <1>3

LEMMA FromWordOfFirst ==
  ASSUME NEW a \in Seq(Byte), NEW b \in Seq(Byte), Len(a) = 4
  PROVE  from_word(a \o b) = from_word(a)
<1> DEFINE c == a \o b
<1>1. \A i \in 1..4 : c[i] = a[i]
  <2>1. Len(b) \in Nat
    BY LenProperties
  <2>2. \A i \in 1..(Len(a) + Len(b)) : c[i] = IF i <= Len(a) THEN a[i] ELSE b[i - Len(a)]
    BY ConcatProperties
  <2> HIDE DEF c
  <2> QED BY <2>1, <2>2
<1> HIDE DEF c
<1>2. c[1] = a[1] /\ c[2] = a[2] /\ c[3] = a[3] /\ c[4] = a[4]
  BY <1>1
<1>3. from_word(c) = from_word(a)
  BY <1>2, SMT DEF from_word
<1> QED BY <1>3 DEF c

(* Once the payload is there and a byte more, the reply is no longer than  *)
(* what the object waits for.                                              *)
LEMMA NoReplyIsLonger ==
  ASSUME NEW p, WellFormed(p), NEW type, NEW H \in Seq(Byte), Awaits(p, type, H),
         p.state = "waitResponseLength" => HeaderDue(p),
         NEW R, ReplyTo(R, type), NEW rest \in Seq(Byte), NEW k \in Nat,
         Kept((H \o Header(p)) \o rest, R, k), Len(rest) >= Promise(p) + 1
  PROVE  Len(R) <= Len(H \o Header(p)) + Promise(p) + 2
<1> DEFINE N == H \o Header(p)
           G == N \o rest
<1>1. /\ N \in Seq(Byte)
      /\ IF response_length(type) >= 0 THEN N = NoBytes /\ Promise(p) = response_length(type)
         ELSE Len(N) = 4 /\ Promise(p) = from_word(N)
      /\ Promise(p) \in Nat
  BY HeaderIsFirst
<1> HIDE DEF N
<1>2. /\ Len(N) \in Nat /\ Len(rest) \in Nat /\ G \in Seq(Byte)
      /\ Len(G) = Len(N) + Len(rest)
  BY <1>1, LenProperties, ConcatProperties
<1>3. R \in Seq(Byte) /\ Len(R) \in Nat
  BY LenProperties DEF ReplyTo
<1>4. Kept(G, R, k)
  BY DEF N
<1> HIDE DEF G
<1>5. Len(G) <= Len(R)
  BY <1>2, <1>3, <1>4, KeptIsBounded
<1>6. CASE response_length(type) >= 0
  <2>1. Len(R) <= response_length(type) + 2
    BY <1>6 DEF ReplyTo
  <2>2. Len(N) = 0 /\ Promise(p) = response_length(type)
    BY <1>1, <1>6, NoBytesType
  <2> QED BY <1>1, <1>3, <2>1, <2>2 DEF N
<1>7. CASE response_length(type) < 0
  <2>1. Len(N) = 4 /\ Promise(p) = from_word(N) /\ Len(G) >= 4 /\ Len(R) # 2
    <3>1. ~(response_length(type) >= 0)
      BY <1>7 DEF response_length
    <3>2. Len(N) = 4 /\ Promise(p) = from_word(N)
      BY <1>1, <3>1
    <3>3. Len(rest) >= 0
      BY <1>2
    <3>4. Len(G) >= 4
      BY <1>2, <3>2, <3>3
    <3>5. Len(R) # 2
      <4> DEFINE g == Len(G)
                 r == Len(R)
      <4>1. g >= 4 /\ g <= r /\ g \in Nat /\ r \in Nat
        BY <1>2, <1>3, <1>5, <3>4, LenProperties
      <4> HIDE DEF g, r
      <4>2. r # 2
        BY <4>1
      <4> QED BY <4>2 DEF r
    <3> QED BY <3>2, <3>4, <3>5, Zenon
  <2>2. Len(R) = 8 /\ from_word(G) >= 2
    BY <1>2, <1>4, <1>7, <2>1, LengthIsNotUnderstated
  <2>3. from_word(G) = from_word(N)
    BY <1>1, <2>1, FromWordOfFirst DEF G
  <2> QED BY <1>1, <2>1, <2>2, <2>3 DEF N
<1> QED BY <1>6, <1>7 DEF response_length

(* Splitting off the header. *)
LEMMA HeaderSplits ==
  ASSUME NEW p, WellFormed(p), NEW type, NEW H \in Seq(Byte), Awaits(p, type, H),
         p.state = "waitResponseLength" => HeaderDue(p),
         NEW rest \in Seq(Byte), Gathered(p) = Header(p) \o rest
  PROVE  /\ H \o Gathered(p) = (H \o Header(p)) \o rest
         /\ (H \o Header(p)) \o rest \in Seq(Byte)
         /\ Len((H \o Header(p)) \o rest) = Len(H \o Header(p)) + Len(rest)
         /\ Len(H \o Header(p)) \in Nat
<1>1. Header(p) \in Seq(Byte) /\ H \o Header(p) \in Seq(Byte)
  BY HeaderIsFirst
<1>2. H \o Gathered(p) = (H \o Header(p)) \o rest
  <2>1. (H \o Header(p)) \o rest = H \o (Header(p) \o rest)
    BY <1>1, Associative
  <2> QED BY <2>1, Zenon
<1> DEFINE N == H \o Header(p)
<1> HIDE DEF N
<1>3. N \in Seq(Byte)
  BY <1>1 DEF N
<1>4. N \o rest \in Seq(Byte) /\ Len(N \o rest) = Len(N) + Len(rest) /\ Len(N) \in Nat
  BY <1>3, ConcatProperties, LenProperties
<1> QED BY <1>2, <1>4 DEF N

(* A reply that is returned is the whole of the reply that was under way,  *)
(* and nothing is left behind it.                                          *)
LEMMA AnswerIsWhole ==
  ASSUME NEW p, WellFormed(p), NEW type, NEW H \in Seq(Byte), Awaits(p, type, H),
         NEW R, ReplyTo(R, type), NEW k \in Nat, Kept(H \o Gathered(p), R, k),
         NEW ps \in Seq(Seq(Byte)), PiecesOf(ps, R, k),
         next_event(p).event.type = "Response"
  PROVE  LET o == next_event(p)
             N == H \o Header(p)
         IN  /\ ps = << >>
             /\ o.proto.state = "inSync" /\ o.proto.payload = NoBytes /\ o.proto.buffer = NoBytes
             /\ N \in Seq(Byte) /\ o.event \in EventType
             /\ R = N \o (o.event.payload \o << IN_SYNC, o.event.code >>)
             /\ Len(N) = IF response_length(type) >= 0 THEN 0 ELSE 4
<1> DEFINE o == next_event(p)
           N == H \o Header(p)
           marked == o.event.payload \o << IN_SYNC, o.event.code >>
           left == Gathered(o.proto)
           rest == marked \o left
           G == N \o rest
<1>1. /\ WellFormed(o.proto) /\ o.event \in EventType
      /\ o.proto.state = "inSync" /\ o.proto.payload = NoBytes
      /\ Len(o.event.payload) = Promise(p)
      /\ p.state = "waitResponseLength" => HeaderDue(p)
      /\ Gathered(p) = Header(p) \o (Carried(o.event) \o left)
  BY NextEventReturns DEF Gathered
<1>2. Carried(o.event) = marked
  BY DEF Carried
<1>3. /\ N \in Seq(Byte) /\ Promise(p) \in Nat
      /\ IF response_length(type) >= 0 THEN N = NoBytes ELSE Len(N) = 4
  BY <1>1, HeaderIsFirst
<1>4. o.event.payload \in Seq(Byte) /\ o.event.code \in Byte
  <2>1. o.event.payload \in Seq(Byte) /\ o.event.code \in {0} \union KnownReplies
    BY <1>1 DEF EventType
  <2> HIDE DEF o
  <2> QED BY <2>1 DEF KnownReplies, OK, FAILED, INVALID, Byte
<1>5. left \in Seq(Byte) /\ o.proto.buffer \in Seq(Byte) /\ left = o.proto.buffer
  <2>1. o.proto.buffer \in Seq(Byte)
    BY <1>1 DEF WellFormed, ProtocolType
  <2> HIDE DEF o
  <2> QED BY <1>1, <2>1, NoBytesType DEF Gathered
<1>6. marked \in Seq(Byte) /\ Len(marked) = Promise(p) + 2
  <2> DEFINE t == << IN_SYNC, o.event.code >>
  <2>1. t \in Seq(Byte) /\ Len(t) = 2
    BY <1>4 DEF IN_SYNC, Byte
  <2> HIDE DEF o, t
  <2> QED BY <1>1, <1>4, <2>1, ConcatProperties DEF t
<1> HIDE DEF o, marked, left
<1>7. rest \in Seq(Byte) /\ Len(rest) = (Promise(p) + 2) + Len(left) /\ Len(left) \in Nat
  <2>1. Len(left) \in Nat
    BY <1>5, LenProperties
  <2>2. rest \in Seq(Byte) /\ Len(rest) = Len(marked) + Len(left)
    BY <1>5, <1>6, ConcatProperties
  <2> HIDE DEF rest
  <2> QED BY <1>6, <2>1, <2>2, Zenon
<1> HIDE DEF rest
<1>8. /\ H \o Gathered(p) = G /\ G \in Seq(Byte)
      /\ Len(G) = Len(N) + Len(rest) /\ Len(N) \in Nat
  <2>1. Gathered(p) = Header(p) \o rest
    BY <1>1, <1>2 DEF rest
  <2> QED BY <1>1, <1>7, <2>1, HeaderSplits
<1>9. Kept(G, R, k)
  BY <1>8, Zenon
<1>10. Len(R) <= Len(N) + Promise(p) + 2
  <2>1. Len(rest) >= Promise(p) + 1
    BY <1>3, <1>7
  <2> QED BY <1>1, <1>7, <1>9, <2>1, NoReplyIsLonger
<1> HIDE DEF N, G
<1>11. R \in Seq(Byte) /\ Len(R) \in Nat /\ Len(G) <= k /\ k <= Len(R)
  <2>1. R \in Seq(Byte)
    BY DEF ReplyTo
  <2> QED BY <1>8, <1>9, <2>1, KeptIsBounded, LenProperties
<1>12. Len(left) = 0 /\ k = Len(G) /\ k = Len(R)
  <2> DEFINE a == Len(N)
             b == Promise(p)
             c == Len(left)
             g == Len(G)
             r == Len(R)
  <2>1. /\ a \in Nat /\ b \in Nat /\ c \in Nat /\ g = a + ((b + 2) + c) /\ r \in Nat
        /\ r <= a + b + 2 /\ g <= k /\ k <= r
    BY <1>3, <1>7, <1>8, <1>10, <1>11
  <2> HIDE DEF a, b, c, g, r
  <2>2. c = 0 /\ k = g /\ k = r
    BY <2>1
  <2> QED BY <2>2 DEF c, g, r
<1>13. ps = << >>
  BY <1>11, <1>12, NoPieceIsLeft
<1>14. left = NoBytes
  BY <1>5, <1>12, NoBytesType
<1>15. R = N \o marked
  <2>1. G = R
    BY <1>8, <1>9, <1>11, <1>12, WithoutLoss
  <2>2. rest = marked
    BY <1>6, <1>14, NoBytesType DEF rest
  <2> QED BY <2>1, <2>2 DEF G
<1>16. Len(N) = IF response_length(type) >= 0 THEN 0 ELSE 4
  BY <1>3, NoBytesType
<1> QED BY <1>1, <1>3, <1>5, <1>13, <1>14, <1>15, <1>16 DEF o, N, marked

(* Excess behind the payload is the end of the reply that was under way. *)
LEMMA ExcessIsTheEnd ==
  ASSUME NEW p, WellFormed(p), NEW type, NEW H \in Seq(Byte), Awaits(p, type, H),
         NEW R, ReplyTo(R, type), NEW k \in Nat, Kept(H \o Gathered(p), R, k),
         NEW ps \in Seq(Seq(Byte)), PiecesOf(ps, R, k),
         next_event(p).event.type = "ExcessData"
  PROVE  ps = << >>
<1> DEFINE N == H \o Header(p)
           r == read_payload(read_length(p))
           left == Gathered(r)
           G == N \o left
           due == Len(Header(p)) + Promise(p) + 1
<1>1. p.state \in Waiting
  BY DEF Awaits, Waiting
<1>2. /\ p.state = "waitResponseLength" => HeaderDue(p)
      /\ Len(Gathered(p)) >= due
      /\ Len(Gathered(p)) = due => Gathered(p)[due] # IN_SYNC
  BY <1>1, ExcessIsMisplaced DEF Gathered
<1>3. Gathered(p) = Header(p) \o left /\ left \in Seq(Byte)
  BY TwoStages DEF Gathered
<1> HIDE DEF left, r
<1>4. N \in Seq(Byte) /\ Header(p) \in Seq(Byte) /\ Promise(p) \in Nat
  BY <1>2, HeaderIsFirst
<1>5. /\ H \o Gathered(p) = G /\ G \in Seq(Byte)
      /\ Len(G) = Len(N) + Len(left) /\ Len(N) \in Nat
  BY <1>2, <1>3, HeaderSplits
<1>6. /\ Len(Gathered(p)) = Len(Header(p)) + Len(left) /\ Len(Header(p)) \in Nat
      /\ Len(left) \in Nat /\ Gathered(p) \in Seq(Byte)
  BY <1>3, <1>4, ConcatProperties, LenProperties
<1>7. Kept(G, R, k)
  BY <1>5, Zenon
<1>8. Len(left) >= Promise(p) + 1
  BY <1>2, <1>4, <1>6
<1>9. Len(R) <= Len(N) + Promise(p) + 2
  BY <1>2, <1>3, <1>7, <1>8, NoReplyIsLonger
<1> HIDE DEF N, G, due
<1>10. /\ R \in Seq(Byte) /\ Len(R) \in Nat /\ Len(R) >= 2 /\ R[Len(R) - 1] = IN_SYNC
       /\ Len(G) <= k /\ k <= Len(R)
  <2>1. R \in Seq(Byte) /\ Len(R) >= 2 /\ R[Len(R) - 1] = IN_SYNC
    BY DEF ReplyTo
  <2> QED BY <1>5, <1>7, <2>1, KeptIsBounded, LenProperties
<1>11. k = Len(R) \/ (k = Len(G) /\ Len(G) = Len(R) - 1 /\ Len(left) = Promise(p) + 1)
  <2> DEFINE a == Len(N)
             b == Promise(p)
             c == Len(left)
             g == Len(G)
             l == Len(R)
  <2>1. /\ a \in Nat /\ b \in Nat /\ c \in Nat /\ g = a + c /\ l \in Nat
        /\ c >= b + 1 /\ l <= a + b + 2 /\ g <= k /\ k <= l
    BY <1>4, <1>5, <1>6, <1>8, <1>9, <1>10
  <2> HIDE DEF a, b, c, g, l
  <2>2. k = l \/ (k = g /\ g = l - 1 /\ c = b + 1)
    BY <2>1
  <2> QED BY <2>2 DEF b, c, g, l
<1>12. CASE k = Len(R)
  BY <1>10, <1>12, NoPieceIsLeft
<1>13. CASE k = Len(G) /\ Len(G) = Len(R) - 1 /\ Len(left) = Promise(p) + 1
  <2>1. Len(Gathered(p)) = due /\ due >= 1
    BY <1>4, <1>6, <1>13 DEF due
  <2>2. Gathered(p)[due] # IN_SYNC
    BY <1>2, <2>1
  <2>3. G[Len(G)] = Gathered(p)[due]
    <3>1. Len(H) \in Nat /\ G = H \o Gathered(p)
      BY <1>5, LenProperties
    <3>2. /\ Len(G) = Len(H) + Len(Gathered(p))
          /\ \A i \in 1..(Len(H) + Len(Gathered(p))) :
               G[i] = IF i <= Len(H) THEN H[i] ELSE Gathered(p)[i - Len(H)]
      <4> DEFINE X == Gathered(p)
                 Y == H \o X
      <4>1. X \in Seq(Byte)
        BY <1>6
      <4> HIDE DEF X
      <4>2. /\ Len(Y) = Len(H) + Len(X)
            /\ \A i \in 1..(Len(H) + Len(X)) : Y[i] = IF i <= Len(H) THEN H[i] ELSE X[i - Len(H)]
        BY <4>1, ConcatProperties
      <4>3. Y = G
        BY <3>1 DEF X
      <4> HIDE DEF Y
      <4> QED BY <4>2, <4>3, Zenon DEF X
    <3> DEFINE h == Len(H)
               m == Len(Gathered(p))
    <3>3. h \in Nat /\ m \in Nat /\ m >= 1 /\ m = due
      BY <1>6, <2>1, <3>1, LenProperties
    <3>4. Len(G) = h + m /\ \A i \in 1..(h + m) : ~(i <= h) => G[i] = Gathered(p)[i - h]
      BY <3>2
    <3> HIDE DEF h, m
    <3>5. h + m \in 1..(h + m) /\ ~(h + m <= h) /\ (h + m) - h = m
      BY <3>3
    <3> QED BY <3>3, <3>4, <3>5
  <2>4. G[Len(G)] = R[Len(R) - 1]
    <3>1. \A i \in 1..Len(G) : G[i] = R[i]
      BY <1>5, <1>7, <1>10, <1>13, WithoutLoss
    <3>2. Len(G) \in 1..Len(G)
      BY <1>10, <1>13
    <3> QED BY <1>13, <3>1, <3>2
  <2> QED BY <1>10, <2>2, <2>3, <2>4
<1> QED BY <1>11, <1>12, <1>13

(* Asking for more, the object goes on to wait for the rest of the same    *)
(* reply.                                                                  *)
LEMMA WaitGoesOn ==
  ASSUME NEW p, WellFormed(p), next_event(p).event.type = "NeedMoreData"
  PROVE  LET q == next_event(p).proto IN
         /\ p.state \in Waiting /\ q.state \in Waiting /\ Gathered(q) \in Seq(Byte)
         /\ \A type : \A H \in Seq(Byte) : Awaits(p, type, H) =>
              LET N == H \o Header(p) IN
              N \in Seq(Byte) /\ Awaits(q, type, N) /\ H \o Gathered(p) = N \o Gathered(q)
<1> DEFINE o == next_event(p)
           r == read_payload(read_length(p))
           q == o.proto
<1>1. o = CASE r.state \in {"waitResponseLength", "waitResponse"} -> Outcome(NeedMoreData, r)
            [] r.state = "waitSync" -> read_sync(r)
            [] OTHER -> purge_excess_data(r, Len(r.buffer))
  <2>1. ~(p.buffer = NoBytes /\ p.closed)
    BY DEF next_event, Outcome, ConnectionClosed
  <2> QED BY <2>1 DEF next_event
<1>2. /\ WellFormed(r) /\ Gathered(p) = Header(p) \o Gathered(r) /\ Gathered(r) \in Seq(Byte)
      /\ r.state \in Waiting <=> p.state \in Waiting
      /\ r.state = "waitResponseLength" => r = p /\ ~HeaderDue(p)
      /\ r.state \in {"waitResponse", "waitSync"} =>
           /\ p.state = "waitResponseLength" => HeaderDue(p)
           /\ Promise(r) = Promise(p)
      /\ Len(r.buffer) \in 0..Len(r.buffer)
  BY TwoStages DEF Gathered
<1> HIDE DEF r
<1>3. o.event.type = "NeedMoreData"
  OBVIOUS
<1>4. q = r /\ r.state \in Waiting
  <2>1. CASE r.state \in {"waitResponseLength", "waitResponse"}
    BY <1>1, <2>1 DEF Outcome, Waiting
  <2>2. CASE r.state = "waitSync"
    <3>1. o = read_sync(r)
      BY <1>1, <2>2
    <3>2. read_sync(r).event.type = "NeedMoreData" => read_sync(r).proto = r
      BY <1>2, <2>2, ReadSync
    <3> HIDE DEF o
    <3> QED BY <1>3, <2>2, <3>1, <3>2 DEF Waiting
  <2>3. CASE r.state \notin Waiting
    <3>1. o = purge_excess_data(r, Len(r.buffer))
      BY <1>1, <2>3 DEF Waiting
    <3>2. purge_excess_data(r, Len(r.buffer)).event.type \in {"None", "ExcessData"}
      BY <1>2, PurgeExcessData
    <3> HIDE DEF o
    <3> QED BY <1>3, <3>1, <3>2
  <2> QED BY <2>1, <2>2, <2>3 DEF Waiting
<1>5. ASSUME NEW type, NEW H \in Seq(Byte), Awaits(p, type, H)
      PROVE  /\ H \o Header(p) \in Seq(Byte) /\ Awaits(r, type, H \o Header(p))
             /\ H \o Gathered(p) = (H \o Header(p)) \o Gathered(r)
  <2>1. CASE r.state = "waitResponseLength"
    <3>1. r = p /\ Header(p) = NoBytes
      BY <1>2, <2>1 DEF Header
    <3>2. H \o Header(p) = H
      BY <3>1, NoBytesType
    <3> QED BY <1>5, <3>1, <3>2
  <2>2. CASE r.state \in {"waitResponse", "waitSync"}
    <3>1. p.state = "waitResponseLength" => HeaderDue(p)
      BY <1>2, <2>2
    <3> DEFINE N == H \o Header(p)
    <3>2. /\ N \in Seq(Byte)
          /\ IF response_length(type) >= 0
               THEN N = NoBytes /\ Promise(p) = response_length(type)
               ELSE Len(N) = 4 /\ Promise(p) = from_word(N)
      BY <1>5, <3>1, HeaderIsFirst
    <3>3. H \o Gathered(p) = N \o Gathered(r)
      BY <1>2, <1>5, <3>1, HeaderSplits
    <3> HIDE DEF N
    <3>4. Awaits(r, type, N)
      BY <1>2, <2>2, <3>2 DEF Awaits
    <3> QED BY <3>2, <3>3, <3>4, Zenon DEF N
  <2> QED BY <1>4, <2>1, <2>2 DEF Waiting
<1> HIDE DEF o, q
<1>6. p.state \in Waiting /\ q.state \in Waiting /\ Gathered(q) \in Seq(Byte)
  BY <1>2, <1>4
<1> QED BY <1>4, <1>5, <1>6, Zenon DEF o, q

(* Bytes that are fed change nothing of what is awaited. *)
LEMMA FeedingAwaits ==
  ASSUME NEW p, WellFormed(p), NEW data \in Seq(Byte)
  PROVE  /\ Gathered(feed(p, data)) = Gathered(p) \o data
         /\ feed(p, data).state = p.state
         /\ \A type, H : Awaits(p, type, H) => Awaits(feed(p, data), type, H)
<1>1. /\ p \in ProtocolType /\ p.buffer \in Seq(Byte) /\ p.payload \in Seq(Byte)
      /\ Gathered(p) \in Seq(Byte)
  BY ConcatProperties DEF WellFormed, ProtocolType, Gathered
<1> DEFINE q == feed(p, data)
<1>2. q.state = p.state /\ q.payload = p.payload /\ q.expected = p.expected
  BY <1>1 DEF feed, ProtocolType
<1>3. q.buffer = p.buffer \o data
  BY <1>1, NoBytesType DEF feed, ProtocolType
<1> HIDE DEF q
<1>4. Gathered(q) = Gathered(p) \o data
  <2>1. (p.payload \o p.buffer) \o data = p.payload \o (p.buffer \o data)
    BY <1>1, Associative
  <2> QED BY <1>2, <1>3, <2>1, Zenon DEF Gathered
<1>5. ASSUME NEW type, NEW H, Awaits(p, type, H) PROVE Awaits(q, type, H)
  <2>1. p.state # "waitResponseLength" => Promise(q) = Promise(p)
    BY <1>2 DEF Promise
  <2> QED BY <1>2, <1>5, <2>1 DEF Awaits
<1> QED BY <1>2, <1>4, <1>5 DEF q

(* A command that is sent is answered from the first byte on. *)
LEMMA SendingAwaits ==
  ASSUME NEW p, WellFormed(p), p.payload = NoBytes, p.buffer = NoBytes, NEW type
  PROVE  /\ Awaits(send(p, type), type, NoBytes)
         /\ Gathered(send(p, type)) = NoBytes
         /\ send(p, type).state \in Waiting
<1> DEFINE L == response_length(type)
           q == send(p, type)
<1>1. L \in {-1, 0, 4} /\ p \in ProtocolType
  BY DEF response_length, WellFormed
<1>2. /\ q.state \in Waiting /\ q.buffer = NoBytes /\ q.payload = NoBytes
      /\ L < 0 => q.state = "waitResponseLength"
      /\ L = 0 => q.state = "waitSync"
      /\ L > 0 => q.state = "waitResponse" /\ q.expected = L
  <2>1. L \in Int
    BY <1>1
  <2> HIDE DEF L
  <2>2. /\ start_waiting_for_response(p, L).state \in Waiting
        /\ start_waiting_for_response(p, L).buffer = NoBytes
        /\ start_waiting_for_response(p, L).payload = NoBytes
        /\ L < 0 => start_waiting_for_response(p, L).state = "waitResponseLength"
        /\ L = 0 => start_waiting_for_response(p, L).state = "waitSync"
        /\ L > 0 => /\ start_waiting_for_response(p, L).state = "waitResponse"
                    /\ start_waiting_for_response(p, L).expected = L
    BY <1>1, <2>1, StartWaiting
  <2>3. q = start_waiting_for_response(p, L)
    BY DEF send, L
  <2> HIDE DEF q
  <2> QED BY <2>2, <2>3
<1> HIDE DEF q
<1>3. Gathered(q) = NoBytes
  BY <1>2, NoBytesType DEF Gathered
<1>4. Awaits(q, type, NoBytes)
  <2> HIDE DEF L
  <2>1. L >= 0 => Promise(q) = L
    BY <1>1, <1>2, NoBytesType DEF Promise
  <2> QED BY <1>1, <1>2, <2>1 DEF Awaits, L
<1> QED BY <1>2, <1>3, <1>4 DEF q
==============================================================================
