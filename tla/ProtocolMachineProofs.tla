------------------------ MODULE ProtocolMachineProofs ------------------------
(***************************************************************************)
(* The properties of ProtocolMachine, for all fragments, commands and      *)
(* bounds.  Parsed replies, splits and stray bytes of any length are       *)
(* covered: the runs of TLC check the same formulas on short ones.         *)
(***************************************************************************)
EXTENDS ProtocolMachine, ProtocolTheorems

(* The inductive invariant.  WaitsAreSound does not say where the promised *)
(* length is kept while a reply is read in stages, nor that an object only *)
(* waits for a reply that is outstanding.                                  *)
PromiseKept ==
  /\ proto.state = "waitResponseLength" => promised = -1
  /\ proto.state \in {"waitResponse", "waitSync"} /\ event.type # "ExcessData" =>
       Promise(proto) = promised
  /\ proto.state = "waitResponse" => event.type # "ExcessData"

WaitsForReply == proto.state \in Waiting => awaiting

Inv ==
  /\ TypeOK
  /\ WellFormed(proto)
  /\ PromiseKept
  /\ WaitsForReply
  /\ TurnIsClean
  /\ ResponseIsFramed

(* The invariant contains the claims of WaitsAreSound. *)
LEMMA InvImpliesWaitsAreSound == Inv => WaitsAreSound
<1> SUFFICES ASSUME Inv PROVE WaitsAreSound
  OBVIOUS
<1>1. WellFormed(proto) /\ PromiseKept
  BY DEF Inv
<1>2. proto.state = "waitResponse" => Promise(proto) = proto.expected
  BY DEF Promise
<1>3. proto.state = "waitSync" => Promise(proto) = Len(proto.payload)
  BY DEF Promise
<1> QED BY <1>1, <1>2, <1>3 DEF WellFormed, PromiseKept, WaitsAreSound, Waiting

(* A new Protocol object satisfies the invariant. *)
LEMMA InitInv == Init => Inv
<1> SUFFICES ASSUME Init PROVE Inv
  OBVIOUS
<1>1. /\ proto \in ProtocolType /\ proto.state = "idle"
  BY NoBytesType DEF Init, NewProtocol, ProtocolType, ProtocolState
<1>2. /\ event.type = "Unread"
      /\ event \in [type : EventTypes \union {"Unread"}, code : {0} \union KnownReplies,
                    payload : Seq(Byte)]
  BY NoBytesType DEF Init, Unread
<1>3. awaiting \in BOOLEAN /\ promised \in Nat \union {-1}
  BY DEF Init
<1> QED BY <1>1, <1>2, <1>3
        DEF Inv, TypeOK, WellFormed, PromiseKept, WaitsForReply, Waiting,
            TurnIsClean, ResponseIsFramed

(* What a call of next_event does to a machine that satisfies Inv. *)
LEMMA NextEventStep ==
  ASSUME Inv, NextEvent
  PROVE  /\ Inv'
         /\ event'.type = "Response" => awaiting
         /\ Held(proto) = Header(proto) \o (Carried(event') \o Held(proto'))
<1> DEFINE o == next_event(proto)
<1>1. /\ event.type \in {"Unread", "Response", "ConnectionClosed"}
      /\ event' = o.event /\ proto' = o.proto
      /\ awaiting' = (awaiting /\ o.event.type # "Response")
      /\ promised' = IF HeaderDue(proto) THEN from_word(SubSeq(proto.buffer, 1, 4))
                                         ELSE promised
  BY DEF NextEvent, AtHeader, HeaderDue
<1>2. /\ WellFormed(proto) /\ TypeOK /\ PromiseKept /\ WaitsForReply
  BY DEF Inv
<1>3. /\ WellFormed(o.proto)
      /\ o.event \in EventType
      /\ o.event.type = "None" =>
           /\ o.proto = proto /\ proto.state \notin Waiting
           /\ proto.payload = NoBytes /\ proto.buffer = NoBytes
      /\ o.event.type = "Response" =>
           /\ proto.state \in Waiting /\ o.proto.state = "inSync"
           /\ Len(o.event.payload) = Promise(proto)
           /\ proto.state = "waitResponseLength" => HeaderDue(proto)
      /\ o.proto.state \in Waiting => proto.state \in Waiting
      /\ o.proto.state = "waitResponseLength" => o.proto = proto /\ ~HeaderDue(proto)
      /\ o.proto.state \in {"waitResponse", "waitSync"} =>
           /\ proto.state = "waitResponseLength" => HeaderDue(proto)
           /\ o.event.type # "ExcessData" => Promise(o.proto) = Promise(proto)
      /\ o.proto.state = "waitResponse" => o.event.type # "ExcessData"
  BY <1>2, NextEventReturns
<1>4. Held(proto) = Header(proto) \o (Carried(o.event) \o Held(o.proto))
  BY <1>2, NextEventReturns DEF Held
<1> HIDE DEF o
(* The length that is due, before and after the header is read. *)
<1>5. proto.state \in Waiting /\ (proto.state = "waitResponseLength" => HeaderDue(proto))
        => Promise(proto) = promised'
  <2>1. HeaderDue(proto) => Promise(proto) = from_word(SubSeq(proto.buffer, 1, 4))
    BY DEF HeaderDue, Promise
  <2>2. proto.state \in {"waitResponse", "waitSync"} => Promise(proto) = promised
    BY <1>1, <1>2 DEF PromiseKept
  <2>3. proto.state # "waitResponseLength" => ~HeaderDue(proto)
    BY DEF HeaderDue
  <2> QED BY <1>1, <2>1, <2>2, <2>3 DEF Waiting
<1>6. promised' \in Nat \union {-1}
  <2>1. CASE HeaderDue(proto)
    <3>1. proto.buffer \in Seq(Byte) /\ 4 \in 0..Len(proto.buffer)
      BY <1>2, <2>1 DEF WellFormed, HeaderDue, ProtocolType
    <3>2. SubSeq(proto.buffer, 1, 4) \in Seq(Byte) /\ Len(SubSeq(proto.buffer, 1, 4)) = 4
      BY <3>1, Cut
    <3> QED BY <1>1, <2>1, <3>2, WordIsNat
  <2>2. CASE ~HeaderDue(proto)
    BY <1>1, <1>2, <2>2 DEF TypeOK
  <2> QED BY <2>1, <2>2
<1>7. TypeOK'
  <2>1. proto' \in ProtocolType
    BY <1>1, <1>3 DEF WellFormed
  <2>2. event' \in [type : EventTypes \union {"Unread"}, code : {0} \union KnownReplies,
                    payload : Seq(Byte)]
    BY <1>1, <1>3 DEF EventType
  <2>3. awaiting' \in BOOLEAN
    BY <1>1
  <2> QED BY <1>6, <2>1, <2>2, <2>3 DEF TypeOK
<1>8. WellFormed(proto)'
  BY <1>1, <1>3
<1>9. PromiseKept'
  <2>1. proto'.state = "waitResponseLength" => promised' = -1
    BY <1>1, <1>2, <1>3 DEF PromiseKept
  <2>2. proto'.state \in {"waitResponse", "waitSync"} /\ event'.type # "ExcessData" =>
          Promise(proto') = promised'
    BY <1>1, <1>3, <1>5 DEF Waiting
  <2> QED BY <1>1, <1>3, <2>1, <2>2 DEF PromiseKept
<1>10. WaitsForReply'
  BY <1>1, <1>2, <1>3 DEF WaitsForReply, Waiting
<1>11. TurnIsClean'
  BY <1>1, <1>3, NoBytesType DEF TurnIsClean, Held
<1>12. ResponseIsFramed'
  BY <1>1, <1>3, <1>5 DEF ResponseIsFramed
<1>13. event'.type = "Response" => awaiting
  BY <1>1, <1>2, <1>3 DEF WaitsForReply
<1>14. Inv'
  BY <1>7, <1>8, <1>9, <1>10, <1>11, <1>12 DEF Inv
<1> QED BY <1>1, <1>4, <1>13, <1>14

(* Unread is an event on which nothing depends. *)
LEMMA UnreadType ==
  /\ Unread.type = "Unread"
  /\ Unread \in [type : EventTypes \union {"Unread"}, code : {0} \union KnownReplies,
                 payload : Seq(Byte)]
  BY NoBytesType DEF Unread

(* send() starts to wait for a reply of the length the command calls for,  *)
(* with no byte of an earlier one: TurnIsClean is what makes this so.      *)
LEMMA SendStep ==
  ASSUME Inv, NEW type, Send(type)
  PROVE  Inv'
<1> DEFINE length == response_length(type)
<1>1. /\ proto' = start_waiting_for_response(proto, length)
      /\ event' = Unread /\ awaiting' = TRUE /\ promised' = length
      /\ event.type = "None"
  BY DEF Send, send
<1>2. length \in {-1, 0, 4}
  BY DEF response_length
<1>3. /\ proto \in ProtocolType /\ proto.payload \in Seq(Byte) /\ proto.buffer \in Seq(Byte)
      /\ Held(proto) = NoBytes
  BY <1>1 DEF Inv, WellFormed, TurnIsClean, ProtocolType
<1>4. proto.payload = NoBytes
  BY <1>3, NoBytesInParts DEF Held
<1> HIDE DEF length
<1>5. /\ WellFormed(proto')
      /\ proto'.state \in Waiting
      /\ proto'.payload = NoBytes
      /\ length < 0 => proto'.state = "waitResponseLength"
      /\ length = 0 => proto'.state = "waitSync"
      /\ length > 0 => proto'.state = "waitResponse" /\ proto'.expected = length
  BY <1>1, <1>2, <1>3, <1>4, StartWaiting
<1>6. PromiseKept'
  BY <1>1, <1>2, <1>5, UnreadType, NoBytesType DEF PromiseKept, Promise
<1>7. TypeOK'
  BY <1>1, <1>2, <1>5, UnreadType DEF TypeOK, WellFormed
<1> QED BY <1>1, <1>5, <1>6, <1>7, UnreadType
        DEF Inv, WaitsForReply, TurnIsClean, ResponseIsFramed

(* send_failed() leaves an object that waits for nothing. *)
LEMMA SendFailsStep ==
  ASSUME Inv, NEW type, SendFails(type)
  PROVE  Inv'
<1> DEFINE q == send(proto, type)
<1>1. /\ proto' = [q EXCEPT !.state = "error"]
      /\ event' = Unread /\ awaiting' = FALSE /\ promised' = promised
  BY DEF SendFails, send_failed
<1>2. q \in ProtocolType
  <2>1. response_length(type) \in Int
    BY DEF response_length
  <2> QED BY <2>1, StartWaiting DEF Inv, WellFormed, send
<1> HIDE DEF q
<1>3. proto' \in ProtocolType /\ proto'.state = "error"
  BY <1>1, <1>2 DEF ProtocolType, ProtocolState
<1>4. WellFormed(proto')
  BY <1>3 DEF WellFormed
<1>5. TypeOK'
  BY <1>1, <1>3, UnreadType DEF Inv, TypeOK
<1> QED BY <1>1, <1>3, <1>4, <1>5, UnreadType
        DEF Inv, PromiseKept, WaitsForReply, Waiting, TurnIsClean, ResponseIsFramed

(* feed() changes neither what the object waits for nor what is promised. *)
LEMMA ReceiveStep ==
  ASSUME Inv, NEW data \in Seq(Byte), Receive(data)
  PROVE  Inv'
<1>1. /\ proto' = feed(proto, data)
      /\ event' = Unread /\ awaiting' = awaiting /\ promised' = promised
      /\ event.type = "NeedMoreData"
  BY DEF Receive
<1>2. /\ proto \in ProtocolType /\ WellFormed(proto) /\ PromiseKept /\ WaitsForReply
      /\ proto.buffer \in Seq(Byte)
  BY DEF Inv, WellFormed, ProtocolType
<1>3. proto.buffer \o data \in Seq(Byte)
  BY <1>2, ConcatProperties
<1>4. /\ proto' \in ProtocolType
      /\ proto'.state = proto.state /\ proto'.payload = proto.payload
      /\ proto'.expected = proto.expected
  <2>1. CASE data = NoBytes
    BY <1>1, <1>2, <2>1 DEF feed, ProtocolType
  <2>2. CASE data # NoBytes
    BY <1>1, <1>2, <1>3, <2>2 DEF feed, ProtocolType
  <2> QED BY <2>1, <2>2
<1>5. WellFormed(proto')
  BY <1>2, <1>4 DEF WellFormed
<1>6. PromiseKept'
  <2>1. proto.state \in {"waitResponse", "waitSync"} => Promise(proto') = Promise(proto)
    BY <1>4 DEF Promise
  <2> QED BY <1>1, <1>2, <1>4, <2>1, UnreadType DEF PromiseKept
<1>7. TypeOK'
  BY <1>1, <1>4, UnreadType DEF Inv, TypeOK
<1> QED BY <1>1, <1>2, <1>4, <1>5, <1>6, <1>7, UnreadType
        DEF Inv, WaitsForReply, TurnIsClean, ResponseIsFramed

(* reset() leaves an idle object: the payload it keeps breaks no promise. *)
LEMMA StartOverStep ==
  ASSUME Inv, StartOver
  PROVE  Inv'
<1>1. /\ proto' = [proto EXCEPT !.buffer = NoBytes, !.closed = FALSE, !.state = "idle"]
      /\ event' = Unread /\ awaiting' = FALSE /\ promised' = promised
  BY DEF StartOver, reset
<1>2. proto \in ProtocolType
  BY DEF Inv, TypeOK
<1>3. proto' \in ProtocolType /\ proto'.state = "idle"
  BY <1>1, <1>2, NoBytesType DEF ProtocolType, ProtocolState
<1>4. WellFormed(proto')
  BY <1>3 DEF WellFormed
<1>5. TypeOK'
  BY <1>1, <1>3, UnreadType DEF Inv, TypeOK
<1> QED BY <1>1, <1>3, <1>4, <1>5, UnreadType
        DEF Inv, PromiseKept, WaitsForReply, Waiting, TurnIsClean, ResponseIsFramed

(* Every step preserves the invariant. *)
LEMMA NextInv == Inv /\ [Next]_vars => Inv'
<1> SUFFICES ASSUME Inv, [Next]_vars PROVE Inv'
  OBVIOUS
<1>1. CASE NextEvent
  BY <1>1, NextEventStep
<1>2. ASSUME NEW type \in Commands, Send(type) PROVE Inv'
  BY <1>2, SendStep
<1>3. ASSUME NEW type \in Commands, SendFails(type) PROVE Inv'
  BY <1>3, SendFailsStep
<1>4. ASSUME NEW data \in Fragments, Receive(data) PROVE Inv'
  BY <1>4, FragmentsAssumption, ReceiveStep
<1>5. CASE Receive(NoBytes)
  BY <1>5, NoBytesType, ReceiveStep
<1>6. CASE StartOver
  BY <1>6, StartOverStep
<1>7. CASE UNCHANGED vars
  BY <1>7 DEF vars, Inv, TypeOK, PromiseKept, WaitsForReply, TurnIsClean, ResponseIsFramed
<1> QED BY <1>1, <1>2, <1>3, <1>4, <1>5, <1>6, <1>7 DEF Next

(* The invariant holds in every reachable state. *)
LEMMA AlwaysInv == Spec => []Inv
  BY InitInv, NextInv, PTL DEF Spec

------------------------------------------------------------------------------
(* The attributes of a Protocol object always have their types. *)
THEOREM TypeCorrect == Spec => []TypeOK
<1>1. Inv => TypeOK
  BY DEF Inv
<1> QED BY <1>1, AlwaysInv, PTL

(* The asserts of next_event never fail, and the sync marker is awaited    *)
(* only behind a payload of the promised length.                           *)
THEOREM WaitsAreAlwaysSound == Spec => []WaitsAreSound
  BY InvImpliesWaitsAreSound, AlwaysInv, PTL

(* When it is the client's turn, the object holds no byte of the past. *)
THEOREM TurnIsAlwaysClean == Spec => []TurnIsClean
<1>1. Inv => TurnIsClean
  BY DEF Inv
<1> QED BY <1>1, AlwaysInv, PTL

(* Every reported reply carries a payload of the length that was promised. *)
THEOREM ResponsesAreFramed == Spec => []ResponseIsFramed
<1>1. Inv => ResponseIsFramed
  BY DEF Inv
<1> QED BY <1>1, AlwaysInv, PTL

(* At most one reply is reported for each command that was sent. *)
THEOREM NoReplyIsUnsolicited == Spec => NoUnsolicitedResponse
<1>1. Inv /\ [Next]_vars => [NextEvent /\ event'.type = "Response" => awaiting]_vars
  BY NextEventStep
<1> QED BY <1>1, AlwaysInv, PTL DEF Spec, NoUnsolicitedResponse

(* next_event loses, repeats and reorders no byte, whatever arrives. *)
THEOREM BytesAreAlwaysConserved == Spec => BytesAreConserved
<1> DEFINE Conserved ==
      Held(proto) = (IF AtHeader THEN SubSeq(proto.buffer, 1, 4) ELSE NoBytes)
                      \o Reported(event') \o Held(proto')
<1>1. ASSUME Inv, NextEvent PROVE Conserved
  <2> DEFINE h == Header(proto)
             c == Carried(event')
             k == Held(proto')
  <2>1. Held(proto) = h \o (c \o k)
    BY <1>1, NextEventStep
  <2>2. h \in Seq(Byte)
    <3>1. CASE HeaderDue(proto)
      <4>1. proto.buffer \in Seq(Byte) /\ 4 \in 0..Len(proto.buffer)
        BY <1>1, <3>1 DEF Inv, WellFormed, HeaderDue, ProtocolType
      <4> QED BY <3>1, <4>1, Cut DEF Header
    <3>2. CASE ~HeaderDue(proto)
      BY <3>2, NoBytesType DEF Header
    <3> QED BY <3>1, <3>2
  <2>3. Inv'
    BY <1>1, NextEventStep
  <2>4. c \in Seq(Byte)
    <3>1. event'.payload \in Seq(Byte) /\ event'.code \in Byte
      BY <2>3 DEF Inv, TypeOK, KnownReplies, OK, FAILED, INVALID, Byte
    <3>2. << IN_SYNC, event'.code >> \in Seq(Byte)
      BY <3>1 DEF IN_SYNC, Byte
    <3>3. event'.payload \o << IN_SYNC, event'.code >> \in Seq(Byte)
      BY <3>1, <3>2, ConcatProperties
    <3> QED BY <3>1, <3>3 DEF Carried
  <2>5. k \in Seq(Byte)
    <3>1. proto'.payload \in Seq(Byte) /\ proto'.buffer \in Seq(Byte)
      BY <2>3 DEF Inv, TypeOK, ProtocolType
    <3> QED BY <3>1, ConcatProperties DEF Held
  <2>6. /\ h = IF AtHeader THEN SubSeq(proto.buffer, 1, 4) ELSE NoBytes
        /\ c = Reported(event')
    BY DEF Header, HeaderDue, AtHeader, Carried, Reported
  <2> HIDE DEF h, c, k
  <2>7. (h \o c) \o k = h \o (c \o k)
    BY <2>2, <2>4, <2>5, Associative, Zenon
  <2>8. Held(proto) = (h \o c) \o k
    BY <2>1, <2>7
  <2> QED BY <2>6, <2>8 DEF k
<1>2. Inv /\ [Next]_vars => [NextEvent => Conserved]_vars
  BY <1>1
<1> QED BY <1>2, AlwaysInv, PTL DEF Spec, BytesAreConserved
==============================================================================
