--------------------------- MODULE ProtocolMachine ---------------------------
(***************************************************************************)
(* A Protocol object and the client that drives it, with arbitrary bytes   *)
(* arriving in arbitrary fragments.  The client keeps the discipline of    *)
(* BootloaderConnection._process_command_inner: it acts on the event that  *)
(* next_event returned, and then asks for the next one.                    *)
(***************************************************************************)
EXTENDS Protocol

CONSTANTS
  Fragments,    \* the pieces in which bytes may arrive
  Commands,     \* the opcodes the client may send
  MaxHeld       \* bound: bytes buffered in the object

ASSUME FragmentsAssumption == \A data \in Fragments : data \in Seq(Byte) /\ data # NoBytes
ASSUME MaxHeldAssumption == MaxHeld \in Nat

VARIABLES
  proto,        \* the Protocol object
  event,        \* what next_event returned, Unread before it is called
  awaiting,     \* history: a command was sent, its reply was not reported
  promised      \* history: payload length the awaited reply must have

vars == << proto, event, awaiting, promised >>

Unread == [type |-> "Unread", code |-> 0, payload |-> NoBytes]

(* The types of the Protocol object and of its events; in particular every *)
(* state that next_event leaves behind is one it can go on from.           *)
TypeOK ==
  /\ proto \in ProtocolType
  /\ event \in [type : EventTypes \union {"Unread"}, code : {0} \union KnownReplies,
                payload : Seq(Byte)]
  /\ awaiting \in BOOLEAN
  /\ promised \in Nat \union {-1}

Init ==
  /\ proto = NewProtocol
  /\ event = Unread
  /\ awaiting = FALSE
  /\ promised = 0

------------------------------------------------------------------------------
(* The length header of a variable-length reply is complete and unread. *)
AtHeader ==
  /\ proto.state = "waitResponseLength"
  /\ Len(proto.buffer) >= proto.expected

(* After a reply or a closed connection the client asks again at once. *)
NextEvent ==
  /\ event.type \in {"Unread", "Response", "ConnectionClosed"}
  /\ LET n == next_event(proto) IN
       /\ event' = n.event
       /\ proto' = n.proto
       /\ awaiting' = (awaiting /\ n.event.type # "Response")
       /\ promised' = IF AtHeader THEN from_word(SubSeq(proto.buffer, 1, 4))
                                  ELSE promised

Send(type) ==
  /\ event.type = "None"
  /\ can_send(proto, type)
  /\ proto' = send(proto, type)
  /\ event' = Unread
  /\ awaiting' = TRUE
  /\ promised' = response_length(type)

(* The transport raised: the object is told, and asks for sync next. *)
SendFails(type) ==
  /\ event.type = "None"
  /\ can_send(proto, type)
  /\ proto' = send_failed(send(proto, type))
  /\ event' = Unread
  /\ awaiting' = FALSE
  /\ UNCHANGED promised

Receive(data) ==
  /\ event.type = "NeedMoreData"
  /\ can_feed(proto)
  /\ Len(proto.buffer) + Len(data) <= MaxHeld
  /\ proto' = feed(proto, data)
  /\ event' = Unread
  /\ UNCHANGED << awaiting, promised >>

(* A receive that times out, or excess data, makes the client start over. *)
StartOver ==
  /\ event.type \in {"NeedMoreData", "ExcessData"}
  /\ proto' = reset(proto)
  /\ event' = Unread
  /\ awaiting' = FALSE
  /\ UNCHANGED promised

Next ==
  \/ NextEvent
  \/ \E type \in Commands : Send(type) \/ SendFails(type)
  \/ \E data \in Fragments : Receive(data)
  \/ Receive(NoBytes)
  \/ StartOver

Spec == Init /\ [][Next]_vars

------------------------------------------------------------------------------
(* The bytes that were received and are neither reported nor discarded. *)
Held(p) == p.payload \o p.buffer

(* The bytes an event hands to the client. *)
Reported(e) ==
  IF e.type = "Response" THEN e.payload \o << IN_SYNC, e.code >> ELSE e.payload

(* The asserts of next_event never fail: whenever the object waits, it     *)
(* expects at least one byte.  No wait begins with the payload of an       *)
(* earlier reply, and the sync marker is awaited only behind a payload of  *)
(* the promised length (until excess data makes the client start over).    *)
WaitsAreSound ==
  /\ proto.state \in Waiting => proto.expected > 0
  /\ proto.state = "waitResponseLength" => proto.payload = NoBytes /\ promised = -1
  /\ proto.state = "waitResponse" => proto.payload = NoBytes /\ promised = proto.expected
  /\ proto.state = "waitSync" /\ event.type # "ExcessData" => Len(proto.payload) = promised

(* When next_event says that it is the client's turn, the object waits for *)
(* nothing and holds no received byte, so the command that follows starts  *)
(* from a clean stream.                                                    *)
TurnIsClean ==
  event.type = "None" => proto.state \notin Waiting /\ Held(proto) = NoBytes

(* A reply is reported only while a command is outstanding, at most once   *)
(* for each command: a surplus sync marker is excess data.                 *)
NoUnsolicitedResponse ==
  [][NextEvent /\ event'.type = "Response" => awaiting]_vars

(* The payload of a reported reply has exactly the length that the command *)
(* calls for, or that the reply itself announced, however it was split.    *)
ResponseIsFramed ==
  event.type = "Response" => Len(event.payload) = promised

(* next_event neither loses, repeats nor reorders bytes: what it reports,  *)
(* followed by what it keeps, is what was held, less the length header.    *)
BytesAreConserved ==
  [][NextEvent =>
       Held(proto) = (IF AtHeader THEN SubSeq(proto.buffer, 1, 4) ELSE NoBytes)
                       \o Reported(event') \o Held(proto')]_vars
==============================================================================
