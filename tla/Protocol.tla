------------------------------ MODULE Protocol ------------------------------
(***************************************************************************)
(* The sans-I/O state machine of ap_uploader/protocol.py, as operators on  *)
(* a record that holds the attributes of a Protocol object.  There are no  *)
(* variables here: ProtocolMachine drives the operators on their own, and  *)
(* Connection drives them over a link to a bootloader.                     *)
(*                                                                         *)
(* A byte is a number.  A command is a record of its opcode and arguments; *)
(* its encoding on the wire is left to the module that needs it.           *)
(***************************************************************************)
EXTENDS Integers, Sequences, SequencesExt

Byte == 0..255

NoBytes == << >>

------------------------------------------------------------------------------
(* Opcodes, of commands and of replies. *)

OK == 16
FAILED == 17
IN_SYNC == 18
INVALID == 19
BAD_SILICON_REV == 20
GET_SYNC == 33
GET_DEVICE == 34
CHIP_ERASE == 35
PROG_MULTI == 39
GET_CRC == 41
GET_OTP == 42
GET_SN == 43
GET_CHIP == 44
GET_CHIP_DES == 46
GET_WRITE_PTR == 47
REBOOT == 48

(* The response types that next_event accepts after the sync byte. *)
KnownReplies == {OK, FAILED, INVALID}

Command(type, args) == [type |-> type, args |-> args]

(* Length of the payload that precedes the sync marker of a reply; -1 when *)
(* the reply states it in its own first four bytes.                        *)
response_length(type) ==
  CASE type = GET_CHIP_DES -> -1
    [] type \in {GET_CRC, GET_OTP, GET_SN, GET_DEVICE, GET_CHIP, GET_WRITE_PTR} -> 4
    [] OTHER -> 0

(* Four-byte little-endian words: int.to_bytes and int.from_bytes. *)
to_word(n) ==
  << n % 256, (n \div 256) % 256, (n \div 65536) % 256, (n \div 16777216) % 256 >>

from_word(w) == w[1] + 256 * w[2] + 65536 * w[3] + 16777216 * w[4]

(* Response.to_bytes: only a success carries its payload. *)
reply_bytes(code, payload) ==
  (IF code = OK THEN payload ELSE NoBytes) \o << IN_SYNC, code >>

------------------------------------------------------------------------------
(* Events.  A uniform record shape keeps the events comparable. *)

EventTypes == {"None", "NeedMoreData", "ExcessData", "ConnectionClosed", "Response"}

NoEvent == [type |-> "None", code |-> 0, payload |-> NoBytes]
NeedMoreData == [type |-> "NeedMoreData", code |-> 0, payload |-> NoBytes]
ConnectionClosed == [type |-> "ConnectionClosed", code |-> 0, payload |-> NoBytes]
ExcessData(bytes) == [type |-> "ExcessData", code |-> 0, payload |-> bytes]
Response(code, bytes) == [type |-> "Response", code |-> code, payload |-> bytes]

------------------------------------------------------------------------------
(* The Protocol object. *)

ProtocolState == {"idle", "inSync", "waitResponseLength", "waitResponse",
                  "waitSync", "error"}

Waiting == {"waitResponseLength", "waitResponse", "waitSync"}

ProtocolType ==
  [state : ProtocolState, buffer : Seq(Byte), closed : BOOLEAN,
   payload : Seq(Byte), expected : Nat]

NewProtocol ==
  [state |-> "idle", buffer |-> NoBytes, closed |-> FALSE,
   payload |-> NoBytes, expected |-> 0]

in_sync(p) == p.state = "inSync"

(* Feeding bytes to a closed receiver raises RuntimeError: the guard of the *)
(* actions that feed.                                                       *)
can_feed(p) == ~p.closed

feed(p, data) ==
  IF data = NoBytes THEN [p EXCEPT !.closed = TRUE]
                  ELSE [p EXCEPT !.buffer = @ \o data]

(* Mutant: reset() believes that the bootloader is still in sync. *)
reset_to_in_sync(p) ==
  [p EXCEPT !.buffer = NoBytes, !.closed = FALSE, !.state = "inSync"]

(* reset() leaves _payload and _bytes_expected as they are. *)
reset(p) == [p EXCEPT !.buffer = NoBytes, !.closed = FALSE, !.state = "idle"]

start_waiting_for_sync(p) == [p EXCEPT !.state = "waitSync", !.expected = 2]

(* Mutant: the branch of _start_waiting_for_response for replies without   *)
(* any payload is missing.                                                 *)
wait_for_no_bytes(p, length) ==
  IF length < 0 THEN [p EXCEPT !.state = "waitResponseLength",
                               !.payload = NoBytes, !.expected = 4]
                ELSE [p EXCEPT !.state = "waitResponse",
                               !.payload = NoBytes, !.expected = length]

start_waiting_for_response(p, length) ==
  CASE length < 0 -> [p EXCEPT !.state = "waitResponseLength",
                               !.payload = NoBytes, !.expected = 4]
    [] length = 0 -> start_waiting_for_sync(p)
    [] length > 0 -> [p EXCEPT !.state = "waitResponse",
                               !.payload = NoBytes, !.expected = length]

(* Out of sync, send() raises LocalProtocolError for all but GET_SYNC: the *)
(* guard of the actions that send.                                         *)
can_send(p, type) == in_sync(p) \/ type = GET_SYNC

send(p, type) == start_waiting_for_response(p, response_length(type))

send_failed(p) == [p EXCEPT !.state = "error"]

(* Mutant: the state is left at "waiting for sync" after the reply. *)
stay_in_wait_state(p) == [p EXCEPT !.payload = NoBytes, !.expected = 0]

move_to_in_sync_state(p) ==
  [p EXCEPT !.state = "inSync", !.payload = NoBytes, !.expected = 0]

drop(bytes, n) == SubSeq(bytes, n + 1, Len(bytes))

(* What next_event returns: the event, and the object it leaves behind. *)
Outcome(event, p) == [event |-> event, proto |-> p]

(* Mutants: a payload without further bytes is not reported as excess; the *)
(* buffer behind the excess is thrown away with it.                        *)
purge_only_buffer(p, up_to) ==
  IF up_to > 0
    THEN Outcome(ExcessData(p.payload \o SubSeq(p.buffer, 1, up_to)),
                 [p EXCEPT !.payload = NoBytes, !.buffer = drop(@, up_to)])
    ELSE Outcome(NoEvent, p)
purge_whole_buffer(p, up_to) ==
  IF p.payload # NoBytes \/ up_to > 0
    THEN Outcome(ExcessData(p.payload \o SubSeq(p.buffer, 1, up_to)),
                 [p EXCEPT !.payload = NoBytes, !.buffer = NoBytes])
    ELSE Outcome(NoEvent, p)

purge_excess_data(p, up_to) ==
  IF p.payload # NoBytes \/ up_to > 0
    THEN Outcome(ExcessData(p.payload \o SubSeq(p.buffer, 1, up_to)),
                 [p EXCEPT !.payload = NoBytes, !.buffer = drop(@, up_to)])
    ELSE Outcome(NoEvent, p)

(* The three stages of one pass of next_event.  A stage whose bytes have   *)
(* not all arrived leaves the object in its waiting state.                 *)
read_length(p) ==
  IF p.state = "waitResponseLength" /\ Len(p.buffer) >= p.expected
    THEN start_waiting_for_response([p EXCEPT !.buffer = drop(@, p.expected)],
                                    from_word(SubSeq(p.buffer, 1, 4)))
    ELSE p

(* Mutant: whatever has arrived is taken for the payload. *)
read_any_payload(p) ==
  IF p.state = "waitResponse" /\ Len(p.buffer) >= p.expected
    THEN start_waiting_for_sync([p EXCEPT !.payload = p.buffer, !.buffer = NoBytes])
    ELSE p

read_payload(p) ==
  IF p.state = "waitResponse" /\ Len(p.buffer) >= p.expected
    THEN start_waiting_for_sync(
           [p EXCEPT !.payload = SubSeq(p.buffer, 1, p.expected),
                     !.buffer = drop(@, p.expected)])
    ELSE p

(* Position of the first sync byte, 0 when there is none. *)
sync_index(bytes) == SelectInSeq(bytes, LAMBDA b : b = IN_SYNC)

read_sync(p) ==
  CASE p.buffer = NoBytes -> Outcome(NeedMoreData, p)
    [] p.buffer # NoBytes /\ sync_index(p.buffer) > 1 ->
         purge_excess_data(p, sync_index(p.buffer) - 1)
    [] p.buffer # NoBytes /\ sync_index(p.buffer) = 0 ->
         purge_excess_data(p, Len(p.buffer))
    [] sync_index(p.buffer) = 1 /\ Len(p.buffer) < 2 -> Outcome(NeedMoreData, p)
    [] sync_index(p.buffer) = 1 /\ Len(p.buffer) >= 2 ->
         IF p.buffer[2] \in KnownReplies
           THEN Outcome(Response(p.buffer[2], p.payload),
                        move_to_in_sync_state([p EXCEPT !.buffer = drop(@, 2)]))
           ELSE purge_excess_data(p, 2)

next_event(p) ==
  IF p.buffer = NoBytes /\ p.closed THEN Outcome(ConnectionClosed, p)
  ELSE LET r == read_payload(read_length(p))
       IN  CASE r.state \in {"waitResponseLength", "waitResponse"} ->
                  Outcome(NeedMoreData, r)
             [] r.state = "waitSync" -> read_sync(r)
             [] OTHER -> purge_excess_data(r, Len(r.buffer))
==============================================================================
