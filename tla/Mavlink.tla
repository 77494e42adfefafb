------------------------------- MODULE Mavlink -------------------------------
(***************************************************************************)
(* The MAVLink codec of ap_uploader/mavlink.py, as operators on a record   *)
(* that holds the attributes of a MAVLink object.  There are no variables  *)
(* here: MavlinkOperation drives the operators over a link.                *)
(*                                                                         *)
(* robust_parsing is never switched off and no secret key is ever set, so  *)
(* the branches that raise out of the parser and that check signatures are *)
(* dead and left out.  What lies in front of buf_index is dropped at once. *)
(***************************************************************************)
EXTENDS Integers, Sequences, SequencesExt

CONSTANT Checksum(_)    \* x25crc: the checksum of a sequence of bytes

Octet == 0..255

MARKER_V1 == 254
MARKER_V2 == 253
HEADER_LEN_V1 == 6
HEADER_LEN_V2 == 10
SIGNATURE_BLOCK_LEN == 13

(* The message types of mavlink_map by their identifiers: the byte that    *)
(* seeds the checksum, and the size of the payload.                        *)
HEARTBEAT == 0
PARAM_SET == 23
COMMAND_LONG == 76
COMMAND_ACK == 77
KnownIds == {HEARTBEAT, PARAM_SET, COMMAND_LONG, COMMAND_ACK}

crc_extra(id) ==
  CASE id = HEARTBEAT -> 50
    [] id = PARAM_SET -> 168
    [] id = COMMAND_LONG -> 152
    [] id = COMMAND_ACK -> 143
    [] id \notin KnownIds -> 0      \* known to its sender only

type_name(id) ==
  CASE id = HEARTBEAT -> "HEARTBEAT"
    [] id = PARAM_SET -> "PARAM_SET"
    [] id = COMMAND_LONG -> "COMMAND_LONG"
    [] id = COMMAND_ACK -> "COMMAND_ACK"

short(n) == << n % 256, n \div 256 >>

(* What two bytes can hold: beyond, pack raises. *)
FitsShort(n) == n \in Nat /\ n \div 256 < 256

without(bytes, n) == SubSeq(bytes, n + 1, Len(bytes))
is_v2(packet) == packet[1] = MARKER_V2

------------------------------------------------------------------------------
(* Packing. *)

(* The number of bytes in front of the zeros at the end, but at least one: *)
(* what is left of a payload whose trailing zeros are stripped.            *)
significant(payload) ==
  LET nonzero == {i \in 1..Len(payload) : payload[i] # 0}
      last == {i \in nonzero : \A j \in nonzero : j <= i}
  IN  IF nonzero = {} THEN 1 ELSE CHOOSE i \in last : TRUE

(* MAVLinkHeader.pack: the source is a system and a component. *)
header(v1, id, payload, seq, source) ==
  IF v1 THEN << MARKER_V1, Len(payload), seq >> \o source \o << id >>
        ELSE << MARKER_V2, Len(payload), 0, 0, seq >> \o source
               \o short(id % 65536) \o << id \div 65536 >>

(* What the checksum of a packet is taken over: all but its marker, and    *)
(* the byte that stands for its type.                                      *)
checksum_of(packet, id) == Checksum(without(packet, 1) \o << crc_extra(id) >>)

(* pack_msg, without signature. *)
pack_msg(v1, id, fields, seq, source) ==
  LET payload == IF v1 THEN fields ELSE SubSeq(fields, 1, significant(fields))
      packet == header(v1, id, payload, seq, source) \o payload
  IN  packet \o short(checksum_of(packet, id))

(* The payloads that the uploader sends, packed in the order of the wire.  *)
(* Floats are four bytes; parameters that are zero are filled in.          *)
Zeros(n) == [i \in 1..n |-> 0]

command_long(command, confirmation, param1, param5) ==
  param1 \o Zeros(12) \o param5 \o Zeros(8)
    \o short(command) \o << 0, 1, confirmation >>

param_set(param_id) == Zeros(4) \o << 0, 1 >> \o param_id \o Zeros(16 - Len(param_id) + 1)

------------------------------------------------------------------------------
(* Parsing. *)

(* A message that the parser reports: what it is, and the bytes it is of.  *)
Message(type, bytes) == [type |-> type, bytes |-> bytes]
BadData(bytes) == Message("BAD_DATA", bytes)
NoMessage == Message("NONE", << >>)

(* Whether a packet is signed is a flag of MAVLink 2. *)
signature_len(packet) ==
  IF is_v2(packet) /\ packet[3] % 2 = 1 THEN SIGNATURE_BLOCK_LEN ELSE 0

header_len(packet) == IF is_v2(packet) THEN HEADER_LEN_V2 ELSE HEADER_LEN_V1

message_id(packet) ==
  IF is_v2(packet) THEN packet[8] + 256 * packet[9] + 65536 * packet[10] ELSE packet[6]

(* Where the checksum of a packet is, and whether it is right. *)
crc_index(packet) == Len(packet) - signature_len(packet) - 1

crc_matches(packet) ==
  LET i == crc_index(packet)
  IN  packet[i] + 256 * packet[i + 1]
        = Checksum(SubSeq(packet, 2, i - 1) \o << crc_extra(message_id(packet)) >>)

(* Mutant: the checksum is not looked at. *)
decode_unchecked(packet) ==
  CASE message_id(packet) \notin KnownIds -> Message("UNKNOWN", packet)
    [] OTHER -> Message(type_name(message_id(packet)), packet)

(* Messages of unknown types have no checksum that could be verified.  The *)
(* initializer of PARAM_SET raises on the string that decode makes of its  *)
(* name, so that a PARAM_SET is never reported as such.                    *)
decode(packet) ==
  CASE message_id(packet) \notin KnownIds -> Message("UNKNOWN", packet)
    [] message_id(packet) = PARAM_SET -> BadData(packet)
    [] message_id(packet) \in KnownIds \ {PARAM_SET} ->
         IF crc_matches(packet) THEN Message(type_name(message_id(packet)), packet)
                                ELSE BadData(packet)

(* The attributes of a MAVLink object: buf from buf_index on, the length   *)
(* that the packet in front claims, the sequence number of the next packet *)
(* that is sent, and the source that it names.                             *)
MavlinkType ==
  [buf : Seq(Octet), expected : Nat, seq : Octet, source : [1..2 -> Octet]]

NewMavlink(system, component) ==
  [buf |-> << >>, expected |-> HEADER_LEN_V1 + 2, seq |-> 0,
   source |-> << system, component >>]

(* The object after encode, whose packet has the number that it had. *)
encoded(mav) == [mav EXCEPT !.seq = (@ + 1) % 256]

(* Mutant: signed packets are cut too short. *)
claimed_unsigned(buf) == buf[2] + header_len(buf) + 2

(* The length of a packet, from its first three bytes. *)
claimed_length(buf) == buf[2] + header_len(buf) + 2 + signature_len(buf)

(* What parse_char returns: a message, and the object it leaves behind. *)
Parsed(message, mav) == [message |-> message, mav |-> mav]

(* Mutant: a byte that begins no packet takes the rest of the chunk along. *)
skip_rest(mav) ==
  Parsed(BadData(<< mav.buf[1] >>),
         [mav EXCEPT !.buf = << >>, !.expected = HEADER_LEN_V1 + 2])

skip_byte(mav) ==
  Parsed(BadData(<< mav.buf[1] >>),
         [mav EXCEPT !.buf = Tail(@), !.expected = HEADER_LEN_V1 + 2])

(* A packet whose claimed bytes have all arrived; flags other than that of *)
(* the signature are not supported.                                        *)
take_packet(mav, length) ==
  LET packet == SubSeq(mav.buf, 1, length)
      rest == [mav EXCEPT !.buf = without(@, length), !.expected = header_len(packet) + 2]
  IN  IF is_v2(packet) /\ packet[3] \div 2 # 0 THEN Parsed(BadData(packet), rest)
                                              ELSE Parsed(decode(packet), rest)

(* parse_char(b""): the next message of what is in the buffer. *)
parse_next(mav) ==
  CASE mav.buf = << >> -> Parsed(NoMessage, mav)
    [] mav.buf # << >> /\ mav.buf[1] \notin {MARKER_V1, MARKER_V2} -> skip_byte(mav)
    [] mav.buf # << >> /\ mav.buf[1] \in {MARKER_V1, MARKER_V2} ->
         LET length == IF Len(mav.buf) >= 3 THEN claimed_length(mav.buf)
                                            ELSE mav.expected
         IN  IF length >= header_len(mav.buf) + 2 /\ Len(mav.buf) >= length
               THEN take_packet(mav, length)
               ELSE Parsed(NoMessage, [mav EXCEPT !.expected = length])

(* parse_buffer: the messages, and the object that is left behind. *)
parse_rest[mav \in MavlinkType] ==
  LET next == parse_next(mav)
  IN  IF next.message = NoMessage
        THEN [messages |-> << >>, mav |-> next.mav]
        ELSE LET rest == parse_rest[next.mav]
             IN  [rest EXCEPT !.messages = << next.message >> \o @]

parse_buffer(mav, bytes) == parse_rest[[mav EXCEPT !.buf = @ \o bytes]]
==============================================================================
