------------------------------ MODULE MCMavlink ------------------------------
(* Small instance of MavlinkOperation, with the real checksum. *)
EXTENDS MavlinkOperation, X25

(* A heartbeat of an ArduPilot quadrotor as a MAVLink 1 packet; the same   *)
(* signed, as MAVLink 2; and a packet of a type that the uploader does not *)
(* know, with the marker of a packet in its payload.                       *)
HeartbeatV1 == << 254, 9, 5, 1, 1, 0, 0, 0, 0, 0, 2, 3, 81, 3, 3, 43, 220 >>
SignedHeartbeat ==
  << 253, 9, 1, 0, 5, 1, 1, 0, 0, 0, 0, 0, 0, 0, 2, 3, 81, 3, 3, 119, 204,
     7, 7, 7, 7, 7, 7, 7, 7, 7, 7, 7, 7, 7 >>
Other == << 253, 4, 0, 0, 6, 1, 1, 24, 0, 0, 254, 3, 0, 9, 71, 215 >>

MCPackets == {HeartbeatV1, SignedHeartbeat, Other}
MCHeartbeats == {HeartbeatV1, SignedHeartbeat}

(* The end of the unknown packet, with and without the marker in front. *)
MCRemainders == {without(Other, 10), without(Other, 11)}

(* The checksum of the code is that of its definition: for every byte, and *)
(* for checksums that have every bit in both of its values.                *)
ASSUME ChecksumIsMCRF4XX ==
  \A b \in Octet, crc \in {0, 65535, 21845, 43690, 4660} :
    accumulate(crc, b) = ShiftByte(crc, b)

(* Packing gives the bytes of MAVLink: those of a heartbeat, a signed      *)
(* packet's checksum, the packet that the serial transport has at hand to  *)
(* reboot a vehicle into its bootloader, and a payload without its zeros.  *)
Vitals == << 0, 0, 0, 0, 2, 3, 81, 3, 3 >>
THREE == << 0, 0, 64, 64 >>
RebootToBootloader ==
  << 254, 33, 69, 255, 0, 76 >> \o THREE \o Zeros(24) \o << 246, 0, 0, 0, 0, 204, 55 >>

ASSUME PackingIsExact ==
  /\ HeartbeatV1 = pack_msg(TRUE, HEARTBEAT, Vitals, 5, << 1, 1 >>)
  /\ crc_matches(SignedHeartbeat)
  /\ decode(RebootToBootloader).type = "COMMAND_LONG"
  /\ pack_msg(FALSE, COMMAND_ACK, short(246) \o Zeros(8), 0, << 1, 1 >>)
       = << MARKER_V2, 1, 0, 0, 0, 1, 1, 77, 0, 0, 246 >> \o << 53, 215 >>
==============================================================================
