-------------------------- MODULE MCProtocolMachine --------------------------
(* Small instance of ProtocolMachine. *)
EXTENDS ProtocolMachine

(* Single bytes: a sync byte, a known and an unknown response type, and a  *)
(* byte that is none of them.  Bursts: the header of a one-byte reply,     *)
(* garbage before a sync marker, and two sync markers at once.             *)
MCFragments ==
  { << b >> : b \in {0, OK, IN_SYNC, BAD_SILICON_REV} }
    \union { << 1, 0, 0, 0 >>, << 0, IN_SYNC, OK >>, << IN_SYNC, OK, IN_SYNC, OK >> }

MCCommands == {GET_SYNC, GET_DEVICE, GET_CHIP_DES}
==============================================================================
