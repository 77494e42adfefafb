------------------------------ MODULE MCSession ------------------------------
(* Small instance of Session. *)
EXTENDS Session

(* A checksum that tells flash contents apart: digits to the base 4.  The  *)
(* second argument, a number of erased cells, does not matter here.        *)
MCCrc(data, n) ==
  FoldLeft(LAMBDA acc, b : 4 * acc + (b % 4), 0, data)

MCRequests ==
  { Command(GET_DEVICE, << FLASH_SIZE >>), Command(GET_WRITE_PTR, << >>),
    Command(GET_CHIP_DES, << >>), Command(PROG_MULTI, << 1, 2 >>),
    Command(CHIP_ERASE, << >>), Command(REBOOT, << >>) }

MCInitialDevice ==
  { [flash |-> [i \in 1..FlashSize |-> 3], wptr |-> 0, rev |-> 6, mode |-> m] :
      m \in {"bootloader", "app"} }
==============================================================================
