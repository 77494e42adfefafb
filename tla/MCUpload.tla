------------------------------ MODULE MCUpload ------------------------------
(* Small instance of Upload. *)
EXTENDS Upload

(* A checksum that tells the contents of this flash apart: digits to the   *)
(* base 4, in which erased cells are zeros.  Padding to another length     *)
(* than that of the flash gives a value that no flash has.                 *)
MCCrc(data, n) ==
  LET digits == FoldLeft(LAMBDA acc, b : 4 * acc + ((b + 1) % 4), 0, data)
  IN  IF Len(data) + n = FlashSize THEN 4^n * digits ELSE 4^FlashSize

MCImage == << 1, 2, 0 >>
MCBigImage == << 1, 2, 0, 1, 2 >>

(* An older firmware fills the flash, and either its main program or the   *)
(* bootloader is running.                                                  *)
Devices(modes, revs) ==
  { [flash |-> [i \in 1..FlashSize |-> 1], wptr |-> 0, rev |-> r, mode |-> m] :
      m \in modes, r \in revs }

(* Revision 6 can tell its write pointer, 5 cannot, 3 is not supported. *)
MCDevices == Devices({"bootloader", "app"}, {3, 5, 6})
MCModernDevices == Devices({"bootloader", "app"}, {6})
==============================================================================
