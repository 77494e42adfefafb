----------------------------- MODULE FlashUpdate -----------------------------
(***************************************************************************)
(* What an upload promises of the flash memory, with no link, no protocol  *)
(* and no bootloader in sight: the flash is erased, then filled with the   *)
(* image from its beginning, in order and one chunk at a time; success is  *)
(* reported only when the whole image is in place, and after that the      *)
(* flash is left alone.  The update may fail at any time, and what was     *)
(* under way when it failed may still reach the flash.  The promise is     *)
(* made for links that keep their response times: with the first reply     *)
(* that comes late, or in between, it lapses.                              *)
(***************************************************************************)
EXTENDS Integers, Sequences

CONSTANTS
  Size,         \* cells of flash memory
  Contents,     \* the image
  Chunk,        \* the largest number of cells written at once
  Cell,         \* values of a cell
  Blank         \* the value of an erased cell

VARIABLES flash, status

updateVars == << flash, status >>

Filled(n) == [i \in 1..Size |-> IF i <= n THEN Contents[i] ELSE Blank]

Init ==
  /\ flash \in [1..Size -> Cell]
  /\ status = "active"

Erase ==
  /\ status # "success"
  /\ flash' = Filled(0)
  /\ UNCHANGED status

Write(m, n) ==
  /\ status # "success"
  /\ m < n /\ n <= m + Chunk
  /\ flash = Filled(m)
  /\ flash' = Filled(n)
  /\ UNCHANGED status

Succeed ==
  /\ status = "active"
  /\ flash = Filled(Len(Contents))
  /\ status' = "success"
  /\ UNCHANGED flash

Fail ==
  /\ status = "active"
  /\ status' = "failed"
  /\ UNCHANGED flash

(* Nothing more is promised; what is left of the flash is not looked at. *)
Lapse ==
  /\ status' = "lapsed"
  /\ flash' = Filled(0)

Next ==
  \/ Erase
  \/ \E m, n \in 0..Len(Contents) : Write(m, n)
  \/ Succeed
  \/ Fail
  \/ Lapse

Spec == Init /\ [][Next]_updateVars
==============================================================================
