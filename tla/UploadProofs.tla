----------------------------- MODULE UploadProofs -----------------------------
(***************************************************************************)
(* An upload of any image to any device over any link.  It is one of the   *)
(* clients that ConnectionProofs speaks of, so what is proved there of     *)
(* calls holds for it.  From that follows what the flash memory contains   *)
(* at each step of the upload, as long as nobody disturbs the link and the *)
(* image fits the flash.                                                   *)
(***************************************************************************)
EXTENDS Upload, ConnectionProofs

(* What the upload always keeps to. *)
CallOfPhase ==
  /\ pc \in Phases => call.cmd = CommandOf(pc, write_pointer)
  /\ pc = "program" => write_pointer \in Nat
  /\ pc = "connecting" => call.status = "idle"
  /\ pc = "finished" => call.status # "running"
  /\ pc = "finished" <=> finished # Unfinished

UploadTyped ==
  /\ pc \in Phases \union {"connecting", "finished"}
  /\ write_pointer \in Nat \union {NoPointer}
  /\ flash_size \in Nat /\ bl_rev \in Nat
  /\ {retrying, mismatch} \subseteq BOOLEAN
  /\ finished \in {Unfinished, "success", "failure", "cancelled"}

UploadInv == OrderInv /\ FrameOK /\ UploadTyped /\ CallOfPhase

------------------------------------------------------------------------------
(* What it keeps to on a link that nobody disturbs. *)

(* The commands from the erasure on; the last of them may still be under   *)
(* way when the upload has failed.                                         *)
Writing == call.cmd.type \in {CHIP_ERASE, PROG_MULTI, GET_WRITE_PTR, GET_CRC, REBOOT}

(* The bootloader has answered. *)
InTouch == pc \in Phases \ {"probe", "reprobe"} \/ Writing

(* Who listens, and to what: once the bootloader has answered it stays     *)
(* until it is told to reboot, and no reboot packet is under way.          *)
LinkUse ==
  /\ toDev \in Seq({RebootPacket, GetSync, call.cmd})
  /\ pc \in {"probe", "reprobe"} /\ executed > 0 => dev.mode = "bootloader"
  /\ InTouch =>
       /\ toDev \in Seq({GetSync, call.cmd})
       /\ \/ dev.mode = "bootloader"
          \/ call.cmd.type = REBOOT /\ dev.mode = "app" /\ executed > 0
  /\ pc = "connecting" \/ finished = "success" => toDev = << >>

(* What the uploader has been told is true. *)
Informed ==
  /\ InTouch /\ pc # "flash_size" => flash_size = FlashSize
  /\ InTouch /\ pc \notin {"flash_size", "bl_rev"} => dev.rev >= 4

(* A chunk is sent once, at once, and executed at most once. *)
OneShot ==
  call.cmd.type = PROG_MULTI =>
    /\ call.left = 0
    /\ call.status = "running" /\ ~call.sent =>
         toDev = << >> /\ in_sync(proto) /\ executed = 0
    /\ Sent => proto.state \in Waiting
    /\ toDev # << >> => toDev = << call.cmd >> /\ executed = 0

Advance == IF executed > 0 THEN Len(call.cmd.args) ELSE 0

(* How far the image is in place. *)
FlashOK ==
  /\ call.cmd.type = CHIP_ERASE /\ executed > 0 => dev.wptr = 0
  /\ call.cmd.type = PROG_MULTI =>
       /\ write_pointer \in 0..total_bytes
       /\ call.cmd.args = chunk(write_pointer)
       /\ dev.wptr = write_pointer + Advance
  /\ call.cmd.type = GET_WRITE_PTR => dev.wptr \in 0..total_bytes
  /\ call.cmd.type \in {GET_CRC, REBOOT} => dev.wptr = total_bytes
  /\ Writing /\ (call.cmd.type = CHIP_ERASE => executed > 0) =>
       dev.flash = Written(dev.wptr)
  /\ ~mismatch

Calm == LinkUse /\ Informed /\ OneShot

FullInv ==
  /\ UploadInv
  /\ Undisturbed => Calm
  /\ Undisturbed /\ ImageFits => FlashOK

------------------------------------------------------------------------------
(* Words, chunks and commands. *)

LEMMA Quotients ==
  ASSUME NEW n \in Nat
  PROVE  /\ n \div 256 \in Nat /\ 256 * (n \div 256) <= n /\ n < 256 * (n \div 256) + 256
         /\ n % 256 = n - 256 * (n \div 256)
         /\ n \div 65536 \in Nat
         /\ 65536 * (n \div 65536) <= n /\ n < 65536 * (n \div 65536) + 65536
         /\ n \div 16777216 \in Nat
         /\ 16777216 * (n \div 16777216) <= n /\ n < 16777216 * (n \div 16777216) + 16777216
<1>1. n \div 256 \in Nat /\ 256 * (n \div 256) <= n /\ n < 256 * (n \div 256) + 256
  OBVIOUS
<1>2. n % 256 = n - 256 * (n \div 256)
  OBVIOUS
<1>3. /\ n \div 65536 \in Nat
      /\ 65536 * (n \div 65536) <= n /\ n < 65536 * (n \div 65536) + 65536
  OBVIOUS
<1>4. /\ n \div 16777216 \in Nat
      /\ 16777216 * (n \div 16777216) <= n /\ n < 16777216 * (n \div 16777216) + 16777216
  OBVIOUS
<1> QED BY <1>1, <1>2, <1>3, <1>4

(* Dividing twice is dividing by the product. *)
LEMMA QuotientOfQuotient ==
  ASSUME NEW n \in Nat, NEW p \in Nat, NEW q \in Nat, NEW r \in Nat,
         256 * r <= p, p < 256 * r + 256,
         \/ /\ 256 * p <= n /\ n < 256 * p + 256
            /\ 65536 * q <= n /\ n < 65536 * q + 65536
         \/ /\ 65536 * p <= n /\ n < 65536 * p + 65536
            /\ 16777216 * q <= n /\ n < 16777216 * q + 16777216
  PROVE  q = r
<1>1. CASE /\ 256 * p <= n /\ n < 256 * p + 256
           /\ 65536 * q <= n /\ n < 65536 * q + 65536
  BY <1>1
<1>2. CASE /\ 65536 * p <= n /\ n < 65536 * p + 65536
           /\ 16777216 * q <= n /\ n < 16777216 * q + 16777216
  BY <1>2
<1> QED BY <1>1, <1>2

(* A word that holds a number gives it back; a number that does not fit    *)
(* loses what is beyond.                                                   *)
LEMMA WordsAreRead ==
  ASSUME NEW n \in Nat
  PROVE  /\ from_word(to_word(n)) \in Nat /\ from_word(to_word(n)) <= n
         /\ FitsWord(n) => from_word(to_word(n)) = n
<1> PICK q1 : q1 = n \div 256
  OBVIOUS
<1> PICK q2 : q2 = n \div 65536
  OBVIOUS
<1> PICK q3 : q3 = n \div 16777216
  OBVIOUS
<1>1. q1 \in Nat /\ q2 \in Nat /\ q3 \in Nat
  BY Quotients
<1>2. q1 \div 256 = q2
  <2>1. /\ q1 \div 256 \in Nat
        /\ 256 * (q1 \div 256) <= q1 /\ q1 < 256 * (q1 \div 256) + 256
    BY <1>1, Quotients
  <2>2. /\ 256 * q1 <= n /\ n < 256 * q1 + 256
        /\ 65536 * q2 <= n /\ n < 65536 * q2 + 65536
    BY Quotients
  <2> QED BY <1>1, <2>1, <2>2, QuotientOfQuotient
<1>3. q2 \div 256 = q3
  <2>1. /\ q2 \div 256 \in Nat
        /\ 256 * (q2 \div 256) <= q2 /\ q2 < 256 * (q2 \div 256) + 256
    BY <1>1, Quotients
  <2>2. /\ 65536 * q2 <= n /\ n < 65536 * q2 + 65536
        /\ 16777216 * q3 <= n /\ n < 16777216 * q3 + 16777216
    BY Quotients
  <2> QED BY <1>1, <2>1, <2>2, QuotientOfQuotient
<1> PICK a : a = n % 256
  OBVIOUS
<1> PICK b : b = q1 % 256
  OBVIOUS
<1> PICK c : c = q2 % 256
  OBVIOUS
<1> PICK d : d = q3 % 256
  OBVIOUS
<1>4. /\ a \in 0..255 /\ n = 256 * q1 + a
  <2>1. a = n - 256 * q1 /\ 256 * q1 <= n /\ n < 256 * q1 + 256
    BY Quotients
  <2> QED BY <1>1, <2>1
<1>5. /\ b \in 0..255 /\ q1 = 256 * q2 + b
  <2>1. b = q1 - 256 * q2 /\ 256 * q2 <= q1 /\ q1 < 256 * q2 + 256
    BY <1>1, <1>2, Quotients
  <2> QED BY <1>1, <2>1
<1>6. /\ c \in 0..255 /\ q2 = 256 * q3 + c
  <2>1. c = q2 - 256 * q3 /\ 256 * q3 <= q2 /\ q2 < 256 * q3 + 256
    BY <1>1, <1>3, Quotients
  <2> QED BY <1>1, <2>1
<1>7. d \in 0..255 /\ d <= q3 /\ (q3 < 256 => d = q3)
  BY <1>1
<1>8. from_word(to_word(n)) = a + 256 * b + 65536 * c + 16777216 * d
  BY DEF from_word, to_word
<1>9. FitsWord(n) <=> q3 < 256
  BY DEF FitsWord
<1> QED BY <1>1, <1>4, <1>5, <1>6, <1>7, <1>8, <1>9

(* The chunk at a position: within the image as far as it goes, and no     *)
(* longer than the longest.                                                *)
LEMMA ChunkIs ==
  ASSUME NEW n \in Nat
  PROVE  /\ chunk(n) \in Seq(Cell) /\ Len(chunk(n)) \in 0..ChunkSize
         /\ n <= total_bytes => n + Len(chunk(n)) <= total_bytes
         /\ n < total_bytes => Len(chunk(n)) > 0
         /\ \A i \in 1..Len(chunk(n)) : chunk(n)[i] = Image[n + i]
<1> DEFINE last == IF n + ChunkSize < total_bytes THEN n + ChunkSize ELSE total_bytes
<1>1. Image \in Seq(Cell) /\ ChunkSize \in Nat \ {0}
  BY UploadAssumption
<1>2. total_bytes \in Nat /\ last \in Nat /\ last <= total_bytes /\ last <= n + ChunkSize
  BY <1>1, LenProperties DEF total_bytes
<1>3. \A i \in (n + 1)..last : Image[i] \in Cell
  BY <1>1, <1>2 DEF total_bytes
<1>4. chunk(n) = SubSeq(Image, n + 1, last)
  BY DEF chunk
<1>5. n < total_bytes => n < last
  BY <1>1, <1>2
<1> HIDE DEF last
<1>6. /\ chunk(n) \in Seq(Cell)
      /\ Len(chunk(n)) = IF n + 1 <= last THEN last - (n + 1) + 1 ELSE 0
      /\ \A i \in 1..(last - (n + 1) + 1) : chunk(n)[i] = Image[n + 1 + i - 1]
  BY <1>1, <1>2, <1>3, <1>4, SubSeqProperties
<1>7. Len(chunk(n)) = IF n < last THEN last - n ELSE 0
  BY <1>2, <1>6
<1>8. \A i \in 1..Len(chunk(n)) : chunk(n)[i] = Image[n + i]
  <2> TAKE i \in 1..Len(chunk(n))
  <2>1. i \in Nat /\ i \in 1..(last - (n + 1) + 1) /\ n + 1 + i - 1 = n + i
    BY <1>2, <1>7
  <2> QED BY <1>6, <2>1
<1> QED BY <1>1, <1>2, <1>5, <1>6, <1>7, <1>8

LEMMA SmallRemainder ==
  \A n \in Nat : \A m \in Nat : n < m => n % m = n
  OBVIOUS

LEMMA NotWrapped == ASSUME NEW n \in 1..FlashSize PROVE Wrapped(n) = n
<1>1. n - 1 \in Nat /\ FlashSize \in Nat /\ n - 1 < FlashSize /\ n \in Int
  BY FlashSizeAssumption
<1>2. (n - 1) % FlashSize = n - 1
  BY <1>1, SmallRemainder
<1> QED BY <1>1, <1>2 DEF Wrapped

LEMMA WrittenIs ==
  ASSUME NEW n
  PROVE  /\ Written(n) = [i \in 1..FlashSize |-> IF i <= n THEN Image[i] ELSE ERASED]
         /\ \A i \in 1..FlashSize : Written(n)[i] = IF i <= n THEN Image[i] ELSE ERASED
BY DEF Written

LEMMA SizesAreNat == total_bytes \in Nat /\ FlashSize \in Nat \ {0} /\ ChunkSize \in Nat \ {0}
BY UploadAssumption, FlashSizeAssumption, LenProperties DEF total_bytes

(* An erased flash holds nothing of the image. *)
LEMMA ErasedIsBlank == BlankFlash = Written(0)
<1>1. \A i \in 1..FlashSize : ~(i <= 0)
  OBVIOUS
<1> QED BY <1>1 DEF BlankFlash, Written

(* A chunk that is written where it belongs carries the image on. *)
LEMMA ChunkIsWritten ==
  ASSUME NEW d \in DeviceType, NEW n \in 0..total_bytes, ImageFits,
         d.wptr = n, d.flash = Written(n)
  PROVE  LET e == write_to_flash_memory(d, chunk(n)) IN
         /\ e.wptr = n + Len(chunk(n)) /\ e.flash = Written(n + Len(chunk(n)))
         /\ e.rev = d.rev /\ e.mode = d.mode
<1> PICK data : data = chunk(n)
  OBVIOUS
<1> PICK len : len = Len(data)
  OBVIOUS
<1>1. /\ n \in Nat /\ FlashSize \in Nat \ {0} /\ total_bytes \in Nat
      /\ total_bytes <= FlashSize
  BY SizesAreNat DEF ImageFits
<1>2. /\ data \in Seq(Cell) /\ len \in Nat /\ n + len <= total_bytes
      /\ \A k \in 1..len : data[k] = Image[n + k]
  <2>1. len \in 0..ChunkSize /\ ChunkSize \in Nat
    BY <1>1, ChunkIs, SizesAreNat
  <2>2. n <= total_bytes /\ data \in Seq(Cell) /\ n + len <= total_bytes
    BY <1>1, ChunkIs
  <2>3. \A k \in 1..len : data[k] = Image[n + k]
    BY <1>1, ChunkIs, Zenon
  <2> QED BY <2>1, <2>2, <2>3
<1>3. CASE data = NoBytes
  <2>1. len = 0 /\ n + len = n
    BY <1>1, <1>3 DEF NoBytes
  <2>2. write_to_flash_memory(d, data) = d
    BY <1>3 DEF write_to_flash_memory
  <2> QED BY <2>1, <2>2
<1>4. CASE data # NoBytes
  <2>1. len > 0
    BY <1>2, <1>4, EmptySeq DEF NoBytes
  <2>2. \A k \in 1..len : Wrapped(n + k) = n + k
    <3> TAKE k \in 1..len
    <3>1. n + k \in 1..FlashSize
      BY <1>1, <1>2
    <3> QED BY <3>1, NotWrapped
  <2> DEFINE hits(i) == {k \in 1..len : Wrapped(n + k) = i}
             cell(i) == IF hits(i) = {} THEN d.flash[i] ELSE data[Max(hits(i))]
             flash == [i \in 1..FlashSize |-> cell(i)]
  <2>3. write_to_flash_memory(d, data)
          = [d EXCEPT !.flash = flash, !.wptr = Wrapped(n + len)]
    BY <1>4 DEF write_to_flash_memory
  <2>4. Wrapped(n + len) = n + len
    BY <1>2, <2>1, <2>2
  <2>5. ASSUME NEW i \in 1..FlashSize
        PROVE  cell(i) = IF i <= n + len THEN Image[i] ELSE ERASED
    <3>1. CASE i <= n \/ n + len < i
      <4>1. hits(i) = {}
        BY <1>1, <1>2, <2>2, <3>1
      <4>2. d.flash[i] = IF i <= n THEN Image[i] ELSE ERASED
        BY WrittenIs
      <4>3. i <= n + len <=> i <= n
        BY <1>1, <1>2, <3>1
      <4> QED BY <4>1, <4>2, <4>3
    <3>2. CASE n < i /\ i <= n + len
      <4>1. i - n \in 1..len /\ n + (i - n) = i
        BY <1>1, <1>2, <3>2
      <4>2. hits(i) = {i - n}
        BY <1>1, <1>2, <2>2, <4>1
      <4>3. Max({i - n}) = i - n
        BY <4>1 DEF Max
      <4>4. data[i - n] = Image[i]
        BY <1>2, <4>1
      <4>5. cell(i) = data[i - n]
        BY <4>2, <4>3
      <4> QED BY <3>2, <4>4, <4>5
    <3> QED BY <1>1, <1>2, <3>1, <3>2
  <2>6. flash = Written(n + len)
    <3>1. flash = [i \in 1..FlashSize |-> IF i <= n + len THEN Image[i] ELSE ERASED]
      <4> HIDE DEF cell
      <4> QED BY <2>5
    <3> HIDE DEF flash
    <3> QED BY <3>1, WrittenIs
  <2>7. d = [flash |-> d.flash, wptr |-> d.wptr, rev |-> d.rev, mode |-> d.mode]
    BY DEF DeviceType
  <2> HIDE DEF flash
  <2> QED BY <2>3, <2>4, <2>6, <2>7
<1> QED BY <1>3, <1>4

InfoPhases == {"flash_size", "bl_rev", "board_id", "board_rev", "sn0", "sn4", "sn8"}

LEMMA InfoIs ==
  /\ Len(Info) = 7 /\ Info[1] = "flash_size" /\ Info[2] = "bl_rev"
  /\ \A i \in 1..7 : Info[i] \in InfoPhases
  /\ \A i \in 2..7 : Info[i] \notin {"flash_size"}
  /\ \A i \in 3..7 : Info[i] \notin {"flash_size", "bl_rev"}
BY DEF Info, InfoPhases

LEMMA PhasesAre ==
  Phases = {"probe", "reprobe", "erase", "pointer", "program", "crc", "reboot"}
             \union InfoPhases
<1>1. DOMAIN Info = 1..7
  BY DEF Info
<1>2. /\ Info[1] = "flash_size" /\ Info[2] = "bl_rev" /\ Info[3] = "board_id"
      /\ Info[4] = "board_rev" /\ Info[5] = "sn0" /\ Info[6] = "sn4" /\ Info[7] = "sn8"
  BY DEF Info
<1>3. Range(Info) = {Info[i] : i \in 1..7}
  BY <1>1 DEF Range
<1>4. \A i \in 1..7 : Info[i] \in InfoPhases
  BY InfoIs
<1>5. \A x \in InfoPhases : \E i \in 1..7 : Info[i] = x
  BY <1>2 DEF InfoPhases
<1>6. Range(Info) = InfoPhases
  BY <1>3, <1>4, <1>5
<1> QED BY <1>6 DEF Phases

LEMMA CommandIs ==
  ASSUME NEW wp
  PROVE  /\ \A phase \in {"probe", "reprobe", "board_id"} :
              CommandOf(phase, wp) = Command(GET_DEVICE, << BOARD_ID >>)
         /\ CommandOf("flash_size", wp) = Command(GET_DEVICE, << FLASH_SIZE >>)
         /\ CommandOf("bl_rev", wp) = Command(GET_DEVICE, << BL_REV >>)
         /\ CommandOf("board_rev", wp) = Command(GET_DEVICE, << BOARD_REV >>)
         /\ CommandOf("sn0", wp) = Command(GET_SN, << 0 >>)
         /\ CommandOf("sn4", wp) = Command(GET_SN, << 4 >>)
         /\ CommandOf("sn8", wp) = Command(GET_SN, << 8 >>)
         /\ CommandOf("erase", wp) = Command(CHIP_ERASE, << >>)
         /\ CommandOf("pointer", wp) = Command(GET_WRITE_PTR, << >>)
         /\ CommandOf("program", wp) = Command(PROG_MULTI, chunk(wp))
         /\ CommandOf("crc", wp) = Command(GET_CRC, << >>)
         /\ CommandOf("reboot", wp) = Command(REBOOT, << >>)
BY DEF CommandOf

(* The type of the command tells the phases of the update apart. *)
LEMMA CommandsOfPhases ==
  ASSUME NEW phase \in Phases, NEW wp
  PROVE  /\ CommandOf(phase, wp).type = CHIP_ERASE <=> phase = "erase"
         /\ CommandOf(phase, wp).type = PROG_MULTI <=> phase = "program"
         /\ CommandOf(phase, wp).type = GET_WRITE_PTR <=> phase = "pointer"
         /\ CommandOf(phase, wp).type = GET_CRC <=> phase = "crc"
         /\ CommandOf(phase, wp).type = REBOOT <=> phase = "reboot"
         /\ phase = "program" => CommandOf(phase, wp).args = chunk(wp)
         /\ phase = "flash_size" => CommandOf(phase, wp) = Command(GET_DEVICE, << FLASH_SIZE >>)
         /\ phase = "bl_rev" => CommandOf(phase, wp) = Command(GET_DEVICE, << BL_REV >>)
         /\ phase \in {"probe", "reprobe"} => CommandOf(phase, wp).type = GET_DEVICE
         /\ CommandOf(phase, wp).type \notin {GET_SYNC, MAVLINK_REBOOT}
<1> USE DEF CHIP_ERASE, PROG_MULTI, GET_WRITE_PTR, GET_CRC, REBOOT, GET_DEVICE, GET_SN,
            GET_SYNC, MAVLINK_REBOOT
<1>1. \A type, args : Command(type, args).type = type /\ Command(type, args).args = args
  BY DEF Command
<1>2. CASE phase \in {"probe", "reprobe"} \union InfoPhases
  <2>1. /\ phase \in {"probe", "reprobe", "board_id"} => CommandOf(phase, wp).type = GET_DEVICE
        /\ CommandOf("flash_size", wp).type = GET_DEVICE
        /\ CommandOf("bl_rev", wp).type = GET_DEVICE
        /\ CommandOf("board_rev", wp).type = GET_DEVICE
        /\ CommandOf("sn0", wp).type = GET_SN /\ CommandOf("sn4", wp).type = GET_SN
        /\ CommandOf("sn8", wp).type = GET_SN
    BY <1>1, CommandIs
  <2>2. CommandOf(phase, wp).type \in {GET_DEVICE, GET_SN}
    BY <1>2, <2>1 DEF InfoPhases
  <2>3. /\ phase \in {"probe", "reprobe"} => CommandOf(phase, wp).type = GET_DEVICE
        /\ phase = "flash_size" => CommandOf(phase, wp) = Command(GET_DEVICE, << FLASH_SIZE >>)
        /\ phase = "bl_rev" => CommandOf(phase, wp) = Command(GET_DEVICE, << BL_REV >>)
    BY <2>1, CommandIs
  <2>4. phase \notin {"erase", "pointer", "program", "crc", "reboot"}
    BY <1>2 DEF InfoPhases
  <2> QED BY <2>2, <2>3, <2>4
<1>3. CASE phase \in {"erase", "pointer", "program", "crc", "reboot"}
  <2>1. /\ CommandOf("erase", wp).type = CHIP_ERASE
        /\ CommandOf("pointer", wp).type = GET_WRITE_PTR
        /\ CommandOf("program", wp).type = PROG_MULTI
        /\ CommandOf("program", wp).args = chunk(wp)
        /\ CommandOf("crc", wp).type = GET_CRC
        /\ CommandOf("reboot", wp).type = REBOOT
    BY <1>1, CommandIs
  <2> QED BY <1>3, <2>1
<1> QED BY <1>2, <1>3, PhasesAre

(* They are commands a client may send. *)
LEMMA CommandsAreSent ==
  ASSUME NEW phase \in Phases, NEW wp, phase = "program" => wp \in Nat
  PROVE  CommandOf(phase, wp) \in ClientCommands
<1> USE DEF CHIP_ERASE, PROG_MULTI, GET_WRITE_PTR, GET_CRC, REBOOT, GET_DEVICE, GET_SN,
            MAVLINK_REBOOT
<1>0. ASSUME NEW item \in DeviceInfoItem, item \in Nat
      PROVE  Command(GET_DEVICE, << item >>) \in ClientCommands
  <2>1. GET_DEVICE \in Byte /\ GET_DEVICE \notin {MAVLINK_REBOOT, PROG_MULTI, GET_SN}
    BY DEF Byte
  <2>2. << item >> \in Seq(Nat) /\ << item >> # << >> /\ << item >>[1] = item
    BY <1>0
  <2> QED BY <2>1, <2>2 DEF Command, ClientCommands
<1>1. ASSUME NEW type \in {CHIP_ERASE, GET_WRITE_PTR, GET_CRC, REBOOT},
             NEW args \in Seq(Nat)
      PROVE  Command(type, args) \in ClientCommands
  <2>1. type \in Byte /\ type \notin {MAVLINK_REBOOT, PROG_MULTI, GET_SN, GET_DEVICE}
    BY DEF Byte
  <2> QED BY <2>1 DEF Command, ClientCommands
<1>2. ASSUME NEW n \in 0..252 PROVE Command(GET_SN, << n >>) \in ClientCommands
  <2>1. GET_SN \in Byte /\ GET_SN \notin {MAVLINK_REBOOT, PROG_MULTI, GET_DEVICE}
    BY DEF Byte
  <2>2. << n >> \in Seq(Nat) /\ << n >> # << >> /\ << n >>[1] = n
    OBVIOUS
  <2> QED BY <2>1, <2>2 DEF Command, ClientCommands
<1>3. ASSUME wp \in Nat PROVE Command(PROG_MULTI, chunk(wp)) \in ClientCommands
  <2>1. chunk(wp) \in Seq(Cell)
    BY <1>3, ChunkIs
  <2>2. chunk(wp) \in Seq(Nat)
    <3>1. \A c \in Cell : c \in Nat
      BY CellAssumption DEF Byte
    <3> QED BY <2>1, <3>1
  <2>3. PROG_MULTI \in Byte /\ PROG_MULTI \notin {MAVLINK_REBOOT, GET_SN, GET_DEVICE}
    BY DEF Byte
  <2> QED BY <2>1, <2>2, <2>3 DEF Command, ClientCommands
<1>4. << >> \in Seq(Nat) /\ \A item \in DeviceInfoItem : item \in Nat
  BY DEF DeviceInfoItem, BOARD_ID, FLASH_SIZE, BL_REV, BOARD_REV
<1> HIDE DEF CHIP_ERASE, PROG_MULTI, GET_WRITE_PTR, GET_CRC, REBOOT, GET_DEVICE, GET_SN,
             MAVLINK_REBOOT
<1>5. CASE phase \in {"probe", "reprobe", "board_id", "flash_size", "bl_rev", "board_rev"}
  <2>1. PICK item \in DeviceInfoItem :
          CommandOf(phase, wp) = Command(GET_DEVICE, << item >>)
    <3>1. \/ CommandOf(phase, wp) = Command(GET_DEVICE, << BOARD_ID >>)
          \/ CommandOf(phase, wp) = Command(GET_DEVICE, << FLASH_SIZE >>)
          \/ CommandOf(phase, wp) = Command(GET_DEVICE, << BL_REV >>)
          \/ CommandOf(phase, wp) = Command(GET_DEVICE, << BOARD_REV >>)
      BY <1>5, CommandIs, Zenon
    <3> QED BY <3>1, Zenon DEF DeviceInfoItem
  <2> QED BY <1>0, <1>4, <2>1
<1>6. CASE phase \in {"sn0", "sn4", "sn8"}
  <2>1. \E n \in 0..252 : CommandOf(phase, wp) = Command(GET_SN, << n >>)
    <3>1. 0 \in 0..252 /\ 4 \in 0..252 /\ 8 \in 0..252
      OBVIOUS
    <3>2. \/ CommandOf(phase, wp) = Command(GET_SN, << 0 >>)
          \/ CommandOf(phase, wp) = Command(GET_SN, << 4 >>)
          \/ CommandOf(phase, wp) = Command(GET_SN, << 8 >>)
      BY <1>6, CommandIs, Zenon
    <3> QED BY <3>1, <3>2
  <2> QED BY <1>2, <2>1
<1>7. CASE phase \in {"erase", "pointer", "crc", "reboot"}
  <2>1. PICK type \in {CHIP_ERASE, GET_WRITE_PTR, GET_CRC, REBOOT} :
          CommandOf(phase, wp) = Command(type, << >>)
    BY <1>7, CommandIs
  <2>2. Command(type, << >>) \in ClientCommands
    BY <1>1, <1>4
  <2> QED BY <2>1, <2>2
<1>8. CASE phase = "program"
  BY <1>3, <1>8, CommandIs
<1> QED BY <1>5, <1>6, <1>7, <1>8, PhasesAre DEF InfoPhases

------------------------------------------------------------------------------
(* The steps of the upload: it begins a call, it ends, or something goes   *)
(* on that it does not take part in.                                       *)

LEMMA AnsweredInBytes ==
  ASSUME UploadInv, call.status = "returned", response_length(call.cmd.type) = 4
  PROVE  from_word(call.payload) \in Nat
<1>1. call.payload \in Seq(Byte) /\ Len(call.payload) = 4
  BY DEF UploadInv, OrderInv, ConnInv, CallOK, CallType, FrameOK, AnswerIsFramed
<1>2. /\ call.payload[1] \in Byte /\ call.payload[2] \in Byte
      /\ call.payload[3] \in Byte /\ call.payload[4] \in Byte
  BY <1>1
<1>3. \A b \in Byte : b \in Nat
  BY DEF Byte
<1>4. /\ call.payload[1] \in Nat /\ call.payload[2] \in Nat
      /\ call.payload[3] \in Nat /\ call.payload[4] \in Nat
  BY <1>2, <1>3
<1> QED BY <1>4 DEF from_word

Beginnings ==
  \/ Connect \/ RebootToBootloader \/ InBootloader \/ ReadInfo \/ Erased
  \/ Programmed \/ AskForPointer \/ PointerKnown \/ Verified

Endings == Succeed \/ Raise \/ Cancel \/ TransportRaises

(* What the beginnings of calls have in common. *)
Begun ==
  /\ pc \in Phases \union {"connecting"} /\ call.status # "running"
  /\ pc' \in Phases
  /\ write_pointer' \in Nat \union {NoPointer}
  /\ pc' = "program" => write_pointer' \in Nat
  /\ call' = NewCall(CommandOf(pc', write_pointer'), RetriesOf(pc'))
  /\ executed' = 0
  /\ UNCHANGED << proto, dev, toHost, faults, finished >>
  /\ \/ toDev' = toDev
     \/ pc' = "reprobe" /\ call.status \in {"timeout", "excess"}
          /\ toDev' = Append(toDev, RebootPacket)

LEMMA NextIs ==
  ASSUME [Next]_vars
  PROVE  \/ Beginnings \/ Endings \/ UNCHANGED vars
         \/ (Host \/ Environment) /\ UNCHANGED uploadVars
BY DEF Next, Client, Beginnings, Endings, Terminated

LEMMA GoesTo ==
  ASSUME NEW phase \in Phases, NEW wp \in Nat \union {NoPointer}, Goto(phase, wp),
         phase = "program" => wp \in Nat
  PROVE  /\ pc' \in Phases /\ write_pointer' \in Nat \union {NoPointer}
         /\ pc' = "program" => write_pointer' \in Nat
         /\ call' = NewCall(CommandOf(pc', write_pointer'), RetriesOf(pc'))
         /\ executed' = 0
BY DEF Goto, Begin

LEMMA WritesFrom ==
  ASSUME NEW wp \in Nat, WriteFrom(wp)
  PROVE  /\ \E phase \in {"program", "crc"} : Goto(phase, wp)
         /\ pc' = (IF wp < total_bytes THEN "program" ELSE "crc") /\ write_pointer' = wp
BY DEF WriteFrom, Goto

(* Where each of them comes from and goes to. *)
LEMMA BeginningIs ==
  ASSUME UploadInv, Beginnings PROVE Begun
<1> USE DEF linkVars, Returned
<1>1. /\ write_pointer \in Nat \union {NoPointer}
      /\ pc = "connecting" => call.status = "idle"
  BY DEF UploadInv, UploadTyped, CallOfPhase
<1>2. /\ {"probe", "reprobe", "erase", "pointer", "program", "crc", "reboot"} \subseteq Phases
      /\ InfoPhases \subseteq Phases /\ "flash_size" \in InfoPhases
  BY PhasesAre DEF InfoPhases
<1>3. CASE Connect
  <2>1. Goto("probe", write_pointer)
    BY <1>3 DEF Connect
  <2> QED BY <1>1, <1>2, <1>3, <2>1, GoesTo DEF Connect, Begun
<1>4. CASE RebootToBootloader
  <2>1. Goto("reprobe", write_pointer) /\ pc' = "reprobe"
    BY <1>4 DEF RebootToBootloader, Goto
  <2>2. call.status # "running" /\ call.status \in {"timeout", "excess"}
    BY <1>4 DEF RebootToBootloader
  <2> QED BY <1>1, <1>2, <1>4, <2>1, <2>2, GoesTo DEF RebootToBootloader, Begun
<1>5. CASE InBootloader
  <2>1. Goto("flash_size", write_pointer)
    BY <1>5 DEF InBootloader
  <2> QED BY <1>1, <1>2, <1>5, <2>1, GoesTo DEF InBootloader, Begun
<1>6. CASE ReadInfo
  <2>1. PICK i \in 1..7 : /\ Returned(Info[i])
                          /\ Goto(IF i < 7 THEN Info[i + 1] ELSE "erase", write_pointer)
                          /\ UNCHANGED << proto, dev, linkVars, finished >>
    BY <1>6, InfoIs DEF ReadInfo
  <2>2. PICK phase \in Phases : /\ phase \in InfoPhases \union {"erase"}
                                /\ Goto(phase, write_pointer)
    <3>1. i < 7 => i + 1 \in 1..7
      OBVIOUS
    <3> QED BY <1>2, <2>1, <3>1, InfoIs
  <2>3. phase # "program" /\ Info[i] \in Phases
    BY <1>2, <2>2, InfoIs DEF InfoPhases
  <2> QED BY <1>1, <1>2, <2>1, <2>2, <2>3, GoesTo DEF Begun
<1>7. CASE Erased
  <2>1. WriteFrom(0) /\ 0 \in Nat
    BY <1>7 DEF Erased
  <2>2. PICK phase \in {"program", "crc"} : Goto(phase, 0)
    BY <2>1, WritesFrom
  <2> QED BY <1>2, <1>7, <2>1, <2>2, GoesTo DEF Erased, Begun
<1>8. CASE Programmed
  <2> PICK n : n = write_pointer + Len(call.cmd.args)
    OBVIOUS
  <2>1. WriteFrom(n) /\ pc = "program"
    BY <1>8 DEF Programmed
  <2>2. n \in Nat
    BY <2>1, LenProperties DEF UploadInv, CallOfPhase, OrderInv, ConnInv, CallOK, CallType, CommandSet
  <2>3. PICK phase \in {"program", "crc"} : Goto(phase, n)
    BY <2>1, <2>2, WritesFrom
  <2> QED BY <1>2, <1>8, <2>2, <2>3, GoesTo DEF Programmed, Begun
<1>9. CASE AskForPointer
  <2>1. Goto("pointer", NoPointer)
    BY <1>9 DEF AskForPointer
  <2> QED BY <1>2, <1>9, <2>1, GoesTo DEF AskForPointer, Begun
<1>10. CASE PointerKnown
  <2>1. Goto("program", from_word(call.payload)) /\ Returned("pointer")
    BY <1>10 DEF PointerKnown
  <2>2. response_length(call.cmd.type) = 4
    <3>1. call.cmd.type = GET_WRITE_PTR
      BY <1>2, <2>1, CommandsOfPhases DEF UploadInv, CallOfPhase
    <3> QED BY <3>1 DEF response_length, GET_WRITE_PTR, GET_CHIP_DES
  <2>3. from_word(call.payload) \in Nat
    BY <2>1, <2>2, AnsweredInBytes
  <2> QED BY <1>2, <1>10, <2>1, <2>3, GoesTo DEF PointerKnown, Begun
<1>11. CASE Verified
  <2>1. Goto("reboot", write_pointer)
    BY <1>11 DEF Verified
  <2> QED BY <1>1, <1>2, <1>11, <2>1, GoesTo DEF Verified, Begun
<1> QED BY <1>3, <1>4, <1>5, <1>6, <1>7, <1>8, <1>9, <1>10, <1>11 DEF Beginnings

LEMMA EndingIs ==
  ASSUME UploadInv, Endings
  PROVE  /\ pc # "finished" /\ pc' = "finished" /\ call'.status # "running"
         /\ UNCHANGED << proto, dev, linkVars, executed >>
         /\ call'.cmd = call.cmd /\ call'.left = call.left /\ call'.sent = call.sent
         /\ UNCHANGED << write_pointer, flash_size, bl_rev, retrying, mismatch >>
         /\ finished' \in {"success", "failure", "cancelled"}
         /\ finished' = "success" => Succeed
         /\ UNCHANGED connVars \/ Abandon
<1> USE DEF connVars, linkVars
<1>1. pc = "connecting" => call.status = "idle"
  BY DEF UploadInv, CallOfPhase
<1>2. call \in CallType
  BY DEF UploadInv, OrderInv, ConnInv, CallOK
<1>3. CASE Succeed
  BY <1>3 DEF Succeed, Returned
<1>4. CASE Raise
  BY <1>4 DEF Raise, Unhandled, Errors, Returned
<1>5. CASE Cancel
  <2>1. CASE call.status # "running" /\ UNCHANGED connVars
    BY <1>5, <2>1 DEF Cancel
  <2>2. CASE Abandon
    <3>1. /\ call'.cmd = call.cmd /\ call'.left = call.left /\ call'.sent = call.sent
          /\ call'.status = "idle" /\ UNCHANGED << proto, dev, linkVars, executed >>
      BY <1>2, <2>2 DEF Abandon, CallType
    <3> QED BY <1>5, <2>2, <3>1 DEF Cancel
  <2> QED BY <1>5, <2>1, <2>2 DEF Cancel
<1>6. CASE TransportRaises
  BY <1>1, <1>6 DEF TransportRaises
<1> QED BY <1>3, <1>4, <1>5, <1>6 DEF Endings

LEMMA RetriesAreNat == ASSUME NEW phase PROVE RetriesOf(phase) \in Nat
BY UploadAssumption DEF RetriesOf

(* Each step of the upload is a step of some client of the connection. *)
LEMMA StepIsOpen ==
  ASSUME UploadInv, [Next]_vars PROVE [OpenNext]_connVars
<1>1. CASE Beginnings
  <2>1. Begun
    BY <1>1, BeginningIs
  <2> PICK cmd : cmd = CommandOf(pc', write_pointer')
    BY <2>1 DEF Begun
  <2> PICK n : n = RetriesOf(pc')
    BY <2>1 DEF Begun
  <2>2. cmd \in ClientCommands /\ n \in Nat
    BY <2>1, CommandsAreSent, RetriesAreNat DEF Begun
  <2>3. Call(cmd, n) \/ RebootAndCall(cmd, n)
    BY <2>1 DEF Begun, Call, RebootAndCall, Begin, linkVars
  <2> QED BY <2>2, <2>3 DEF OpenNext, AnyClient
<1>2. CASE Endings
  BY <1>2, EndingIs DEF OpenNext, AnyClient
<1>3. CASE UNCHANGED vars
  BY <1>3 DEF vars
<1>4. CASE Host \/ Environment
  BY <1>4 DEF OpenNext
<1> QED BY <1>1, <1>2, <1>3, <1>4, NextIs

LEMMA EnvironmentIs ==
  ASSUME Environment PROVE UNCHANGED << proto, call >>
BY DEF Environment, DeviceStep, DeviceRejects, DeviceBoots, SendHeartbeat, LoseCommand,
       LoseReply, SplitReply

LEMMA CallOfPhaseIsKept ==
  ASSUME UploadInv, [Next]_vars PROVE CallOfPhase'
<1>1. CallOfPhase /\ UploadTyped /\ ConnInv
  BY DEF UploadInv, OrderInv
<1>2. CASE Beginnings
  <2>1. Begun
    BY <1>2, BeginningIs
  <2>2. call'.cmd = CommandOf(pc', write_pointer')
    BY <2>1 DEF Begun, NewCall
  <2>3. pc \notin {"finished"} /\ pc' \notin {"connecting", "finished"} /\ finished' = finished
    BY <2>1, PhasesAre DEF Begun, InfoPhases
  <2> QED BY <1>1, <2>1, <2>2, <2>3 DEF Begun, CallOfPhase
<1>3. CASE Endings
  <2>1. pc' = "finished" /\ call'.status # "running"
           /\ finished' \in {"success", "failure", "cancelled"}
    BY <1>3, EndingIs
  <2> QED BY <2>1, PhasesAre DEF CallOfPhase, Unfinished, InfoPhases
<1>4. CASE UNCHANGED vars
  BY <1>1, <1>4 DEF vars, connVars, uploadVars, CallOfPhase
<1>5. CASE Host /\ UNCHANGED uploadVars
  <2>1. call.status = "running" /\ call'.cmd = call.cmd
    BY <1>1, <1>5, HostIs
  <2> QED BY <1>1, <1>5, <2>1 DEF uploadVars, CallOfPhase
<1>6. CASE Environment /\ UNCHANGED uploadVars
  BY <1>1, <1>6, EnvironmentIs DEF uploadVars, CallOfPhase
<1> QED BY <1>2, <1>3, <1>4, <1>5, <1>6, NextIs

LEMMA UploadStaysTyped ==
  ASSUME UploadInv, [Next]_vars PROVE UploadTyped'
<1>1. UploadTyped
  BY DEF UploadInv
<1>2. CASE Beginnings
  <2>1. Begun
    BY <1>2, BeginningIs
  <2>2. flash_size' \in Nat /\ bl_rev' \in Nat
    <3>1. CASE ~ReadInfo
      <4>1. UNCHANGED << flash_size, bl_rev >>
        BY <1>2, <3>1
        DEF Beginnings, Connect, RebootToBootloader, InBootloader, Erased, Programmed,
            AskForPointer, PointerKnown, Verified
      <4> QED BY <1>1, <4>1 DEF UploadTyped
    <3>2. CASE ReadInfo
      <4>1. PICK i \in 1..7 :
              /\ Returned(Info[i])
              /\ flash_size' = IF pc = "flash_size" THEN from_word(call.payload)
                                                    ELSE flash_size
              /\ bl_rev' = IF pc = "bl_rev" THEN from_word(call.payload) ELSE bl_rev
        BY <3>2, InfoIs DEF ReadInfo
      <4>2. ASSUME pc \in {"flash_size", "bl_rev"} PROVE from_word(call.payload) \in Nat
        <5>1. call.status = "returned"
          BY <4>1 DEF Returned
        <5>2. call.cmd.type = GET_DEVICE
          BY <4>2, PhasesAre, CommandsOfPhases
          DEF UploadInv, CallOfPhase, InfoPhases, Command
        <5>3. response_length(call.cmd.type) = 4
          BY <5>2 DEF response_length, GET_DEVICE, GET_CHIP_DES
        <5> QED BY <5>1, <5>3, AnsweredInBytes
      <4> QED BY <1>1, <4>1, <4>2 DEF UploadTyped
    <3> QED BY <3>1, <3>2
  <2>3. retrying' \in BOOLEAN /\ mismatch' \in BOOLEAN
    BY <1>1, <1>2
    DEF UploadTyped, Beginnings, Connect, RebootToBootloader, InBootloader, ReadInfo,
        Erased, Programmed, AskForPointer, PointerKnown, Verified
  <2> QED BY <1>1, <2>1, <2>2, <2>3 DEF Begun, UploadTyped
<1>3. CASE Endings
  BY <1>1, <1>3, EndingIs DEF UploadTyped
<1>4. CASE UNCHANGED uploadVars
  BY <1>1, <1>4 DEF UploadTyped, uploadVars
<1> QED BY <1>2, <1>3, <1>4, NextIs DEF vars

LEMMA UploadBegins == Init => OpenInit /\ UploadInv
<1> SUFFICES ASSUME Init PROVE OpenInit /\ UploadInv
  OBVIOUS
<1>1. OpenInit
  BY UploadAssumption DEF Init, OpenInit
<1>2. OrderInv /\ FrameOK
  BY <1>1, OrderBegins, FramingBegins
<1>3. UploadTyped
  BY UploadAssumption DEF Init, UploadTyped
<1>4. call.status = "idle"
  BY <1>1 DEF OpenInit, ConnInit, NoCall, NewCall
<1>5. CallOfPhase
  BY <1>4, PhasesAre DEF Init, CallOfPhase, InfoPhases
<1> QED BY <1>1, <1>2, <1>3, <1>5 DEF UploadInv

LEMMA UploadInvIsKept == ASSUME UploadInv, [Next]_vars PROVE UploadInv'
<1>1. [OpenNext]_connVars
  BY StepIsOpen
<1>2. OrderInv' /\ FrameOK'
  BY <1>1, OrderIsKept, FrameIsKept DEF UploadInv, OrderInv
<1> QED BY <1>2, CallOfPhaseIsKept, UploadStaysTyped DEF UploadInv

LEMMA UploadInvHolds == Spec => []UploadInv
<1>1. Init => UploadInv
  BY UploadBegins
<1> QED BY <1>1, UploadInvIsKept, PTL DEF Spec

(* The upload uses the connection as a client may: one command at a time,  *)
(* none but after an outcome, a reboot packet only when nothing answered.  *)
(* What ConnectionProofs shows of the calls of any client holds for it.    *)
THEOREM UploadIsClient == Spec => OpenSpec
<1>1. Init => OpenInit
  BY UploadBegins
<1>2. UploadInv /\ [Next]_vars => [OpenNext]_connVars
  BY StepIsOpen
<1> QED BY <1>1, <1>2, UploadInvHolds, PTL DEF Spec, OpenSpec

(* The upload keeps its types: whatever a bootloader says of itself is a   *)
(* number by the time the upload uses it, and so is the write pointer.     *)
THEOREM UploadTypesCorrect == Spec => []TypeOK
<1>1. UploadInv => TypeOK
  BY InvIsTyped DEF UploadInv, OrderInv, UploadTyped, TypeOK
<1> QED BY <1>1, UploadInvHolds, PTL

------------------------------------------------------------------------------
(* The link, as long as nobody disturbs it. *)

(* What the commands of an upload do to the device. *)
LEMMA DeviceDoes ==
  ASSUME NEW d \in DeviceType, NEW c
  PROVE  handle_command(d, c).dev = IF c.type = CHIP_ERASE THEN erase(d)
                                    ELSE IF c.type = PROG_MULTI THEN write_to_flash_memory(d, c.args)
                                    ELSE IF c.type = REBOOT THEN [d EXCEPT !.mode = "app"]
                                    ELSE d
BY DEF handle_command, Handled, Rejected, GET_SYNC, GET_DEVICE, CHIP_ERASE, PROG_MULTI, GET_CRC,
       GET_OTP, GET_SN, GET_CHIP, GET_CHIP_DES, GET_WRITE_PTR, REBOOT

LEMMA WritingKeepsMode ==
  ASSUME NEW d \in DeviceType, NEW data
  PROVE  /\ erase(d).mode = d.mode /\ erase(d).rev = d.rev
         /\ write_to_flash_memory(d, data).mode = d.mode
         /\ write_to_flash_memory(d, data).rev = d.rev
BY DEF erase, write_to_flash_memory, DeviceType

LEMMA DeviceStaysItself ==
  ASSUME NEW d \in DeviceType, NEW c
  PROVE  LET e == handle_command(d, c).dev IN
         /\ e.rev = d.rev /\ e.mode = IF c.type = REBOOT THEN "app" ELSE d.mode
         /\ c.type \notin {CHIP_ERASE, PROG_MULTI} => e.flash = d.flash /\ e.wptr = d.wptr
<1> PICK e : e = handle_command(d, c).dev
  OBVIOUS
<1>1. REBOOT \notin {CHIP_ERASE, PROG_MULTI} /\ CHIP_ERASE # PROG_MULTI
  BY DEF REBOOT, CHIP_ERASE, PROG_MULTI
<1>2. CASE c.type = CHIP_ERASE
  <2>1. e = erase(d)
    BY <1>2, DeviceDoes
  <2> QED BY <1>1, <1>2, <2>1, WritingKeepsMode
<1>3. CASE c.type = PROG_MULTI
  <2>1. e = write_to_flash_memory(d, c.args)
    BY <1>1, <1>3, DeviceDoes
  <2> QED BY <1>1, <1>3, <2>1, WritingKeepsMode
<1>4. CASE c.type = REBOOT
  <2>1. e = [d EXCEPT !.mode = "app"]
    BY <1>1, <1>4, DeviceDoes
  <2> QED BY <1>4, <2>1 DEF DeviceType
<1>5. CASE c.type \notin {CHIP_ERASE, PROG_MULTI, REBOOT}
  <2>1. e = d
    BY <1>5, DeviceDoes
  <2> QED BY <1>5, <2>1
<1> QED BY <1>2, <1>3, <1>4, <1>5

(* A step of the device or the link, seen from the device. *)
Served(c) ==
  /\ toDev # << >> /\ c = Head(toDev) /\ toDev' = Tail(toDev)
  /\ dev.mode = "bootloader" /\ dev' = handle_command(dev, c).dev
  /\ executed' = IF c = call.cmd THEN executed + 1 ELSE executed

Dropped ==
  /\ toDev # << >> /\ toDev' = Tail(toDev) /\ executed' = executed
  /\ \/ dev' = dev
     \/ /\ Head(toDev).type = MAVLINK_REBOOT /\ dev.mode = "app"
        /\ dev' = [dev EXCEPT !.mode = "rebooting"]

LEMMA EnvironmentDoes ==
  ASSUME Environment
  PROVE  \/ Served(Head(toDev))
         \/ Dropped
         \/ UNCHANGED << toDev, executed >>
              /\ (dev' = dev \/ (dev.mode = "rebooting" /\ dev' = boot(dev)))
<1>1. CASE DeviceStep
  <2>1. /\ toDev # << >> /\ toDev' = Tail(toDev)
        /\ dev' = deliver(dev, Head(toDev)).dev
        /\ executed' = IF Head(toDev) = call.cmd /\ dev.mode = "bootloader"
                         THEN executed + 1 ELSE executed
    BY <1>1 DEF DeviceStep
  <2>2. CASE dev.mode = "bootloader"
    BY <2>1, <2>2 DEF deliver, Served
  <2>3. CASE dev.mode # "bootloader"
    BY <2>1, <2>3 DEF deliver, Dropped
  <2> QED BY <2>2, <2>3
<1>2. CASE DeviceRejects \/ LoseCommand
  BY <1>2 DEF DeviceRejects, LoseCommand, Dropped
<1>3. CASE DeviceBoots \/ SendHeartbeat \/ LoseReply \/ SplitReply
  BY <1>3 DEF DeviceBoots, SendHeartbeat, LoseReply, SplitReply, linkVars
<1> QED BY <1>1, <1>2, <1>3 DEF Environment

(* Nothing reaches the device of an undisturbed upload but its command,    *)
(* sync requests and, before it has answered, reboot packets.              *)
LEMMA FirstMessage ==
  ASSUME UploadInv, LinkUse, toDev # << >>
  PROVE  /\ Head(toDev) \in {RebootPacket, GetSync, call.cmd}
         /\ Tail(toDev) \in Seq({RebootPacket, GetSync, call.cmd})
         /\ InTouch => /\ Head(toDev) \in {GetSync, call.cmd}
                       /\ Tail(toDev) \in Seq({GetSync, call.cmd})
                       /\ Head(toDev).type # MAVLINK_REBOOT
<1>1. call.cmd.type # MAVLINK_REBOOT
  BY DEF UploadInv, OrderInv, NoRebootCall
<1> QED BY <1>1, GetSyncIsNoReboot, HeadTailProperties DEF LinkUse

LEMMA PhaseOfCommand ==
  ASSUME UploadInv, pc \in Phases
  PROVE  /\ call.cmd.type = CHIP_ERASE <=> pc = "erase"
         /\ call.cmd.type = PROG_MULTI <=> pc = "program"
         /\ call.cmd.type = GET_WRITE_PTR <=> pc = "pointer"
         /\ call.cmd.type = GET_CRC <=> pc = "crc"
         /\ call.cmd.type = REBOOT <=> pc = "reboot"
         /\ pc = "program" => call.cmd.args = chunk(write_pointer) /\ write_pointer \in Nat
         /\ pc = "flash_size" => call.cmd = Command(GET_DEVICE, << FLASH_SIZE >>)
         /\ pc = "bl_rev" => call.cmd = Command(GET_DEVICE, << BL_REV >>)
         /\ call.cmd.type \notin {GET_SYNC, MAVLINK_REBOOT}
         /\ InTouch <=> pc \notin {"probe", "reprobe"}
<1>1. call.cmd = CommandOf(pc, write_pointer) /\ (pc = "program" => write_pointer \in Nat)
  BY DEF UploadInv, CallOfPhase
<1> PICK c : c = call.cmd
  OBVIOUS
<1> PICK wp : wp = write_pointer
  OBVIOUS
<1>2. /\ c.type = CHIP_ERASE <=> pc = "erase"
      /\ c.type = PROG_MULTI <=> pc = "program"
      /\ c.type = GET_WRITE_PTR <=> pc = "pointer"
      /\ c.type = GET_CRC <=> pc = "crc"
      /\ c.type = REBOOT <=> pc = "reboot"
      /\ pc = "program" => c.args = chunk(wp)
      /\ pc = "flash_size" => c = Command(GET_DEVICE, << FLASH_SIZE >>)
      /\ pc = "bl_rev" => c = Command(GET_DEVICE, << BL_REV >>)
      /\ pc \in {"probe", "reprobe"} => c.type = GET_DEVICE
      /\ c.type \notin {GET_SYNC, MAVLINK_REBOOT}
  BY <1>1, CommandsOfPhases
<1>3. InTouch <=> pc \notin {"probe", "reprobe"}
  BY <1>2 DEF InTouch, Writing
<1> QED BY <1>1, <1>2, <1>3

(* Where a call that begins comes from. *)
Onward ==
  /\ pc \in Phases \ {"probe", "reprobe", "reboot"}
  /\ pc' \in Phases \ {"probe", "reprobe"}
  /\ call.status = "returned" \/ AskForPointer

LEMMA ComesFrom ==
  ASSUME UploadInv, Beginnings
  PROVE  \/ Connect /\ pc' = "probe"
         \/ RebootToBootloader /\ pc' = "reprobe"
         \/ InBootloader /\ pc' = "flash_size"
         \/ Onward
<1>1. CASE Connect \/ RebootToBootloader \/ InBootloader
  BY <1>1 DEF Connect, RebootToBootloader, InBootloader, Goto
<1>2. CASE ReadInfo
  <2>1. PICK i \in 1..7 : /\ Returned(Info[i])
                          /\ pc' = IF i < 7 THEN Info[i + 1] ELSE "erase"
    BY <1>2, InfoIs DEF ReadInfo, Goto
  <2>2. pc \in InfoPhases /\ pc' \in InfoPhases \union {"erase"} /\ call.status = "returned"
    <3>1. i < 7 => i + 1 \in 1..7
      OBVIOUS
    <3> QED BY <2>1, <3>1, InfoIs DEF Returned
  <2> QED BY <2>2, PhasesAre DEF InfoPhases, Onward
<1>3. CASE Erased \/ Programmed \/ AskForPointer \/ PointerKnown \/ Verified
  <2>1. /\ pc \in {"erase", "program", "pointer", "crc"}
        /\ pc' \in {"program", "crc", "pointer", "reboot"}
        /\ call.status = "returned" \/ AskForPointer
    BY <1>3 DEF Erased, Programmed, AskForPointer, PointerKnown, Verified, WriteFrom, Goto, Returned
  <2> QED BY <2>1, PhasesAre DEF Onward
<1> QED BY <1>1, <1>2, <1>3 DEF Beginnings

(* The command to go on with finds the link empty. *)
LEMMA LinkIsEmpty ==
  ASSUME UploadInv, LinkUse, Settled, InBootloader \/ Onward
  PROVE  toDev = << >>
<1>1. CASE call.status = "returned"
  BY <1>1 DEF Settled, ReturnsAreDone, Quiet
<1>2. CASE call.status # "returned"
  <2>1. AskForPointer /\ pc \in Phases \ {"probe", "reprobe", "reboot"}
    BY <1>2 DEF Onward, InBootloader, Returned
  <2>2. call.status = "timeout" /\ InTouch
    BY <2>1 DEF AskForPointer, InTouch
  <2>3. toDev \in Reboots
    BY <2>2 DEF Settled, GivenUp, Quiet
  <2>4. ASSUME toDev # << >> PROVE FALSE
    <3>1. Head(toDev) = RebootPacket
      BY <2>3, <2>4, HeadTailProperties DEF Reboots
    <3> QED BY <2>2, <2>4, <3>1, FirstMessage, GetSyncIsNoReboot
  <2> QED BY <2>4
<1> QED BY <1>1, <1>2

LEMMA LinkUseAtBeginnings ==
  ASSUME UploadInv, LinkUse, Settled, Beginnings PROVE LinkUse'
<1>1. Begun /\ pc' \notin {"connecting"} /\ pc \notin {"finished"}
  BY BeginningIs, PhasesAre DEF Begun, InfoPhases
<1>2. finished' # "success"
  BY <1>1 DEF Begun, UploadInv, CallOfPhase, Unfinished
<1>3. call'.cmd = CommandOf(pc', write_pointer') /\ executed' = 0 /\ dev' = dev /\ pc' \in Phases
  BY <1>1 DEF Begun, NewCall
<1>4. InTouch' <=> pc' \notin {"probe", "reprobe"}
  <2> PICK c : c = CommandOf(pc', write_pointer')
    BY <1>3
  <2>1. c.type \in {CHIP_ERASE, PROG_MULTI, GET_WRITE_PTR, GET_CRC, REBOOT} <=>
          pc' \in {"erase", "program", "pointer", "crc", "reboot"}
    BY <1>3, CommandsOfPhases
  <2> QED BY <1>3, <2>1 DEF InTouch, Writing
<1>5. CASE Connect \/ RebootToBootloader
  <2>1. pc' \in {"probe", "reprobe"}
    BY <1>5 DEF Connect, RebootToBootloader, Goto
  <2>2. toDev \in Seq({RebootPacket})
    <3>1. CASE Connect
      <4>1. toDev = << >>
        BY <3>1 DEF Connect, LinkUse
      <4> QED BY <4>1
    <3>2. CASE RebootToBootloader
      BY <3>2 DEF RebootToBootloader, Settled, GivenUp, Quiet, Reboots
    <3> QED BY <1>5, <3>1, <3>2
  <2>3. toDev' \in Seq({RebootPacket, GetSync, call'.cmd})
    <3>1. toDev' = toDev \/ toDev' = Append(toDev, RebootPacket)
      BY <1>1 DEF Begun
    <3> QED BY <2>2, <3>1
  <2> QED BY <1>1, <1>2, <1>3, <1>4, <2>1, <2>3 DEF LinkUse
<1>6. CASE InBootloader \/ Onward
  <2>1. toDev' = << >>
    <3>1. pc' # "reprobe"
      BY <1>6 DEF InBootloader, Onward, Goto
    <3> QED BY <1>1, <1>6, <3>1, LinkIsEmpty DEF Begun
  <2>2. dev.mode = "bootloader"
    <3>1. CASE InBootloader
      <4>1. executed > 0
        BY <3>1 DEF InBootloader, Returned, Settled, ReturnsAreDone
      <4> QED BY <3>1, <4>1 DEF InBootloader, Returned, LinkUse
    <3>2. CASE Onward
      <4>1. pc \in Phases /\ pc \notin {"probe", "reprobe", "reboot"}
        BY <3>2 DEF Onward
      <4>2. InTouch /\ call.cmd.type # REBOOT
        BY <4>1, PhaseOfCommand
      <4> QED BY <4>2 DEF LinkUse
    <3> QED BY <1>6, <3>1, <3>2
  <2>3. toDev' \in Seq({RebootPacket, GetSync, call'.cmd}) /\ toDev' \in Seq({GetSync, call'.cmd})
    BY <2>1
  <2> QED BY <1>1, <1>2, <1>3, <1>4, <2>1, <2>2, <2>3 DEF LinkUse
<1> QED BY <1>5, <1>6, ComesFrom

LEMMA LinkUseAtEndings ==
  ASSUME UploadInv, LinkUse, Settled, Endings PROVE LinkUse'
<1>1. /\ pc' = "finished" /\ UNCHANGED << toDev, dev, executed >> /\ call'.cmd = call.cmd
      /\ finished' = "success" => Succeed
  BY EndingIs DEF linkVars
<1>2. Succeed => toDev = << >>
  BY DEF Succeed, Returned, Settled, ReturnsAreDone, Quiet
<1>3. pc' \notin Phases /\ pc' # "connecting"
  BY <1>1, PhasesAre DEF InfoPhases
<1>4. InTouch' => InTouch
  BY <1>1, <1>3 DEF InTouch, Writing
<1> QED BY <1>1, <1>2, <1>3, <1>4 DEF LinkUse

LEMMA LinkUseInBetween ==
  ASSUME UploadInv, LinkUse, Host \/ Environment, UNCHANGED uploadVars PROVE LinkUse'
<1>1. call'.cmd = call.cmd /\ UNCHANGED << pc, finished >>
  BY HostIs, EnvironmentIs DEF uploadVars, UploadInv, OrderInv
<1>2. (InTouch' <=> InTouch)
  BY <1>1 DEF InTouch, Writing
<1>3. CASE Host
  <2>1. call.status = "running" /\ UNCHANGED << dev, executed >>
    BY <1>3, HostIs DEF UploadInv, OrderInv
  <2>2. \/ toDev' = toDev
        \/ \E c \in {call.cmd, GetSync} : toDev' = Append(toDev, c)
    BY <1>3, HostIs DEF UploadInv, OrderInv
  <2>3. pc # "connecting" /\ finished # "success"
    BY <2>1 DEF UploadInv, CallOfPhase, Unfinished
  <2>4. toDev' \in Seq({RebootPacket, GetSync, call.cmd})
    BY <2>2 DEF LinkUse
  <2>5. InTouch => toDev' \in Seq({GetSync, call.cmd})
    BY <2>2 DEF LinkUse
  <2> QED BY <1>1, <1>2, <2>1, <2>3, <2>4, <2>5 DEF LinkUse
<1>4. CASE Environment
  <2>1. dev \in DeviceType /\ executed \in Nat
    BY DEF UploadInv, OrderInv, ConnInv, LinkOK, CountersOK
  <2>2. ASSUME toDev # << >>, toDev' = Tail(toDev)
        PROVE  /\ toDev' \in Seq({RebootPacket, GetSync, call.cmd})
               /\ InTouch => toDev' \in Seq({GetSync, call.cmd})
               /\ pc # "connecting" /\ finished # "success"
    BY <2>2, FirstMessage DEF LinkUse
  <2>3. CASE UNCHANGED << toDev, executed >>
               /\ (dev' = dev \/ (dev.mode = "rebooting" /\ dev' = boot(dev)))
    <3>1. dev.mode = "rebooting" /\ dev' = boot(dev) => dev'.mode = "bootloader"
      BY <2>1 DEF boot, DeviceType
    <3> QED BY <1>1, <1>2, <2>3, <3>1 DEF LinkUse
  <2>4. CASE Dropped
    <3>1. toDev # << >> /\ toDev' = Tail(toDev) /\ executed' = executed
      BY <2>4 DEF Dropped
    <3>2. InTouch => dev' = dev
      BY <2>4, FirstMessage DEF Dropped
    <3>3. dev.mode = "bootloader" => dev' = dev
      BY <2>4 DEF Dropped
    <3> QED BY <1>1, <1>2, <2>2, <3>1, <3>2, <3>3 DEF LinkUse
  <2>5. CASE Served(Head(toDev))
    <3> PICK c : c = Head(toDev)
      OBVIOUS
    <3>1. /\ toDev # << >> /\ toDev' = Tail(toDev) /\ dev.mode = "bootloader"
          /\ dev' = handle_command(dev, c).dev
          /\ executed' = IF c = call.cmd THEN executed + 1 ELSE executed
      BY <2>5 DEF Served
    <3>2. c \in {RebootPacket, GetSync, call.cmd}
      BY <3>1, FirstMessage
    <3>3. dev'.mode = IF c.type = REBOOT THEN "app" ELSE "bootloader"
      BY <2>1, <3>1, DeviceStaysItself
    <3>4. c.type = REBOOT => c = call.cmd /\ call.cmd.type = REBOOT /\ executed' > 0
      <4>1. RebootPacket.type # REBOOT /\ GetSync.type # REBOOT
        BY DEF RebootPacket, GetSync, Command, REBOOT, MAVLINK_REBOOT, GET_SYNC
      <4> QED BY <2>1, <3>1, <3>2, <4>1
    <3>5. pc \in {"probe", "reprobe"} => c.type # REBOOT
      <4>1. pc \in {"probe", "reprobe"} => pc \in Phases /\ pc # "reboot"
        BY PhasesAre
      <4> QED BY <3>4, <4>1, PhaseOfCommand
    <3> QED BY <1>1, <1>2, <2>2, <3>1, <3>3, <3>4, <3>5 DEF LinkUse
  <2> QED BY <1>4, <2>3, <2>4, <2>5, EnvironmentDoes
<1> QED BY <1>3, <1>4

(* The device of an upload: its revision never changes. *)
LEMMA RevisionStays ==
  ASSUME UploadInv, [Next]_vars PROVE dev'.rev = dev.rev
<1>1. dev \in DeviceType
  BY DEF UploadInv, OrderInv, ConnInv, LinkOK
<1>2. CASE Beginnings
  BY <1>2, BeginningIs DEF Begun
<1>3. CASE Endings
  BY <1>3, EndingIs
<1>4. CASE Host
  BY <1>4, HostIs DEF UploadInv, OrderInv
<1>5. CASE Environment
  <2>1. CASE Served(Head(toDev))
    BY <1>1, <2>1, DeviceStaysItself DEF Served
  <2>2. CASE Dropped
    BY <1>1, <2>2 DEF Dropped, DeviceType
  <2>3. CASE dev' = dev \/ dev' = boot(dev)
    BY <1>1, <2>3 DEF boot, DeviceType
  <2> QED BY <1>5, <2>1, <2>2, <2>3, EnvironmentDoes
<1>6. CASE UNCHANGED vars
  BY <1>6 DEF vars, connVars
<1> QED BY <1>2, <1>3, <1>4, <1>5, <1>6, NextIs

------------------------------------------------------------------------------
(* What the bootloader said is true. *)

LEMMA AnswerIs ==
  ASSUME NEW c, NEW body \in Seq(Byte), handle_command(dev, c) = Handled(dev, body),
         c.type # GET_CHIP_DES
  PROVE  answer_body(c) = body
<1> PICK R : R = Handled(dev, body).reply
  OBVIOUS
<1>1. SubSeq(R, 1, Len(R) - 2) = body
  BY HandledIs
<1> QED BY <1>1 DEF answer_body

(* A number that a call returns. *)
LEMMA NumberIsReturned ==
  ASSUME UploadInv, Settled, call.status = "returned", call.cmd.type # GET_CHIP_DES,
         NEW n \in Nat, handle_command(dev, call.cmd) = Handled(dev, to_word(n))
  PROVE  /\ from_word(call.payload) <= n
         /\ FitsWord(n) => from_word(call.payload) = n
<1>1. call.payload = answer_body(call.cmd)
  BY DEF Settled, ReturnsAreDone
<1>2. to_word(n) \in Seq(Byte)
  BY WordIsBytes
<1>3. call.payload = to_word(n)
  BY <1>1, <1>2, AnswerIs
<1> QED BY <1>3, WordsAreRead

LEMMA DeviceSays ==
  ASSUME NEW d, NEW item
  PROVE  LET c == Command(GET_DEVICE, << item >>) IN
         /\ handle_command(d, c) = Handled(d, to_word(device_info(d, item)))
         /\ c.type # GET_CHIP_DES
<1> PICK c : c = Command(GET_DEVICE, << item >>)
  OBVIOUS
<1>1. c.type = GET_DEVICE /\ c.args[1] = item
  BY DEF Command
<1>2. handle_command(d, c) = Handled(d, to_word(device_info(d, c.args[1])))
  BY <1>1
  DEF handle_command, GET_SYNC, GET_DEVICE, CHIP_ERASE, PROG_MULTI, GET_CRC, GET_OTP, GET_SN,
      GET_CHIP, GET_CHIP_DES, GET_WRITE_PTR, REBOOT
<1> QED BY <1>1, <1>2 DEF GET_DEVICE, GET_CHIP_DES

LEMMA ReadingInforms ==
  ASSUME UploadInv, Settled, InTouch, Informed, ReadInfo
  PROVE  flash_size' = FlashSize /\ (pc' # "bl_rev" => dev.rev >= 4)
<1>1. dev \in DeviceType
  BY DEF UploadInv, OrderInv, ConnInv, LinkOK
<1>2. PICK i \in 1..7 :
        /\ Returned(Info[i])
        /\ flash_size' = IF pc = "flash_size" THEN from_word(call.payload) ELSE flash_size
        /\ bl_rev' = IF pc = "bl_rev" THEN from_word(call.payload) ELSE bl_rev
        /\ Supported(bl_rev') \/ pc = "flash_size"
        /\ pc' = IF i < 7 THEN Info[i + 1] ELSE "erase"
  BY InfoIs DEF ReadInfo, Goto
<1>3. pc = Info[i] /\ call.status = "returned" /\ pc \in Phases
  <2>1. pc = Info[i] /\ call.status = "returned"
    BY <1>2 DEF Returned
  <2> QED BY <2>1, InfoIs, PhasesAre
<1>4. CASE pc = "flash_size"
  <2>1. call.cmd = Command(GET_DEVICE, << FLASH_SIZE >>)
    BY <1>3, <1>4, PhaseOfCommand
  <2>2. device_info(dev, FLASH_SIZE) = FlashSize
    BY DEF device_info, FLASH_SIZE, BL_REV, BOARD_ID
  <2>3. /\ handle_command(dev, call.cmd) = Handled(dev, to_word(FlashSize))
        /\ call.cmd.type # GET_CHIP_DES
    BY <2>1, <2>2, DeviceSays
  <2>4. from_word(call.payload) = FlashSize
    BY <1>3, <2>3, NumberIsReturned, FlashSizeAssumption
  <2>5. pc' = "bl_rev"
    <3>1. i = 1
      <4>1. i = 1 \/ i \in 2..7
        OBVIOUS
      <4> QED BY <1>3, <1>4, <4>1, InfoIs
    <3> QED BY <1>2, <3>1, InfoIs
  <2> QED BY <1>2, <1>4, <2>4, <2>5
<1>5. CASE pc = "bl_rev"
  <2>1. call.cmd = Command(GET_DEVICE, << BL_REV >>)
    BY <1>3, <1>5, PhaseOfCommand
  <2>2. device_info(dev, BL_REV) = dev.rev /\ dev.rev \in Nat
    BY <1>1 DEF device_info, BL_REV, BOARD_ID, FLASH_SIZE, DeviceType
  <2>3. /\ handle_command(dev, call.cmd) = Handled(dev, to_word(dev.rev))
        /\ call.cmd.type # GET_CHIP_DES
    BY <2>1, <2>2, DeviceSays
  <2>4. from_word(call.payload) <= dev.rev
    BY <1>3, <2>2, <2>3, NumberIsReturned
  <2>5. response_length(call.cmd.type) = 4
    BY <2>1 DEF Command, response_length, GET_DEVICE, GET_CHIP_DES
  <2>6. from_word(call.payload) \in Nat /\ from_word(call.payload) >= 4
    BY <1>2, <1>3, <1>5, <2>5, AnsweredInBytes DEF Supported
  <2>7. dev.rev >= 4
    BY <2>2, <2>4, <2>6
  <2> QED BY <1>2, <1>5, <2>7 DEF Informed
<1>6. CASE pc \notin {"flash_size", "bl_rev"}
  BY <1>2, <1>6 DEF Informed
<1> QED BY <1>4, <1>5, <1>6

LEMMA InformedIsKept ==
  ASSUME UploadInv, Settled, Informed, [Next]_vars PROVE Informed'
<1>1. dev'.rev = dev.rev
  BY RevisionStays
<1>2. CASE Beginnings
  <2>1. pc' \in Phases /\ call'.cmd = CommandOf(pc', write_pointer')
    BY <1>2, BeginningIs DEF Begun, NewCall
  <2>2. CASE Connect \/ RebootToBootloader \/ InBootloader
    <3>1. pc' \in {"probe", "reprobe", "flash_size"}
      BY <2>2 DEF Connect, RebootToBootloader, InBootloader, Goto
    <3>2. pc' = "flash_size" \/ ~InTouch'
      <4> PICK c : c = CommandOf(pc', write_pointer')
        BY <2>1
      <4>1. c.type \notin {CHIP_ERASE, PROG_MULTI, GET_WRITE_PTR, GET_CRC, REBOOT}
        BY <2>1, <3>1, CommandsOfPhases
      <4> QED BY <2>1, <3>1, <4>1 DEF InTouch, Writing
    <3> QED BY <3>2 DEF Informed
  <2>3. CASE Onward
    <3>1. pc \in Phases /\ InTouch /\ pc' \notin {"probe", "reprobe"}
      BY <2>3, PhaseOfCommand DEF Onward, InTouch
    <3>2. CASE ReadInfo
      BY <1>1, <2>3, <3>1, <3>2, ReadingInforms DEF Informed
    <3>3. CASE ~ReadInfo /\ ~Connect /\ ~RebootToBootloader /\ ~InBootloader
      <4>1. flash_size' = flash_size /\ pc \in {"erase", "program", "pointer", "crc"}
        BY <1>2, <3>3
        DEF Beginnings, Erased, Programmed, AskForPointer, PointerKnown, Verified, Returned
      <4> QED BY <1>1, <3>1, <4>1 DEF Informed
    <3> QED BY <2>2, <3>2, <3>3
  <2> QED BY <1>2, <2>2, <2>3, ComesFrom
<1>3. CASE Endings
  <2>1. pc' = "finished" /\ call'.cmd = call.cmd /\ flash_size' = flash_size
    BY <1>3, EndingIs
  <2>2. InTouch' => Writing
    BY <2>1, PhasesAre DEF InTouch, Writing, InfoPhases
  <2>3. Writing => InTouch /\ pc \notin {"flash_size", "bl_rev"}
    <3>1. {"flash_size", "bl_rev"} \subseteq Phases
      BY PhasesAre DEF InfoPhases
    <3>2. Writing /\ pc \in Phases => pc \in {"erase", "program", "pointer", "crc", "reboot"}
      BY PhaseOfCommand DEF Writing
    <3> QED BY <3>1, <3>2 DEF InTouch
  <2> QED BY <1>1, <2>1, <2>2, <2>3 DEF Informed
<1>4. CASE (Host \/ Environment) /\ UNCHANGED uploadVars
  <2>1. call'.cmd = call.cmd
    BY <1>4, HostIs, EnvironmentIs DEF UploadInv, OrderInv
  <2> QED BY <1>1, <1>4, <2>1 DEF Informed, InTouch, Writing, uploadVars
<1>5. CASE UNCHANGED vars
  BY <1>1, <1>5 DEF vars, connVars, uploadVars, Informed, InTouch, Writing
<1> QED BY <1>2, <1>3, <1>4, <1>5, NextIs

------------------------------------------------------------------------------
(* A chunk is sent once. *)

LEMMA OneShotAtHost ==
  ASSUME UploadInv, OneShot, Host, call.cmd.type = PROG_MULTI
  PROVE  /\ call'.left = 0
         /\ \/ /\ toDev = << >> /\ executed = 0 /\ toDev' = << call.cmd >>
               /\ call'.sent /\ proto'.state \in Waiting
            \/ toDev' = toDev /\ call'.status # "running"
            \/ toDev' = toDev /\ call' = call /\ Sent /\ proto'.state \in Waiting
<1>1. /\ call \in CallType /\ CallOK /\ WellFormed(proto) /\ ConnInv
      /\ toHost \in Seq(Seq(Byte))
  BY DEF UploadInv, OrderInv, ConnInv, CallOK, LinkOK
<1>2. call.status = "running" /\ call.left = 0
  BY <1>1, HostIs DEF OneShot
<1>3. Waiting = {"waitResponseLength", "waitResponse", "waitSync"}
  BY DEF Waiting
<1>4. /\ ~call.sent => toDev = << >> /\ in_sync(proto) /\ executed = 0
      /\ call.sent => Sent /\ proto.state \in Waiting
  BY <1>2 DEF OneShot, Sent
<1>5. proto.state \in Waiting => call.sent /\ Sent
  BY <1>1, <1>2, <1>3, <1>4 DEF in_sync, CallType
<1>6. ASSUME NEW error \in Errors, NEW c \in CallType, c.left = 0
      PROVE  RetryOr(error, c).left = 0 /\ RetryOr(error, c).status = error /\ error # "running"
  BY <1>6 DEF RetryOr, CallType, Errors
<1>7. CASE Send \/ SendRaises
  <2>1. /\ Upcoming.event.type = "None"
        /\ proto.state \notin Waiting /\ Upcoming.proto = proto
        /\ proto.payload = NoBytes /\ proto.buffer = NoBytes
    <3>1. Upcoming.event.type = "None"
      BY <1>7 DEF Send, SendRaises, OurTurn, Iterating
    <3> QED BY <1>1, <3>1, NextEventReturns, UpcomingProto
  <2>2. ~call.sent /\ toDev = << >> /\ in_sync(proto) /\ executed = 0
    BY <1>4, <2>1
  <2>3. CASE Send
    <3>1. /\ call' = [call EXCEPT !.sent = sent_now] /\ sent_now /\ CommandToSend = call.cmd
          /\ proto' = send(proto, call.cmd.type) /\ toDev' = Append(toDev, call.cmd)
      BY <2>1, <2>2, <2>3 DEF Send, sent_now, CommandToSend
    <3>2. proto'.state \in Waiting
      BY <1>1, <2>1, <3>1, SendingAwaits
    <3>3. toDev' = << call.cmd >>
      BY <2>2, <3>1
    <3>4. call'.sent /\ call'.left = call.left
      BY <1>1, <3>1 DEF CallType
    <3> QED BY <1>2, <2>2, <3>2, <3>3, <3>4
  <2>4. CASE SendRaises
    <3> PICK c : c = [call EXCEPT !.sent = FALSE]
      OBVIOUS
    <3>1. c \in CallType /\ c.left = 0 /\ "io" \in Errors
      BY <1>1, <1>2 DEF CallType, Errors
    <3>2. call' = RetryOr("io", c) /\ toDev' = toDev
      BY <2>4 DEF SendRaises
    <3> QED BY <1>6, <3>1, <3>2
  <2> QED BY <1>7, <2>3, <2>4
<1>8. CASE Receive \/ ReceiveNothing \/ ReceiveRaises
  <2>1. /\ Upcoming.event.type = "NeedMoreData" /\ toDev' = toDev
    BY <1>8 DEF Receive, ReceiveNothing, ReceiveRaises, Iterating
  <2>2. /\ proto.state \in Waiting /\ Upcoming.proto.state \in Waiting
        /\ WellFormed(Upcoming.proto)
    BY <1>1, <2>1, WaitGoesOn, UpcomingProto, UpcomingIsSound
  <2>3. CASE call' = call
    <3>1. \/ proto' = Upcoming.proto
          \/ toHost # << >> /\ proto' = feed(Upcoming.proto, Head(toHost))
          \/ proto' = feed(Upcoming.proto, NoBytes)
      BY <1>8 DEF Receive, ReceiveNothing, ReceiveRaises
    <3>2. toHost # << >> => Head(toHost) \in Seq(Byte)
      BY <1>1, HeadTailProperties
    <3>3. proto'.state = Upcoming.proto.state
      BY <2>2, <3>1, <3>2, NoBytesType, FeedingAwaits
    <3> QED BY <1>2, <1>5, <2>1, <2>2, <2>3, <3>3
  <2>4. CASE call' # call
    <3>1. \E error \in {"io", "closed"} : call' = [call EXCEPT !.status = error]
      BY <1>8, <2>4 DEF Receive, ReceiveNothing, ReceiveRaises
    <3>2. call'.status # "running" /\ call'.left = call.left
      BY <1>1, <3>1 DEF CallType
    <3> QED BY <1>2, <2>1, <3>2
  <2> QED BY <2>3, <2>4
<1>9. CASE TimeOutInTime \/ TimeOutEarly \/ OnExcessData
  <2>1. PICK error \in {"timeout", "excess"} : call' = RetryOr(error, call) /\ toDev' = toDev
    BY <1>9 DEF TimeOutInTime, TimeOutEarly, TimeOut, OnExcessData
  <2>2. error \in Errors
    BY DEF Errors
  <2> QED BY <1>1, <1>2, <1>6, <2>1, <2>2
<1>10. CASE OnResponse
  <2>1. /\ Upcoming.event.type = "Response" /\ toDev' = toDev
        /\ call' = Answer(call, Upcoming.event)
    BY <1>10 DEF OnResponse, Iterating
  <2>2. proto.state \in Waiting
    BY <1>1, <2>1, NextEventReturns, UpcomingProto
  <2>3. call.sent /\ call' \in CallType
    BY <1>1, <1>5, <2>1, <2>2, UpcomingIsSound, AnswerKeeps
  <2>4. call'.status \in {"rejected", "returned"}
    BY <1>1, <2>1, <2>3, UpcomingIsSound, AnswerKeeps
  <2>5. call'.left = call.left
    BY <1>1, <2>1 DEF Answer, CallType
  <2> QED BY <1>2, <2>1, <2>4, <2>5
<1>11. CASE OnConnectionClosed
  <2>1. call' = [call EXCEPT !.status = "closed"] /\ toDev' = toDev
    BY <1>11 DEF OnConnectionClosed
  <2>2. call'.status = "closed" /\ call'.left = call.left
    BY <1>1, <2>1 DEF CallType
  <2> QED BY <1>2, <2>1, <2>2
<1> QED BY <1>7, <1>8, <1>9, <1>10, <1>11 DEF Host

LEMMA OneShotIsKept ==
  ASSUME UploadInv, Settled, LinkUse, OneShot, [Next]_vars PROVE OneShot'
<1>1. CASE Beginnings
  <2>1. Begun /\ call'.cmd = CommandOf(pc', write_pointer') /\ pc' \in Phases
    BY <1>1, BeginningIs DEF Begun, NewCall
  <2> SUFFICES ASSUME call'.cmd.type = PROG_MULTI PROVE OneShot'
    BY DEF OneShot
  <2>2. pc' = "program"
    <3> PICK c : c = CommandOf(pc', write_pointer')
      BY <2>1
    <3>1. c.type = PROG_MULTI
      BY <2>1
    <3> QED BY <2>1, <3>1, CommandsOfPhases
  <2>3. /\ call'.left = 0 /\ call'.status = "running" /\ ~call'.sent /\ executed' = 0
        /\ toDev' = toDev /\ proto' = proto
    BY <2>1, <2>2 DEF Begun, NewCall, RetriesOf
  <2>4. Onward
    BY <1>1, <2>2, ComesFrom
  <2>5. toDev = << >>
    BY <2>4, LinkIsEmpty
  <2>6. in_sync(proto)
    <3>1. call.status = "returned"
      BY <2>2, <2>4 DEF Onward, AskForPointer, Goto
    <3> QED BY <3>1 DEF Settled, ReturnsAreDone
  <2>7. in_sync(proto')
    BY <2>3, <2>6
  <2> QED BY <2>3, <2>5, <2>7 DEF OneShot, Sent
<1>2. CASE Endings
  BY <1>2, EndingIs DEF OneShot, Sent, linkVars
<1>3. CASE Host
  <2>1. call'.cmd = call.cmd /\ executed' = executed
    BY <1>3, HostIs DEF UploadInv, OrderInv
  <2>2. call.cmd.type = PROG_MULTI => /\ call'.left = 0
         /\ \/ /\ toDev = << >> /\ executed = 0 /\ toDev' = << call.cmd >>
               /\ call'.sent /\ proto'.state \in Waiting
            \/ toDev' = toDev /\ call'.status # "running"
            \/ toDev' = toDev /\ call' = call /\ Sent /\ proto'.state \in Waiting
    BY <1>3, OneShotAtHost
  <2> QED BY <2>1, <2>2 DEF OneShot, Sent
<1>4. CASE Environment
  <2>1. UNCHANGED << call, proto >>
    BY <1>4, EnvironmentIs
  <2>2. CASE UNCHANGED << toDev, executed >>
    BY <2>1, <2>2 DEF OneShot, Sent, in_sync
  <2>3. CASE toDev # << >> /\ toDev' = Tail(toDev)
    <3>1. call.cmd.type = PROG_MULTI => toDev = << call.cmd >> /\ call.left = 0
      BY <2>3 DEF OneShot
    <3>2. call.cmd.type = PROG_MULTI => toDev' = << >>
      <4>1. \A c : Tail(<< c >>) = << >>
        OBVIOUS
      <4> QED BY <2>3, <3>1, <4>1
    <3>3. call.cmd.type = PROG_MULTI => ~(call.status = "running" /\ ~call.sent)
      BY <2>3 DEF OneShot
    <3> QED BY <2>1, <3>1, <3>2, <3>3 DEF OneShot, Sent
  <2> QED BY <1>4, <2>2, <2>3, EnvironmentDoes DEF Served, Dropped
<1>5. CASE UNCHANGED vars
  BY <1>5 DEF vars, connVars, OneShot, Sent, in_sync
<1> QED BY <1>1, <1>2, <1>3, <1>4, <1>5, NextIs

------------------------------------------------------------------------------
(* The flash memory. *)

(* What is in place when a call has returned, by its phase. *)
LEMMA InPlace ==
  ASSUME UploadInv, Settled, LinkUse, FlashOK, call.status \in {"returned", "timeout"},
         pc \in {"erase", "program", "pointer", "crc"},
         pc # "program" => call.status = "returned"
  PROVE  /\ dev.wptr \in 0..total_bytes /\ dev.flash = Written(dev.wptr)
         /\ pc = "erase" => dev.wptr = 0
         /\ Returned("program") => dev.wptr = write_pointer + Len(call.cmd.args)
         /\ pc = "crc" => dev.wptr = total_bytes
<1>1. pc \in Phases
  BY PhasesAre
<1>2. total_bytes \in Nat
  BY SizesAreNat
<1>3. call.status = "returned" => executed > 0
  BY DEF Settled, ReturnsAreDone
<1>4. Writing
  BY <1>1, PhaseOfCommand DEF Writing
<1>5. dev.flash = Written(dev.wptr)
  BY <1>1, <1>3, <1>4, PhaseOfCommand DEF FlashOK
<1>6. CASE pc = "erase"
  BY <1>1, <1>2, <1>3, <1>5, <1>6, PhaseOfCommand DEF FlashOK, Returned
<1>7. CASE pc = "program"
  <2>1. /\ write_pointer \in 0..total_bytes /\ call.cmd.args = chunk(write_pointer)
        /\ dev.wptr = write_pointer + Advance
    BY <1>1, <1>7, PhaseOfCommand DEF FlashOK
  <2>2. /\ Len(call.cmd.args) \in Nat /\ write_pointer + Len(call.cmd.args) <= total_bytes
    BY <1>2, <2>1, ChunkIs, SizesAreNat
  <2>3. dev.wptr \in 0..total_bytes
    BY <1>2, <2>1, <2>2 DEF Advance
  <2> QED BY <1>3, <1>5, <1>7, <2>1, <2>3 DEF Returned, Advance
<1>8. CASE pc = "pointer"
  BY <1>1, <1>5, <1>8, PhaseOfCommand DEF FlashOK, Returned
<1>9. CASE pc = "crc"
  BY <1>1, <1>2, <1>5, <1>9, PhaseOfCommand DEF FlashOK, Returned
<1> QED BY <1>6, <1>7, <1>8, <1>9

(* The numbers that the write pointer and the checksum return. *)
LEMMA PointerIsRead ==
  ASSUME UploadInv, Settled, Returned("pointer")
  PROVE  from_word(call.payload) = dev.wptr
<1>1. dev \in DeviceType /\ pc = "pointer" /\ call.status = "returned" /\ pc \in Phases
  BY PhasesAre DEF UploadInv, OrderInv, ConnInv, LinkOK, Returned
<1>2. call.cmd.type = GET_WRITE_PTR
  BY <1>1, PhaseOfCommand
<1>3. handle_command(dev, call.cmd) = Handled(dev, to_word(dev.wptr))
  BY <1>2
  DEF handle_command, GET_SYNC, GET_DEVICE, CHIP_ERASE, PROG_MULTI, GET_CRC, GET_OTP, GET_SN,
      GET_CHIP, GET_CHIP_DES, GET_WRITE_PTR, REBOOT
<1>4. dev.wptr \in Nat /\ FitsWord(dev.wptr)
  <2>1. dev.wptr \in 0..FlashSize /\ FlashSize \in Nat
    BY <1>1, FlashSizeAssumption DEF DeviceType
  <2> PICK m : m = FlashSize
    OBVIOUS
  <2> PICK n : n = dev.wptr
    OBVIOUS
  <2>2. n \in Nat /\ m \in Nat /\ n <= m
    BY <2>1
  <2>3. /\ n \div 16777216 \in Nat /\ 16777216 * (n \div 16777216) <= n
        /\ m \div 16777216 \in Nat /\ m < 16777216 * (m \div 16777216) + 16777216
        /\ m \div 16777216 < 256
    BY <2>2, Quotients, FlashSizeAssumption DEF FitsWord
  <2> PICK q : q = n \div 16777216
    OBVIOUS
  <2> PICK r : r = m \div 16777216
    OBVIOUS
  <2>4. \A a, b, x, y \in Nat :
          16777216 * a <= x /\ x <= y /\ y < 16777216 * b + 16777216 => a <= b
    OBVIOUS
  <2>5. q <= r /\ r < 256 /\ q \in Nat /\ r \in Nat
    BY <2>2, <2>3, <2>4
  <2>6. q < 256
    BY <2>5
  <2> QED BY <2>2, <2>6 DEF FitsWord
<1> QED BY <1>1, <1>2, <1>3, <1>4, NumberIsReturned DEF GET_WRITE_PTR, GET_CHIP_DES

LEMMA ChecksumMatches ==
  ASSUME UploadInv, Settled, LinkUse, Informed, FlashOK, ImageFits, Returned("crc")
  PROVE  crc_matches
<1>1. dev \in DeviceType /\ pc = "crc" /\ call.status = "returned" /\ pc \in Phases
  BY PhasesAre DEF UploadInv, OrderInv, ConnInv, LinkOK, Returned
<1>2. call.cmd.type = GET_CRC
  BY <1>1, PhaseOfCommand
<1> PICK crc : crc = Crc(dev.flash, 0)
  OBVIOUS
<1>3. handle_command(dev, call.cmd) = Handled(dev, to_word(crc))
  BY <1>2
  DEF handle_command, GET_SYNC, GET_DEVICE, CHIP_ERASE, PROG_MULTI, GET_CRC, GET_OTP, GET_SN,
      GET_CHIP, GET_CHIP_DES, GET_WRITE_PTR, REBOOT
<1>4. crc \in Nat /\ FitsWord(crc)
  BY <1>1, CrcAssumption DEF DeviceType
<1>5. from_word(call.payload) = crc
  BY <1>1, <1>2, <1>3, <1>4, NumberIsReturned DEF GET_CRC, GET_CHIP_DES
<1>6. dev.flash = Written(total_bytes)
  BY <1>1, InPlace
<1>7. crc = Crc(Image, FlashSize - total_bytes)
  BY <1>6, PaddingAssumption
<1>8. flash_size = FlashSize
  <2>1. InTouch
    BY <1>1, PhaseOfCommand
  <2> QED BY <1>1, <2>1 DEF Informed
<1>9. Max({0, FlashSize - total_bytes}) = FlashSize - total_bytes
  <2>1. FlashSize - total_bytes \in Nat
    BY SizesAreNat DEF ImageFits
  <2> PICK n : n = FlashSize - total_bytes
    OBVIOUS
  <2>2. \A y \in {0, n} : n >= y
    BY <2>1
  <2>3. \A x \in {0, n} : (\A y \in {0, n} : x >= y) => x = n
    BY <2>1
  <2>4. Max({0, n}) = n
    BY <2>2, <2>3 DEF Max
  <2> QED BY <2>4
<1> QED BY <1>5, <1>7, <1>8, <1>9 DEF crc_matches, expected_crc

LEMMA TotalIsReached ==
  ASSUME NEW n \in 0..total_bytes, WriteFrom(n)
  PROVE  /\ write_pointer' = n /\ pc' \in {"program", "crc"}
         /\ pc' = "crc" => n = total_bytes
BY SizesAreNat DEF WriteFrom, Goto

(* A call of the update that begins with the image in place up to the      *)
(* write pointer of the device.                                            *)
LEMMA FlashOKAfresh ==
  ASSUME UploadInv, Begun, ~mismatch', dev'.wptr \in 0..total_bytes,
         dev'.flash = Written(dev'.wptr),
         pc' = "program" => write_pointer' = dev'.wptr,
         pc' \in {"crc", "reboot"} => dev'.wptr = total_bytes
  PROVE  FlashOK'
<1>1. /\ pc' \in Phases /\ executed' = 0
      /\ call'.cmd = CommandOf(pc', write_pointer')
  BY DEF Begun, NewCall
<1> PICK c : c = CommandOf(pc', write_pointer')
  BY <1>1
<1>2. /\ c.type = PROG_MULTI <=> pc' = "program"
      /\ c.type = GET_CRC <=> pc' = "crc"
      /\ c.type = REBOOT <=> pc' = "reboot"
      /\ pc' = "program" => c.args = chunk(write_pointer')
  BY <1>1, CommandsOfPhases
<1>3. Advance' = 0
  BY <1>1 DEF Advance
<1>4. dev'.wptr \in Nat
  BY SizesAreNat
<1> QED BY <1>1, <1>2, <1>3, <1>4 DEF FlashOK

(* A call that is none of the update, or is the erasure. *)
LEMMA FlashOKBefore ==
  ASSUME Begun, ~mismatch', pc' \in InfoPhases \union {"probe", "reprobe", "erase"}
  PROVE  FlashOK'
<1>1. /\ pc' \in Phases /\ executed' = 0
      /\ call'.cmd = CommandOf(pc', write_pointer')
  BY DEF Begun, NewCall
<1> PICK c : c = CommandOf(pc', write_pointer')
  BY <1>1
<1>2. c.type \notin {PROG_MULTI, GET_WRITE_PTR, GET_CRC, REBOOT}
  BY <1>1, CommandsOfPhases DEF InfoPhases
<1>3. ~(executed' > 0)
  BY <1>1
<1> QED BY <1>1, <1>2, <1>3 DEF FlashOK, Writing

LEMMA FlashOKAtBeginnings ==
  ASSUME UploadInv, Settled, LinkUse, Informed, FlashOK, ImageFits, Beginnings PROVE FlashOK'
<1>1. Begun /\ dev' = dev
  BY BeginningIs DEF Begun
<1>2. ~mismatch
  BY DEF FlashOK
<1>3. total_bytes \in Nat
  BY SizesAreNat
<1>4. CASE Connect \/ RebootToBootloader \/ InBootloader
  <2>1. /\ pc' \in {"probe", "reprobe", "flash_size"} /\ mismatch' = mismatch
    BY <1>4 DEF Connect, RebootToBootloader, InBootloader, Goto
  <2>2. pc' \in InfoPhases \union {"probe", "reprobe", "erase"}
    BY <2>1 DEF InfoPhases
  <2> QED BY <1>1, <1>2, <2>1, <2>2, FlashOKBefore
<1>5. CASE ReadInfo
  <2>1. PICK i \in 1..7 : pc' = IF i < 7 THEN Info[i + 1] ELSE "erase"
    BY <1>5, InfoIs DEF ReadInfo, Goto
  <2>2. pc' \in InfoPhases \union {"probe", "reprobe", "erase"}
    <3>1. i < 7 => i + 1 \in 1..7
      OBVIOUS
    <3> QED BY <2>1, <3>1, InfoIs
  <2>3. mismatch' = mismatch
    BY <1>5 DEF ReadInfo
  <2> QED BY <1>1, <1>2, <2>2, <2>3, FlashOKBefore
<1>6. CASE Erased
  <2>1. pc = "erase" /\ call.status = "returned" /\ WriteFrom(0) /\ mismatch' = mismatch
    BY <1>6 DEF Erased, Returned
  <2>2. dev.wptr = 0 /\ dev.flash = Written(dev.wptr) /\ 0 \in 0..total_bytes
    BY <1>3, <2>1, InPlace
  <2>3. write_pointer' = 0 /\ pc' \in {"program", "crc"} /\ (pc' = "crc" => 0 = total_bytes)
    BY <2>1, <2>2, TotalIsReached
  <2> QED BY <1>1, <1>2, <2>1, <2>2, <2>3, FlashOKAfresh
<1>7. CASE Programmed
  <2> PICK n : n = write_pointer + Len(call.cmd.args)
    OBVIOUS
  <2>1. /\ Returned("program") /\ pc = "program" /\ call.status = "returned"
        /\ WriteFrom(n) /\ mismatch' = mismatch
    BY <1>7 DEF Programmed, Returned
  <2>2. dev.wptr = n /\ dev.flash = Written(dev.wptr) /\ n \in 0..total_bytes
    BY <2>1, InPlace
  <2>3. write_pointer' = n /\ pc' \in {"program", "crc"} /\ (pc' = "crc" => n = total_bytes)
    BY <2>1, <2>2, TotalIsReached
  <2> QED BY <1>1, <1>2, <2>1, <2>2, <2>3, FlashOKAfresh
<1>8. CASE AskForPointer
  <2>1. pc = "program" /\ call.status = "timeout" /\ pc' = "pointer" /\ mismatch' = mismatch
    BY <1>8 DEF AskForPointer, Goto
  <2>2. dev.wptr \in 0..total_bytes /\ dev.flash = Written(dev.wptr)
    BY <2>1, InPlace
  <2> QED BY <1>1, <1>2, <2>1, <2>2, FlashOKAfresh
<1>9. CASE PointerKnown
  <2>1. /\ Returned("pointer") /\ pc = "pointer" /\ call.status = "returned"
        /\ pc' = "program" /\ write_pointer' = from_word(call.payload) /\ mismatch' = mismatch
    BY <1>9 DEF PointerKnown, Returned, Goto
  <2>2. dev.wptr \in 0..total_bytes /\ dev.flash = Written(dev.wptr)
    BY <2>1, InPlace
  <2>3. write_pointer' = dev.wptr
    BY <2>1, PointerIsRead
  <2> QED BY <1>1, <1>2, <2>1, <2>2, <2>3, FlashOKAfresh
<1>10. CASE Verified
  <2>1. /\ Returned("crc") /\ pc = "crc" /\ call.status = "returned"
        /\ pc' = "reboot" /\ mismatch' = ~crc_matches
    BY <1>10 DEF Verified, Returned, Goto
  <2>2. dev.wptr \in 0..total_bytes /\ dev.flash = Written(dev.wptr) /\ dev.wptr = total_bytes
    BY <2>1, InPlace
  <2>3. ~mismatch'
    BY <2>1, ChecksumMatches
  <2> QED BY <1>1, <2>1, <2>2, <2>3, FlashOKAfresh
<1> QED BY <1>4, <1>5, <1>6, <1>7, <1>8, <1>9, <1>10 DEF Beginnings

(* What the device of an undisturbed upload does to its flash: nothing, or *)
(* the erasure, or a chunk where it belongs.                               *)
Erasing(c) ==
  /\ c = call.cmd /\ c.type = CHIP_ERASE /\ executed' > 0
  /\ dev'.wptr = 0 /\ dev'.flash = Written(0)

Programming(c) ==
  /\ c = call.cmd /\ c.type = PROG_MULTI /\ executed = 0 /\ executed' > 0
  /\ write_pointer \in 0..total_bytes /\ c.args = chunk(write_pointer)
  /\ dev.wptr = write_pointer /\ dev.flash = Written(dev.wptr)
  /\ dev'.wptr = write_pointer + Len(c.args) /\ dev'.flash = Written(dev'.wptr)

LEMMA ServedWrites ==
  ASSUME UploadInv, LinkUse, OneShot, FlashOK, ImageFits, NEW c, Served(c)
  PROVE  \/ /\ c.type \notin {CHIP_ERASE, PROG_MULTI}
            /\ dev'.flash = dev.flash /\ dev'.wptr = dev.wptr
         \/ Erasing(c)
         \/ Programming(c)
<1>1. dev \in DeviceType /\ executed \in Nat
  BY DEF UploadInv, OrderInv, ConnInv, LinkOK, CountersOK
<1>2. /\ toDev # << >> /\ c = Head(toDev) /\ dev' = handle_command(dev, c).dev
      /\ executed' = IF c = call.cmd THEN executed + 1 ELSE executed
  BY DEF Served
<1>3. c.type \in {CHIP_ERASE, PROG_MULTI} => c = call.cmd /\ executed' > 0
  <2>1. c \in {RebootPacket, GetSync, call.cmd}
    BY <1>2, FirstMessage
  <2>2. RebootPacket.type \notin {CHIP_ERASE, PROG_MULTI}
          /\ GetSync.type \notin {CHIP_ERASE, PROG_MULTI}
    BY DEF RebootPacket, GetSync, Command, CHIP_ERASE, PROG_MULTI, MAVLINK_REBOOT, GET_SYNC
  <2> QED BY <1>1, <1>2, <2>1, <2>2
<1>4. CASE c.type \notin {CHIP_ERASE, PROG_MULTI}
  BY <1>1, <1>2, <1>4, DeviceStaysItself
<1>5. CASE c.type = CHIP_ERASE
  <2>1. dev' = erase(dev)
    BY <1>1, <1>2, <1>5, DeviceDoes
  <2>2. dev'.wptr = 0 /\ dev'.flash = BlankFlash
    BY <1>1, <2>1 DEF erase, DeviceType
  <2> QED BY <1>3, <1>5, <2>2, ErasedIsBlank DEF Erasing
<1>6. CASE c.type = PROG_MULTI
  <2>1. c = call.cmd /\ executed = 0 /\ executed' > 0
    BY <1>2, <1>3, <1>6 DEF OneShot
  <2>2. /\ write_pointer \in 0..total_bytes /\ c.args = chunk(write_pointer)
        /\ dev.wptr = write_pointer + Advance /\ dev.flash = Written(dev.wptr)
    <3>1. PROG_MULTI # CHIP_ERASE
      BY DEF PROG_MULTI, CHIP_ERASE
    <3> QED BY <1>6, <2>1, <3>1 DEF FlashOK, Writing
  <2>3. dev.wptr = write_pointer
    <3>1. Advance = 0
      BY <2>1 DEF Advance
    <3> QED BY <2>2, <3>1, SizesAreNat
  <2>4. dev' = write_to_flash_memory(dev, chunk(write_pointer))
    <3>1. PROG_MULTI # CHIP_ERASE
      BY DEF PROG_MULTI, CHIP_ERASE
    <3> QED BY <1>1, <1>2, <1>6, <2>2, <3>1, DeviceDoes
  <2> PICK n : n = write_pointer
    OBVIOUS
  <2>5. /\ dev'.wptr = n + Len(chunk(n)) /\ dev'.flash = Written(n + Len(chunk(n)))
    BY <1>1, <2>2, <2>3, <2>4, ChunkIsWritten
  <2> QED BY <1>6, <2>1, <2>2, <2>3, <2>5 DEF Programming
<1> QED BY <1>4, <1>5, <1>6

LEMMA FlashOKAtEnvironment ==
  ASSUME UploadInv, LinkUse, OneShot, FlashOK, ImageFits, Environment, UNCHANGED uploadVars
  PROVE  FlashOK'
<1>1. call' = call /\ UNCHANGED << write_pointer, mismatch >>
  BY EnvironmentIs DEF uploadVars
<1>2. dev \in DeviceType
  BY DEF UploadInv, OrderInv, ConnInv, LinkOK
<1>3. ASSUME executed' = executed, dev'.wptr = dev.wptr, dev'.flash = dev.flash
      PROVE  FlashOK'
  BY <1>1, <1>3 DEF FlashOK, Writing, Advance
<1>4. CASE Served(Head(toDev))
  <2> PICK c : c = Head(toDev)
    OBVIOUS
  <2>1. CASE c.type \notin {CHIP_ERASE, PROG_MULTI} /\ dev'.flash = dev.flash
               /\ dev'.wptr = dev.wptr
    <3>1. executed' = executed \/ call.cmd.type \notin {CHIP_ERASE, PROG_MULTI}
      BY <1>4, <2>1 DEF Served
    <3> QED BY <1>1, <1>3, <2>1, <3>1 DEF FlashOK, Writing, Advance
  <2>2. CASE Erasing(c)
    <3>1. /\ call'.cmd.type = CHIP_ERASE /\ dev'.wptr = 0 /\ dev'.flash = Written(0)
          /\ ~mismatch'
      BY <1>1, <2>2 DEF Erasing, FlashOK
    <3>2. CHIP_ERASE \notin {PROG_MULTI, GET_WRITE_PTR, GET_CRC, REBOOT}
      BY DEF CHIP_ERASE, PROG_MULTI, GET_WRITE_PTR, GET_CRC, REBOOT
    <3> QED BY <3>1, <3>2 DEF FlashOK
  <2>3. CASE Programming(c)
    <3>1. /\ call'.cmd.type = PROG_MULTI /\ write_pointer' \in 0..total_bytes
          /\ call'.cmd.args = chunk(write_pointer')
          /\ dev'.wptr = write_pointer' + Advance' /\ dev'.flash = Written(dev'.wptr)
          /\ ~mismatch'
      BY <1>1, <2>3 DEF Programming, FlashOK, Advance
    <3>2. PROG_MULTI \notin {CHIP_ERASE, GET_WRITE_PTR, GET_CRC, REBOOT}
      BY DEF CHIP_ERASE, PROG_MULTI, GET_WRITE_PTR, GET_CRC, REBOOT
    <3> QED BY <3>1, <3>2 DEF FlashOK
  <2> QED BY <1>4, <2>1, <2>2, <2>3, ServedWrites
<1>5. CASE Dropped
  <2>1. dev'.wptr = dev.wptr /\ dev'.flash = dev.flash /\ executed' = executed
    BY <1>2, <1>5 DEF Dropped, DeviceType
  <2> QED BY <1>3, <2>1
<1>6. CASE UNCHANGED << toDev, executed >> /\ dev' = dev
  BY <1>3, <1>6
<1>7. CASE UNCHANGED << toDev, executed >> /\ dev.mode = "rebooting" /\ dev' = boot(dev)
  <2>1. ~Writing
    BY <1>7 DEF LinkUse, InTouch
  <2> QED BY <1>1, <2>1 DEF FlashOK, Writing
<1> QED BY <1>4, <1>5, <1>6, <1>7, EnvironmentDoes

LEMMA FlashOKIsKept ==
  ASSUME UploadInv, Settled, LinkUse, Informed, OneShot, FlashOK, ImageFits, [Next]_vars
  PROVE  FlashOK'
<1>1. ASSUME UNCHANGED << dev, executed, write_pointer, mismatch >>, call'.cmd = call.cmd
      PROVE  FlashOK'
  BY <1>1 DEF FlashOK, Writing, Advance
<1>2. CASE Beginnings
  BY <1>2, FlashOKAtBeginnings
<1>3. CASE Endings
  BY <1>1, <1>3, EndingIs
<1>4. CASE Host /\ UNCHANGED uploadVars
  BY <1>1, <1>4, HostIs DEF uploadVars, UploadInv, OrderInv
<1>5. CASE Environment /\ UNCHANGED uploadVars
  BY <1>5, FlashOKAtEnvironment
<1>6. CASE UNCHANGED vars
  BY <1>1, <1>6 DEF vars, connVars, uploadVars
<1> QED BY <1>2, <1>3, <1>4, <1>5, <1>6, NextIs

------------------------------------------------------------------------------
(* All of it together. *)

LEMMA UndisturbedIs ==
  ASSUME UploadInv, [Next]_vars, Undisturbed'
  PROVE  Undisturbed /\ Settled /\ ~TimeOutEarly /\ ~SendHeartbeat
<1>1. OrderInv /\ ~faults'.disturbing
  BY DEF UploadInv, Undisturbed
<1>2. ~faults.disturbing /\ ~TimeOutEarly /\ ~SendHeartbeat
  BY <1>1, StepIsOpen, StaysUndisturbed
<1> QED BY <1>1, <1>2 DEF OrderInv, Undisturbed

LEMMA LinkUseIsKept ==
  ASSUME UploadInv, Settled, LinkUse, [Next]_vars PROVE LinkUse'
<1>1. CASE Beginnings
  BY <1>1, LinkUseAtBeginnings
<1>2. CASE Endings
  BY <1>2, LinkUseAtEndings
<1>3. CASE (Host \/ Environment) /\ UNCHANGED uploadVars
  BY <1>3, LinkUseInBetween
<1>4. CASE UNCHANGED vars
  BY <1>4 DEF vars, connVars, uploadVars, LinkUse, InTouch, Writing
<1> QED BY <1>1, <1>2, <1>3, <1>4, NextIs

LEMMA CalmBegins == Init => Calm /\ FlashOK
<1> SUFFICES ASSUME Init PROVE Calm /\ FlashOK
  OBVIOUS
<1>1. /\ pc = "connecting" /\ finished = Unfinished /\ ~mismatch
      /\ toDev = << >> /\ executed = 0 /\ call.cmd = GetSync
  BY DEF Init, ConnInit, NoCall, NewCall
<1>2. call.cmd.type \notin {CHIP_ERASE, PROG_MULTI, GET_WRITE_PTR, GET_CRC, REBOOT}
  BY <1>1
  DEF GetSync, Command, GET_SYNC, CHIP_ERASE, PROG_MULTI, GET_WRITE_PTR, GET_CRC, REBOOT
<1>3. ~Writing /\ ~InTouch
  BY <1>1, <1>2, PhasesAre DEF Writing, InTouch, InfoPhases
<1>4. LinkUse
  BY <1>1, <1>3, EmptySeq DEF LinkUse
<1>5. Informed /\ OneShot
  BY <1>2, <1>3 DEF Informed, OneShot
<1>6. FlashOK
  BY <1>1, <1>2, <1>3 DEF FlashOK
<1> QED BY <1>4, <1>5, <1>6 DEF Calm

LEMMA FullInvIsKept == ASSUME FullInv, [Next]_vars PROVE FullInv'
<1>1. UploadInv /\ UploadInv'
  BY UploadInvIsKept DEF FullInv
<1>2. ASSUME Undisturbed' PROVE Undisturbed /\ Settled /\ Calm
  BY <1>1, <1>2, UndisturbedIs DEF FullInv
<1>3. Undisturbed' => Calm'
  BY <1>1, <1>2, LinkUseIsKept, InformedIsKept, OneShotIsKept DEF Calm
<1>4. Undisturbed' /\ ImageFits => FlashOK'
  BY <1>1, <1>2, FlashOKIsKept DEF Calm, FullInv
<1> QED BY <1>1, <1>3, <1>4 DEF FullInv, ImageFits, total_bytes

LEMMA FullInvHolds == Spec => []FullInv
<1>1. Init => FullInv
  BY UploadBegins, CalmBegins DEF FullInv
<1> QED BY <1>1, FullInvIsKept, PTL DEF Spec

(* How far the write loop got is known all along: the pointer of the       *)
(* uploader is that of the bootloader, or one chunk behind it while the    *)
(* acknowledgment is due, and the image is in place up to there.  For any  *)
(* image that fits, any chunk size, and any number of retries.             *)
THEOREM PointersAlwaysAgree == ImageFits => (Spec => []PointersAgree)
<1> SUFFICES ASSUME ImageFits PROVE Spec => []PointersAgree
  OBVIOUS
<1>1. FullInv => PointersAgree
  <2> SUFFICES ASSUME FullInv, Undisturbed, pc = "program"
               PROVE  /\ dev.wptr = write_pointer
                                      + (IF executed > 0 THEN Len(call.cmd.args) ELSE 0)
                      /\ dev.flash = Written(dev.wptr)
    BY DEF PointersAgree
  <2>1. UploadInv /\ FlashOK
    BY DEF FullInv
  <2>2. call.cmd.type = PROG_MULTI /\ PROG_MULTI # CHIP_ERASE
    BY <2>1, PhasesAre, PhaseOfCommand DEF PROG_MULTI, CHIP_ERASE
  <2> QED BY <2>1, <2>2 DEF FlashOK, Advance, Writing
<1> QED BY <1>1, FullInvHolds, PTL

(* The verification after the write loop finds what it expects, the image  *)
(* and erased cells behind it, on every link that is not disturbed.        *)
THEOREM ChecksumAlwaysMatches == ImageFits => (Spec => []NoFalseMismatch)
<1> SUFFICES ASSUME ImageFits PROVE Spec => []NoFalseMismatch
  OBVIOUS
<1>1. FullInv => NoFalseMismatch
  BY DEF FullInv, FlashOK, NoFalseMismatch
<1> QED BY <1>1, FullInvHolds, PTL

(* The flash changes in no other way than by the commands of the upload.   *)
LEMMA FlashChanges ==
  ASSUME UploadInv, [Next]_vars, dev'.flash # dev.flash
  PROVE  Environment /\ UNCHANGED uploadVars /\ Served(Head(toDev))
<1>1. dev \in DeviceType
  BY DEF UploadInv, OrderInv, ConnInv, LinkOK
<1>2. dev' # dev
  OBVIOUS
<1>3. ~Beginnings
  BY <1>2, BeginningIs DEF Begun
<1>4. ~Endings
  BY <1>2, EndingIs
<1>5. ~Host
  BY <1>2, HostIs DEF UploadInv, OrderInv
<1>6. ~UNCHANGED vars
  BY <1>2 DEF vars, connVars
<1>7. Environment /\ UNCHANGED uploadVars
  BY <1>3, <1>4, <1>5, <1>6, NextIs
<1>8. ~Dropped
  BY <1>1 DEF Dropped, DeviceType
<1>9. dev' # boot(dev)
  BY <1>1 DEF boot, DeviceType
<1> QED BY <1>2, <1>7, <1>8, <1>9, EnvironmentDoes

LEMMA FlashIsWritten ==
  ASSUME FullInv, Undisturbed, ImageFits, [Next]_vars, dev'.flash # dev.flash
  PROVE  /\ UNCHANGED uploadVars /\ finished # "success"
         /\ Erasing(call.cmd) \/ Programming(call.cmd)
<1>1. UploadInv /\ LinkUse /\ OneShot /\ FlashOK
  BY DEF FullInv, Calm
<1>2. UNCHANGED uploadVars /\ Served(Head(toDev))
  BY <1>1, FlashChanges
<1>3. Erasing(Head(toDev)) \/ Programming(Head(toDev))
  BY <1>1, <1>2, ServedWrites
<1>4. toDev # << >> /\ Head(toDev) = call.cmd
  BY <1>2, <1>3 DEF Erasing, Programming, Served
<1> QED BY <1>1, <1>2, <1>3, <1>4 DEF LinkUse

(* Retries of the write loop never cost what was written: from the first   *)
(* chunk on no cell changes but an erased one.                             *)
THEOREM ProgressIsAlwaysKept == ImageFits => (Spec => ProgressIsKept)
<1> SUFFICES ASSUME ImageFits PROVE Spec => ProgressIsKept
  OBVIOUS
<1>1. ASSUME FullInv, [Next]_vars, Undisturbed, pc \in {"program", "pointer", "crc", "reboot"}
      PROVE  OnlyErasedCellsChange
  <2>1. CASE dev'.flash = dev.flash
    BY <2>1 DEF OnlyErasedCellsChange
  <2>2. CASE dev'.flash # dev.flash
    <3>1. UploadInv /\ pc \in Phases /\ pc # "erase"
      BY <1>1, PhasesAre DEF FullInv
    <3>2. ~Erasing(call.cmd)
      BY <3>1, PhaseOfCommand DEF Erasing
    <3>3. Programming(call.cmd)
      BY <1>1, <2>2, <3>2, FlashIsWritten
    <3> PICK m : m = write_pointer
      OBVIOUS
    <3> PICK n : n = dev'.wptr
      OBVIOUS
    <3>4. /\ m \in Nat /\ dev.flash = Written(m) /\ dev'.flash = Written(n)
          /\ n = m + Len(chunk(m))
      BY <3>3, SizesAreNat DEF Programming
    <3>5. n >= m /\ n \in Nat
      <4>1. Len(chunk(m)) \in 0..ChunkSize /\ ChunkSize \in Nat
        BY <3>4, ChunkIs, SizesAreNat
      <4> QED BY <3>4, <4>1
    <3> SUFFICES ASSUME NEW i \in 1..FlashSize, Written(n)[i] # Written(m)[i]
                 PROVE  Written(m)[i] = ERASED
      BY <3>4 DEF OnlyErasedCellsChange
    <3>6. i > m
      BY <3>4, <3>5, WrittenIs, SizesAreNat
    <3> QED BY <3>4, <3>6, WrittenIs, SizesAreNat
  <2> QED BY <2>1, <2>2
<1>2. FullInv /\ [Next]_vars =>
        [Undisturbed /\ pc \in {"program", "pointer", "crc", "reboot"}
           => OnlyErasedCellsChange]_vars
  BY <1>1
<1> QED BY <1>2, FullInvHolds, PTL DEF Spec, ProgressIsKept

(* What an old bootloader runs is left alone: nothing is erased before the *)
(* revision is read, and nothing afterwards unless it is supported.        *)
THEOREM UnsupportedIsAlwaysUntouched == Spec => UnsupportedIsUntouched
<1>1. ASSUME FullInv, [Next]_vars, Undisturbed, dev.rev < 4, dev'.flash # dev.flash
      PROVE  FALSE
  <2>1. UploadInv /\ LinkUse /\ Informed /\ dev \in DeviceType
    BY <1>1 DEF FullInv, Calm, UploadInv, OrderInv, ConnInv, LinkOK
  <2>2. Served(Head(toDev))
    BY <1>1, <2>1, FlashChanges
  <2> PICK c : c = Head(toDev)
    OBVIOUS
  <2>3. c.type \in {CHIP_ERASE, PROG_MULTI}
    BY <1>1, <2>1, <2>2, DeviceStaysItself DEF Served
  <2>4. c = call.cmd
    <3>1. c \in {RebootPacket, GetSync, call.cmd}
      BY <2>1, <2>2, FirstMessage DEF Served
    <3>2. RebootPacket.type \notin {CHIP_ERASE, PROG_MULTI}
            /\ GetSync.type \notin {CHIP_ERASE, PROG_MULTI}
      BY DEF RebootPacket, GetSync, Command, CHIP_ERASE, PROG_MULTI, MAVLINK_REBOOT, GET_SYNC
    <3> QED BY <2>3, <3>1, <3>2
  <2>5. InTouch
    BY <2>3, <2>4 DEF InTouch, Writing
  <2>6. pc \notin {"flash_size", "bl_rev"}
    <3>1. pc \in {"flash_size", "bl_rev"} => pc \in Phases
      BY PhasesAre DEF InfoPhases
    <3> QED BY <2>1, <2>3, <2>4, <3>1, PhaseOfCommand
  <2>7. dev.rev >= 4 /\ dev.rev \in Nat
    BY <2>1, <2>5, <2>6 DEF Informed, DeviceType
  <2> QED BY <1>1, <2>7
<1>2. FullInv /\ [Next]_vars =>
        [Undisturbed /\ dev.rev < 4 => dev'.flash = dev.flash]_vars
  BY <1>1
<1> QED BY <1>2, FullInvHolds, PTL DEF Spec, UnsupportedIsUntouched

------------------------------------------------------------------------------
(* The upload implements FlashUpdate. *)

Memory == IF Undisturbed THEN dev.flash ELSE Written(0)

(* The status of the update follows from how the upload has ended.         *)
LEMMA StatusIs ==
  /\ ~Undisturbed => Status = "lapsed"
  /\ Undisturbed /\ finished = Unfinished => Status = "active"
  /\ Undisturbed /\ finished = "success" => Status = "success"
  /\ Undisturbed /\ finished \in {"failure", "cancelled"} => Status = "failed"
BY DEF Status, Unfinished

LEMMA StatusWillBe ==
  /\ ~Undisturbed' => Status' = "lapsed"
  /\ Undisturbed' /\ finished' = "success" => Status' = "success"
  /\ Undisturbed' /\ finished' \in {"failure", "cancelled"} => Status' = "failed"
BY DEF Status, Unfinished

LEMMA UpdateBegins == ASSUME Init PROVE Update!Init
<1>1. Undisturbed /\ finished = Unfinished
  BY DEF Init, ConnInit, Undisturbed
<1>2. dev.flash \in [1..FlashSize -> Cell]
  BY UploadAssumption DEF Init, DeviceType, Flash
<1>3. Status = "active"
  BY <1>1, StatusIs
<1> QED BY <1>1, <1>2, <1>3 DEF Update!Init

LEMMA FilledIsWritten == ASSUME NEW n PROVE Update!Filled(n) = Written(n)
BY DEF Update!Filled, Written

LEMMA UpdateGoesOn ==
  ASSUME FullInv, FullInv', ImageFits, [Next]_vars
  PROVE  [Update!Next]_Update!updateVars
<1>1. UploadInv /\ UploadInv'
  BY DEF FullInv
<1>2. CASE ~Undisturbed'
  <2>1. Status' = "lapsed" /\ Memory' = Update!Filled(0)
    BY <1>2, FilledIsWritten, StatusWillBe DEF Memory
  <2>2. Update!Lapse
    BY <2>1 DEF Update!Lapse, Memory
  <2> QED BY <2>2 DEF Update!Next
<1>3. CASE Undisturbed' /\ dev'.flash # dev.flash
  <2>1. Undisturbed
    BY <1>1, <1>3, UndisturbedIs
  <2>2. /\ UNCHANGED uploadVars /\ finished # "success"
        /\ Erasing(call.cmd) \/ Programming(call.cmd)
    BY <1>3, <2>1, FlashIsWritten
  <2>3. Status' = Status /\ Status # "success"
    BY <1>3, <2>1, <2>2 DEF Status, uploadVars
  <2>4. Memory = dev.flash /\ Memory' = dev'.flash
    BY <1>3, <2>1 DEF Memory
  <2>5. CASE Erasing(call.cmd)
    <3>1. Memory' = Update!Filled(0)
      BY <2>4, <2>5, FilledIsWritten DEF Erasing
    <3>2. Update!Erase
      BY <2>3, <3>1 DEF Update!Erase, Memory
    <3> QED BY <3>2 DEF Update!Next
  <2>6. CASE Programming(call.cmd)
    <3> PICK m : m = write_pointer
      OBVIOUS
    <3> PICK n : n = m + Len(chunk(m))
      OBVIOUS
    <3>1. m \in 0..total_bytes /\ Memory = Written(m) /\ Memory' = Written(n)
      BY <2>4, <2>6 DEF Programming
    <3>2. m # n
      BY <1>3, <2>4, <3>1
    <3>3. n \in 0..total_bytes /\ m < n /\ n <= m + ChunkSize
      <4>1. /\ m \in Nat /\ Len(chunk(m)) \in 0..ChunkSize /\ m <= total_bytes
            /\ total_bytes \in Nat /\ ChunkSize \in Nat
        BY <3>1, ChunkIs, SizesAreNat
      <4>2. m + Len(chunk(m)) <= total_bytes
        BY <4>1, ChunkIs
      <4> QED BY <3>2, <4>1, <4>2
    <3>4. Memory = Update!Filled(m) /\ Memory' = Update!Filled(n)
      BY <3>1, FilledIsWritten
    <3>5. Update!Write(m, n)
      BY <2>3, <3>3, <3>4 DEF Update!Write, Memory
    <3> QED BY <3>1, <3>3, <3>5 DEF Update!Next, total_bytes
  <2> QED BY <2>2, <2>5, <2>6
<1>4. CASE Undisturbed' /\ dev'.flash = dev.flash
  <2>1. Undisturbed
    BY <1>1, <1>4, UndisturbedIs
  <2>2. Memory' = Memory /\ Memory = dev.flash
    BY <1>4, <2>1 DEF Memory
  <2>3. CASE finished' = finished
    <3>1. Status' = Status
      BY <1>4, <2>1, <2>3 DEF Status
    <3> QED BY <2>2, <3>1 DEF Update!updateVars, Memory
  <2>4. CASE finished' # finished
    <3>1. Endings
      <4>1. ~Beginnings
        BY <1>1, <2>4, BeginningIs DEF Begun
      <4> QED BY <2>4, <4>1, NextIs DEF vars, uploadVars
    <3>2. pc # "finished" /\ finished' \in {"success", "failure", "cancelled"}
          /\ (finished' = "success" => Succeed)
      BY <1>1, <3>1, EndingIs
    <3>3. finished = Unfinished
      BY <1>1, <3>2 DEF UploadInv, CallOfPhase
    <3>4. Status = "active"
      BY <2>1, <3>3, StatusIs
    <3>5. CASE finished' = "success"
      <4>1. pc = "reboot" /\ pc \in Phases
        BY <3>2, <3>5, PhasesAre DEF Succeed, Returned
      <4>2. call.cmd.type = REBOOT /\ REBOOT # CHIP_ERASE
        BY <1>1, <4>1, PhaseOfCommand DEF REBOOT, CHIP_ERASE
      <4>3. FlashOK
        BY <2>1 DEF FullInv
      <4>4. dev.flash = Written(total_bytes)
        BY <4>2, <4>3 DEF FlashOK, Writing
      <4>5. Memory = Update!Filled(Len(Image)) /\ Status' = "success"
        BY <1>4, <2>2, <3>5, <4>4, FilledIsWritten, StatusWillBe DEF total_bytes
      <4>6. Update!Succeed
        BY <2>2, <3>4, <4>5 DEF Update!Succeed, Memory
      <4> QED BY <4>6 DEF Update!Next
    <3>6. CASE finished' \in {"failure", "cancelled"}
      <4>1. Status' = "failed"
        BY <1>4, <3>6, StatusWillBe
      <4>2. Update!Fail
        BY <2>2, <3>4, <4>1 DEF Update!Fail, Memory
      <4> QED BY <4>2 DEF Update!Next
    <3> QED BY <3>2, <3>5, <3>6
  <2> QED BY <2>3, <2>4
<1> QED BY <1>2, <1>3, <1>4

(* Seen from the flash memory an upload erases, fills the flash with the   *)
(* image in order and chunk by chunk, and reports success only when the    *)
(* whole image is in place; nothing touches the flash after that.  It may  *)
(* fail at any time.                                                       *)
THEOREM UploadImplementsFlashUpdate == ImageFits => (Spec => ImplementsFlashUpdate)
<1> SUFFICES ASSUME ImageFits PROVE Spec => ImplementsFlashUpdate
  OBVIOUS
<1>1. Init => Update!Init
  BY UpdateBegins
<1>2. FullInv /\ FullInv' /\ [Next]_vars => [Update!Next]_Update!updateVars
  BY UpdateGoesOn
<1> QED BY <1>1, <1>2, FullInvHolds, PTL DEF Spec, ImplementsFlashUpdate, Update!Spec
==============================================================================
