----------------------------- MODULE Bootloader -----------------------------
(***************************************************************************)
(* The device at the other end of the link, as operators on a record: the  *)
(* bootloader of ap_uploader/mock.py, and around it the little that the    *)
(* uploader relies on of the main firmware (it ignores bootloader          *)
(* commands, and reboots into the bootloader on a MAVLink command).        *)
(***************************************************************************)
EXTENDS Protocol

CONSTANTS
  FlashSize,    \* cells of flash memory
  Cell,         \* values of a cell, all bytes in the code
  BoardId,      \* identifier of the board
  Crc(_, _)     \* Crc(data, n): checksum of data followed by n erased cells

ERASED == 255

Flash == [1..FlashSize -> Cell]
BlankFlash == [i \in 1..FlashSize |-> ERASED]

(* A number that the four bytes of a reply can hold: beyond, to_bytes raises. *)
FitsWord(n) == n \div 16777216 < 256

ASSUME FlashSizeAssumption == FlashSize \in Nat \ {0} /\ FitsWord(FlashSize)
ASSUME CellAssumption == Cell \subseteq Byte /\ ERASED \in Cell
ASSUME BoardIdAssumption == BoardId \in Nat
ASSUME CrcAssumption == \A flash \in Flash : Crc(flash, 0) \in Nat /\ FitsWord(Crc(flash, 0))

(* Items of GET_DEVICE. *)
BL_REV == 1
BOARD_ID == 2
BOARD_REV == 3
FLASH_SIZE == 4
DeviceInfoItem == {BL_REV, BOARD_ID, BOARD_REV, FLASH_SIZE}

(* The pre-generated MAVLink packet that reboots the main firmware into    *)
(* the bootloader; it travels on the same link as the commands.            *)
MAVLINK_REBOOT == 254

DeviceType ==
  [flash : Flash, wptr : 0..FlashSize, rev : Nat,
   mode : {"bootloader", "app", "rebooting"}]

(* No client can name another item (MockBootloader shows what it would be  *)
(* told).                                                                  *)
device_info(d, item) ==
  CASE item = BL_REV -> d.rev
    [] item = BOARD_ID -> BoardId
    [] item = FLASH_SIZE -> FlashSize
    [] OTHER -> 0

(* The cells that a write touches wrap around at the end of the flash; the *)
(* pointer rests behind the last cell written, so it may equal FlashSize.  *)
Wrapped(n) == ((n - 1) % FlashSize) + 1

write_to_flash_memory(d, data) ==
  IF data = NoBytes THEN d
  ELSE [d EXCEPT
         !.flash = [i \in 1..FlashSize |->
                      LET hits == {k \in 1..Len(data) : Wrapped(d.wptr + k) = i}
                      IN  IF hits = {} THEN d.flash[i] ELSE data[Max(hits)]],
         !.wptr = Wrapped(d.wptr + Len(data))]

erase(d) == [d EXCEPT !.flash = BlankFlash, !.wptr = 0]

(* The serial number is the bytes 0, 1, 2, ...; a word of it is read        *)
(* backwards.  The chip description is any two bytes.                       *)
serial_number_word(address) == << address + 3, address + 2, address + 1, address >>
chip_description == << 70, 55 >>

(* A handled command: the device after it, and the reply. *)
Handled(d, payload) == [dev |-> d, reply |-> reply_bytes(OK, payload)]
Rejected(d) == [dev |-> d, reply |-> reply_bytes(INVALID, NoBytes)]

(* The bytes of the MAVLink packet contain an opcode without its           *)
(* end-of-command byte, which the bootloader rejects.                      *)
handle_command(d, c) ==
  CASE c.type = GET_SYNC -> Handled(d, NoBytes)
    [] c.type = GET_DEVICE -> Handled(d, to_word(device_info(d, c.args[1])))
    [] c.type = GET_CHIP -> Handled(d, << 9 >>)
    [] c.type = GET_CHIP_DES ->
         Handled(d, to_word(Len(chip_description)) \o chip_description)
    [] c.type = GET_OTP -> Handled(d, << 255, 255, 255, 255 >>)
    [] c.type = GET_SN -> Handled(d, serial_number_word(c.args[1]))
    [] c.type = CHIP_ERASE -> Handled(erase(d), NoBytes)
    [] c.type = PROG_MULTI -> Handled(write_to_flash_memory(d, c.args), NoBytes)
    [] c.type = GET_CRC -> Handled(d, to_word(Crc(d.flash, 0)))
    [] c.type = GET_WRITE_PTR -> Handled(d, to_word(d.wptr))
    [] c.type = REBOOT -> Handled([d EXCEPT !.mode = "app"], NoBytes)
    [] OTHER -> Rejected(d)

(* What the device does with a message that reaches it: outside the        *)
(* bootloader only the MAVLink command counts, and nothing is answered.    *)
deliver(d, c) ==
  CASE d.mode = "bootloader" -> handle_command(d, c)
    [] d.mode = "app" /\ c.type = MAVLINK_REBOOT ->
         [dev |-> [d EXCEPT !.mode = "rebooting"], reply |-> NoBytes]
    [] OTHER -> [dev |-> d, reply |-> NoBytes]

(* The device has restarted in its bootloader. *)
boot(d) == [d EXCEPT !.mode = "bootloader", !.wptr = 0]
==============================================================================
