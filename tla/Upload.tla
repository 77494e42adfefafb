------------------------------- MODULE Upload -------------------------------
(***************************************************************************)
(* Uploader.upload_firmware of ap_uploader/uploader.py as the client of a  *)
(* connection: reach the bootloader, read what it is, erase it, write the  *)
(* image chunk by chunk, verify the checksum, reboot.                      *)
(***************************************************************************)
EXTENDS Connection

CONSTANTS
  Image,            \* the firmware image
  FirmwareBoardId,  \* the board the firmware is for
  ChunkSize,        \* PROG_MULTI_MAX_PAYLOAD_LENGTH, 252 in the code
  MaxRetries,       \* the default of _process_command, 10 in the code
  ReprobeRetries,   \* retries of ensure_in_bootloader after a reboot, 5 in the code
  ExpectingFailure, \* the argument of that name
  InitialDevice     \* states of the device when the upload starts

ASSUME UploadAssumption ==
  /\ Image \in Seq(Cell)
  /\ ChunkSize \in Nat \ {0}
  /\ MaxRetries \in Nat /\ ReprobeRetries \in Nat
  /\ ExpectingFailure \in BOOLEAN
  /\ InitialDevice \subseteq DeviceType

VARIABLES
  pc,               \* the await of upload_firmware that is under way
  write_pointer,    \* where the next chunk goes, NoPointer if not known
  flash_size,       \* what the bootloader said of itself
  bl_rev,
  retrying,         \* failures are expected, from the start or after on_rebooted
  mismatch,         \* a CRCMismatchEvent was emitted
  finished          \* how the upload ended, as the "finished" event says

uploadVars ==
  << pc, write_pointer, flash_size, bl_rev, retrying, mismatch, finished >>
vars == << connVars, uploadVars >>

NoPointer == -1
Unfinished == "no"

total_bytes == Len(Image)

(* The flash with the first n cells of the image in place. *)
Written(n) == [i \in 1..FlashSize |-> IF i <= n THEN Image[i] ELSE ERASED]

(* The second argument of Crc counts erased cells behind the data. *)
ImageFits == total_bytes <= FlashSize
ASSUME PaddingAssumption ==
  ImageFits => Crc(Written(total_bytes), 0) = Crc(Image, FlashSize - total_bytes)

(* The phases that wait for a call, in the order of upload_firmware. *)
Info == << "flash_size", "bl_rev", "board_id", "board_rev", "sn0", "sn4", "sn8" >>
Phases == {"probe", "reprobe", "erase", "pointer", "program", "crc", "reboot"}
            \union Range(Info)

(* image[n : n + ChunkSize], empty beyond the end. *)
chunk(n) == SubSeq(Image, n + 1, IF n + ChunkSize < total_bytes THEN n + ChunkSize
                                                                 ELSE total_bytes)

CommandOf(phase, wp) ==
  CASE phase \in {"probe", "reprobe", "board_id"} -> Command(GET_DEVICE, << BOARD_ID >>)
    [] phase = "flash_size" -> Command(GET_DEVICE, << FLASH_SIZE >>)
    [] phase = "bl_rev" -> Command(GET_DEVICE, << BL_REV >>)
    [] phase = "board_rev" -> Command(GET_DEVICE, << BOARD_REV >>)
    [] phase = "sn0" -> Command(GET_SN, << 0 >>)
    [] phase = "sn4" -> Command(GET_SN, << 4 >>)
    [] phase = "sn8" -> Command(GET_SN, << 8 >>)
    [] phase = "erase" -> Command(CHIP_ERASE, << >>)
    [] phase = "pointer" -> Command(GET_WRITE_PTR, << >>)
    [] phase = "program" -> Command(PROG_MULTI, chunk(wp))
    [] phase = "crc" -> Command(GET_CRC, << >>)
    [] phase = "reboot" -> Command(REBOOT, << >>)

(* Mutant: program_bytes is retried like any other command. *)
RetriesOf_any(phase) ==
  CASE phase = "probe" -> 1
    [] phase = "reprobe" -> ReprobeRetries
    [] OTHER -> MaxRetries

RetriesOf(phase) ==
  CASE phase = "probe" -> 1
    [] phase = "reprobe" -> ReprobeRetries
    [] phase = "program" -> 0
    [] OTHER -> MaxRetries

(* Go on to a phase and begin its call; wp is the write pointer by then. *)
Goto(phase, wp) ==
  /\ pc' = phase
  /\ write_pointer' = wp
  /\ Begin(CommandOf(phase, wp), RetriesOf(phase))

Init ==
  /\ ConnInit
  /\ dev \in InitialDevice
  /\ pc = "connecting"
  /\ write_pointer = NoPointer
  /\ flash_size = 0 /\ bl_rev = 0
  /\ retrying = ExpectingFailure /\ mismatch = FALSE
  /\ finished = Unfinished

------------------------------------------------------------------------------
Returned(phase) == pc = phase /\ call.status = "returned"

Connect ==
  /\ pc = "connecting"
  /\ Goto("probe", write_pointer)
  /\ UNCHANGED << proto, dev, linkVars, flash_size, bl_rev, retrying, mismatch,
                  finished >>

(* Nothing answered: reboot into the bootloader by MAVLink, then insist. *)
RebootToBootloader ==
  /\ pc = "probe"
  /\ call.status \in {"timeout", "excess"}
  /\ toDev' = Append(toDev, RebootPacket)
  /\ retrying' = TRUE
  /\ Goto("reprobe", write_pointer)
  /\ UNCHANGED << proto, dev, toHost, faults, flash_size, bl_rev, mismatch,
                  finished >>

(* The transport cannot be opened, or does not take the MAVLink packet.    *)
(* That ends the upload, so MaxFaults need not bound it.                   *)
TransportRaises ==
  /\ \/ pc = "connecting"
     \/ pc = "probe" /\ call.status \in {"timeout", "excess"}
  /\ "io" \in Faults
  /\ pc' = "finished"
  /\ finished' = "failure"
  /\ UNCHANGED << connVars, write_pointer, flash_size, bl_rev, retrying, mismatch >>

InBootloader ==
  /\ Returned("probe") \/ Returned("reprobe")
  /\ Goto("flash_size", write_pointer)
  /\ UNCHANGED << proto, dev, linkVars, flash_size, bl_rev, retrying, mismatch,
                  finished >>

(* Mutant: an off-by-one in the check of the revision. *)
Supported_3(rev) == rev >= 3

(* Only the flash size and the bootloader revision are kept; revisions     *)
(* below 4 are not supported (see Raise).  The board is not compared with  *)
(* the one the firmware is for.                                            *)
Supported(rev) == rev >= 4

ReadInfo ==
  \E i \in 1..Len(Info) :
    /\ Returned(Info[i])
    /\ LET value == from_word(call.payload) IN
         /\ flash_size' = IF pc = "flash_size" THEN value ELSE flash_size
         /\ bl_rev' = IF pc = "bl_rev" THEN value ELSE bl_rev
    /\ Supported(bl_rev') \/ pc = "flash_size"
    /\ Goto(IF i < Len(Info) THEN Info[i + 1] ELSE "erase", write_pointer)
    /\ UNCHANGED << proto, dev, linkVars, retrying, mismatch, finished >>

(* The head of the write loop, with the write pointer known. *)
WriteFrom(wp) == Goto(IF wp < total_bytes THEN "program" ELSE "crc", wp)

Erased ==
  /\ Returned("erase")
  /\ WriteFrom(0)
  /\ UNCHANGED << proto, dev, linkVars, flash_size, bl_rev, retrying, mismatch,
                  finished >>

Programmed ==
  /\ Returned("program")
  /\ WriteFrom(write_pointer + Len(call.cmd.args))
  /\ UNCHANGED << proto, dev, linkVars, flash_size, bl_rev, retrying, mismatch,
                  finished >>

(* Mutant: the chunk is sent again without asking. *)
SendChunkAgain ==
  /\ pc = "program" /\ call.status = "timeout"
  /\ bl_rev >= 6
  /\ Goto("program", write_pointer)
  /\ UNCHANGED << proto, dev, linkVars, flash_size, bl_rev, retrying, mismatch,
                  finished >>

(* The acknowledgment of a chunk is lost: ask where the bootloader is, if  *)
(* it can say (see Raise for when it cannot).                              *)
AskForPointer ==
  /\ pc = "program" /\ call.status = "timeout"
  /\ bl_rev >= 6
  /\ Goto("pointer", NoPointer)
  /\ UNCHANGED << proto, dev, linkVars, flash_size, bl_rev, retrying, mismatch,
                  finished >>

(* The chunk at the pointer is sent even if it is empty. *)
PointerKnown ==
  /\ Returned("pointer")
  /\ Goto("program", from_word(call.payload))
  /\ UNCHANGED << proto, dev, linkVars, flash_size, bl_rev, retrying, mismatch,
                  finished >>

(* Mutant: the flash behind the image is not counted. *)
image_crc == Crc(Image, 0)

(* The image, and erased cells up to the end of the flash if it is smaller. *)
expected_crc == Crc(Image, Max({0, flash_size - total_bytes}))

(* Mutant: the checksums are not compared. *)
crc_always_matches == TRUE

crc_matches == from_word(call.payload) = expected_crc

(* A mismatch is reported, and the upload goes on. *)
Verified ==
  /\ Returned("crc")
  /\ mismatch' = ~crc_matches
  /\ Goto("reboot", write_pointer)
  /\ UNCHANGED << proto, dev, linkVars, flash_size, bl_rev, retrying, finished >>

Succeed ==
  /\ Returned("reboot")
  /\ pc' = "finished"
  /\ finished' = "success"
  /\ UNCHANGED << connVars, write_pointer, flash_size, bl_rev, retrying, mismatch >>

(* Exceptions that nothing in upload_firmware handles. *)
Unhandled ==
  \/ call.status \in Errors
       /\ ~(pc = "probe" /\ call.status \in {"timeout", "excess"})
       /\ ~(pc = "program" /\ call.status = "timeout" /\ bl_rev >= 6)
  \/ Returned("bl_rev") /\ ~Supported(from_word(call.payload))

Raise ==
  /\ pc # "finished" /\ Unhandled
  /\ pc' = "finished"
  /\ finished' = "failure"
  /\ UNCHANGED << connVars, write_pointer, flash_size, bl_rev, retrying, mismatch >>

(* The user interrupts the upload; what is on the link stays there. *)
Cancel ==
  /\ pc # "finished"
  /\ pc' = "finished"
  /\ finished' = "cancelled"
  /\ \/ call.status # "running" /\ UNCHANGED connVars
     \/ Abandon
  /\ UNCHANGED << write_pointer, flash_size, bl_rev, retrying, mismatch >>

Terminated ==
  /\ pc = "finished"
  /\ toDev = << >> /\ dev.mode # "rebooting"
  /\ UNCHANGED vars

Client ==
  \/ Connect \/ RebootToBootloader \/ InBootloader \/ ReadInfo \/ Erased
  \/ Programmed \/ AskForPointer \/ PointerKnown \/ Verified \/ Succeed \/ Raise

Next ==
  \/ Client
  \/ Cancel \/ TransportRaises
  \/ (Host \/ Environment) /\ UNCHANGED uploadVars
  \/ Terminated

Spec ==
  /\ Init /\ [][Next]_vars
  /\ WF_vars(Client)
  /\ WF_vars(Progress /\ UNCHANGED uploadVars)

------------------------------------------------------------------------------
(* The types of an upload.  The retries left are never negative, and the   *)
(* write pointer is a number, or not known.                                *)
TypeOK ==
  /\ ConnTypeOK
  /\ pc \in Phases \union {"connecting", "finished"}
  /\ write_pointer \in Nat \union {NoPointer}
  /\ flash_size \in Nat /\ bl_rev \in Nat
  /\ {retrying, mismatch} \subseteq BOOLEAN
  /\ finished \in {Unfinished, "success", "failure", "cancelled"}

(* No reply has come late so far, and nobody else talked on the link. *)
Undisturbed == ~faults.disturbing

(* While a chunk is being written, the pointer of the uploader is that of  *)
(* the bootloader, or one chunk behind when the bootloader has written it  *)
(* and the acknowledgment is still due; and what precedes the pointer of   *)
(* the bootloader is the image, what follows it is erased.                 *)
PointersAgree ==
  Undisturbed /\ pc = "program" /\ call.status \in {"running", "returned", "timeout"} =>
    /\ dev.wptr = write_pointer + (IF executed > 0 THEN Len(call.cmd.args) ELSE 0)
    /\ dev.flash = Written(dev.wptr)

(* An upload that reports success has left the image, the whole image and  *)
(* nothing but the image in the flash.                                     *)
SuccessMeansProgrammed == finished = "success" => dev.flash = Written(total_bytes)

(* An upload that finds no CRC mismatch did program the image, even on a   *)
(* link on which replies come late and commands are lost: the checksum     *)
(* catches every chunk that was skipped.  From then on the image stays in  *)
(* place, be it that the upload succeeds, is cancelled or, as the reboot   *)
(* is not acknowledged, fails though there is nothing left to repair.      *)
VerifiedMeansProgrammed ==
  call.cmd.type = REBOOT /\ ~mismatch => dev.flash = Written(total_bytes)

(* On a link that keeps the promised response times the checksum never     *)
(* disagrees: what the loop wrote is what the verification expects.        *)
NoFalseMismatch == Undisturbed => ~mismatch

OnlyErasedCellsChange ==
  \A i \in 1..FlashSize : dev'.flash[i] # dev.flash[i] => dev.flash[i] = ERASED

(* Once the first chunk is accepted nothing erases or overwrites it: the   *)
(* programmed part of the image only grows during the write loop.          *)
ProgressIsKept ==
  [][Undisturbed /\ pc \in {"program", "pointer", "crc", "reboot"}
       => OnlyErasedCellsChange]_vars

(* A bootloader whose revision is not supported keeps its firmware, as     *)
(* long as no late reply is taken for the revision.                        *)
UnsupportedIsUntouched ==
  [][Undisturbed /\ dev.rev < 4 => dev'.flash = dev.flash]_vars

(* Every upload finishes, whatever fails on the way. *)
Finishes == <>(pc = "finished")

(* Seen from the flash memory the upload is a FlashUpdate: in order, chunk *)
(* by chunk, and successful only when complete.                            *)
Status ==
  CASE ~Undisturbed -> "lapsed"
    [] Undisturbed /\ finished = Unfinished -> "active"
    [] Undisturbed /\ finished = "success" -> "success"
    [] OTHER -> "failed"

Update == INSTANCE FlashUpdate
            WITH Size <- FlashSize, Contents <- Image, Chunk <- ChunkSize,
                 Blank <- ERASED, status <- Status,
                 flash <- IF Undisturbed THEN dev.flash ELSE Written(0)

ImplementsFlashUpdate == Update!Spec

------------------------------------------------------------------------------
(* A disagreement with the documentation, checked by a run of its own. *)

(* The flash size is the "maximum firmware size in bytes", and the board   *)
(* ID of the firmware "indicates which board the firmware can be installed *)
(* on": a board that the image does not fit, or was not made for, should   *)
(* not be erased.                                                          *)
TargetIsSuitable ==
  pc \in {"erase", "program", "pointer", "crc", "reboot"} =>
    total_bytes <= flash_size /\ BoardId = FirmwareBoardId
==============================================================================
