--------------------------- MODULE ConnectionProofs ---------------------------
(***************************************************************************)
(* A connection with any client, any device and any faults, however many.  *)
(* It keeps its types and never meets its "invalid state", whatever gets   *)
(* lost, late or broken on the link.  As long as replies keep their times  *)
(* and nobody else talks on the link, a call that returns was executed and *)
(* returns the present answer of the device, and its reply was the last    *)
(* one under way.                                                          *)
(***************************************************************************)
EXTENDS Connection, ProtocolTheorems

(* What may be on its way to the device. *)
CommandSet ==
  {c \in [type : Byte, args : Seq(Nat)] :
     /\ c.type = PROG_MULTI => c.args \in Seq(Cell)
     /\ c.type = GET_SN => c.args # << >> /\ c.args[1] \in 0..252}

LEMMA ClientsSendCommands ==
  ASSUME NEW c \in ClientCommands PROVE c \in CommandSet /\ c.type # MAVLINK_REBOOT
BY DEF ClientCommands, CommandSet

------------------------------------------------------------------------------
(* The replies of the device are bytes, and its commands keep its types. *)

LEMMA Remainder == \A a \in Nat : \A b \in Nat \ {0} : a % b \in 0..(b - 1)
  OBVIOUS

LEMMA WordIsBytes == ASSUME NEW n \in Nat PROVE to_word(n) \in Seq(Byte)
<1>1. \A m \in Nat : m % 256 \in Byte
  BY DEF Byte
<1>2. n \div 256 \in Nat /\ n \div 65536 \in Nat /\ n \div 16777216 \in Nat
  OBVIOUS
<1>3. \A a, b, c, d \in Byte : << a, b, c, d >> \in Seq(Byte)
  OBVIOUS
<1> QED BY <1>1, <1>2, <1>3 DEF to_word

LEMMA ReplyIsBytes ==
  ASSUME NEW code \in Byte, NEW payload \in Seq(Byte)
  PROVE  reply_bytes(code, payload) \in Seq(Byte)
<1>1. IN_SYNC \in Byte
  BY DEF IN_SYNC, Byte
<1>2. << IN_SYNC, code >> \in Seq(Byte)
  BY <1>1
<1>3. CASE code = OK
  BY <1>2, <1>3, ConcatProperties DEF reply_bytes
<1>4. CASE code # OK
  BY <1>2, <1>4, NoBytesType DEF reply_bytes
<1> QED BY <1>3, <1>4

(* A set of positions that is not empty has a greatest element. *)
LEMMA GreatestElement ==
  ASSUME NEW n \in Nat, NEW I \in SUBSET (1..n), I # {}
  PROVE  Max(I) \in I
<1> DEFINE J == {n - x : x \in I}
<1>1. J \in SUBSET Nat /\ J # {}
  <2>1. \A x \in I : n - x \in Nat
    OBVIOUS
  <2>2. J \subseteq Nat
    BY <2>1
  <2>3. \E x \in I : n - x \in J
    OBVIOUS
  <2> QED BY <2>2, <2>3
<1>2. PICK j \in J : \A y \in J : j <= y
  <2> HIDE DEF J
  <2> QED BY <1>1, LeastElement
<1>3. PICK x \in I : j = n - x
  OBVIOUS
<1>4. \A y \in I : x >= y
  <2> TAKE y \in I
  <2>1. n - y \in J
    OBVIOUS
  <2>2. n - x <= n - y
    BY <1>2, <1>3, <2>1
  <2>3. \A a, b \in Int : n - a <= n - b => a >= b
    OBVIOUS
  <2>4. x \in Int /\ y \in Int
    OBVIOUS
  <2> HIDE DEF J
  <2> QED BY <2>2, <2>3, <2>4
<1> QED BY <1>4 DEF Max

LEMMA WriteKeepsType ==
  ASSUME NEW d \in DeviceType, NEW data \in Seq(Cell)
  PROVE  write_to_flash_memory(d, data) \in DeviceType
<1>1. CASE data = NoBytes
  BY <1>1 DEF write_to_flash_memory
<1>2. CASE data # NoBytes
  <2> DEFINE hits(i) == {k \in 1..Len(data) : Wrapped(d.wptr + k) = i}
             cell(i) == IF hits(i) = {} THEN d.flash[i] ELSE data[Max(hits(i))]
             flash == [i \in 1..FlashSize |-> cell(i)]
             wptr == Wrapped(d.wptr + Len(data))
  <2>1. d.flash \in Flash /\ d.wptr \in 0..FlashSize
    BY DEF DeviceType
  <2>2. flash \in Flash
    <3>1. ASSUME NEW i \in 1..FlashSize PROVE cell(i) \in Cell
      <4>1. CASE hits(i) = {}
        BY <2>1, <4>1 DEF Flash
      <4>2. CASE hits(i) # {}
        <5>1. Len(data) \in Nat /\ hits(i) \in SUBSET (1..Len(data))
          OBVIOUS
        <5>2. Max(hits(i)) \in hits(i)
          <6> HIDE DEF hits
          <6> QED BY <4>2, <5>1, GreatestElement
        <5>3. Max(hits(i)) \in 1..Len(data)
          BY <5>2
        <5>4. data[Max(hits(i))] \in Cell
          <6> HIDE DEF hits
          <6> QED BY <5>3, ElementOfSeq
        <5> QED BY <4>2, <5>4
      <4> QED BY <4>1, <4>2
    <3> HIDE DEF cell
    <3> QED BY <3>1 DEF Flash
  <2>3. wptr \in 0..FlashSize
    <3>1. Len(data) \in Nat /\ Len(data) # 0
      BY <1>2, LenProperties, EmptySeq DEF NoBytes
    <3>2. (d.wptr + Len(data)) - 1 \in Nat /\ FlashSize \in Nat \ {0}
      BY <2>1, <3>1, FlashSizeAssumption
    <3>3. ((d.wptr + Len(data)) - 1) % FlashSize \in 0..(FlashSize - 1)
      BY <3>2, Remainder
    <3> QED BY <3>2, <3>3 DEF Wrapped
  <2>4. write_to_flash_memory(d, data) = [d EXCEPT !.flash = flash, !.wptr = wptr]
    BY <1>2 DEF write_to_flash_memory
  <2> HIDE DEF flash, wptr
  <2> QED BY <2>2, <2>3, <2>4 DEF DeviceType
<1> QED BY <1>1, <1>2

LEMMA InfoIsNat ==
  ASSUME NEW d \in DeviceType, NEW item PROVE device_info(d, item) \in Nat
<1>1. d.rev \in Nat /\ FlashSize \in Nat /\ BoardId \in Nat
  BY FlashSizeAssumption, BoardIdAssumption DEF DeviceType
<1> QED BY <1>1 DEF device_info, BL_REV, BOARD_ID, FLASH_SIZE

(* Every command is answered in bytes. *)
LEMMA CommandIsHandled ==
  ASSUME NEW d \in DeviceType, NEW c \in CommandSet
  PROVE  handle_command(d, c).dev \in DeviceType /\ handle_command(d, c).reply \in Seq(Byte)
<1> USE DEF GET_SYNC, GET_DEVICE, CHIP_ERASE, PROG_MULTI, GET_CRC, GET_OTP, GET_SN, GET_CHIP,
            GET_CHIP_DES, GET_WRITE_PTR, REBOOT
<1>1. OK \in Byte /\ INVALID \in Byte /\ NoBytes \in Seq(Byte)
  BY NoBytesType DEF OK, INVALID, Byte
<1>2. ASSUME NEW e \in DeviceType, NEW payload \in Seq(Byte)
      PROVE  Handled(e, payload).dev \in DeviceType
               /\ Handled(e, payload).reply \in Seq(Byte)
  BY <1>1, ReplyIsBytes DEF Handled
<1>3. CASE c.type = GET_SYNC
  BY <1>1, <1>2, <1>3 DEF handle_command
<1>4. CASE c.type = GET_DEVICE
  <2>1. to_word(device_info(d, c.args[1])) \in Seq(Byte)
    BY InfoIsNat, WordIsBytes
  <2> QED BY <1>2, <1>4, <2>1 DEF handle_command
<1>5. CASE c.type = GET_CHIP
  <2>1. << 9 >> \in Seq(Byte)
    BY DEF Byte
  <2>3. handle_command(d, c) = Handled(d, << 9 >>)
    BY <1>5 DEF handle_command
  <2> QED BY <1>2, <2>1, <2>3
<1>6. CASE c.type = GET_CHIP_DES
  <2>1. chip_description \in Seq(Byte) /\ Len(chip_description) \in Nat
    BY DEF chip_description, Byte
  <2>2. to_word(Len(chip_description)) \o chip_description \in Seq(Byte)
    BY <2>1, WordIsBytes, ConcatProperties
  <2>3. handle_command(d, c) = Handled(d, to_word(Len(chip_description)) \o chip_description)
    BY <1>6 DEF handle_command
  <2> QED BY <1>2, <2>2, <2>3
<1>7. CASE c.type = GET_OTP
  <2> DEFINE otp == << 255, 255, 255, 255 >>
  <2>1. otp \in Seq(Byte)
    BY DEF Byte
  <2>2. handle_command(d, c) = Handled(d, otp)
    BY <1>7 DEF handle_command
  <2> HIDE DEF otp
  <2> QED BY <1>2, <2>1, <2>2
<1>8. CASE c.type = GET_SN
  <2>1. c.args[1] \in 0..252
    BY <1>8 DEF CommandSet
  <2>2. serial_number_word(c.args[1]) \in Seq(Byte)
    BY <2>1 DEF serial_number_word, Byte
  <2> QED BY <1>2, <1>8, <2>2 DEF handle_command
<1>9. CASE c.type = CHIP_ERASE
  <2>1. BlankFlash \in Flash /\ 0 \in 0..FlashSize
    BY CellAssumption, FlashSizeAssumption DEF Flash, BlankFlash
  <2>2. erase(d) \in DeviceType
    BY <2>1 DEF erase, DeviceType
  <2> QED BY <1>1, <1>2, <1>9, <2>2 DEF handle_command
<1>10. CASE c.type = PROG_MULTI
  <2>1. write_to_flash_memory(d, c.args) \in DeviceType
    BY <1>10, WriteKeepsType DEF CommandSet
  <2> QED BY <1>1, <1>2, <1>10, <2>1 DEF handle_command
<1>11. CASE c.type = GET_CRC
  <2>1. to_word(Crc(d.flash, 0)) \in Seq(Byte)
    BY CrcAssumption, WordIsBytes DEF DeviceType
  <2> QED BY <1>2, <1>11, <2>1 DEF handle_command
<1>12. CASE c.type = GET_WRITE_PTR
  <2>1. d.wptr \in Nat
    BY FlashSizeAssumption DEF DeviceType
  <2>2. to_word(d.wptr) \in Seq(Byte)
    BY <2>1, WordIsBytes
  <2> QED BY <1>2, <1>12, <2>2 DEF handle_command
<1>13. CASE c.type = REBOOT
  <2>1. [d EXCEPT !.mode = "app"] \in DeviceType
    BY DEF DeviceType
  <2> QED BY <1>1, <1>2, <1>13, <2>1 DEF handle_command
<1>14. CASE c.type \notin {GET_SYNC, GET_DEVICE, CHIP_ERASE, PROG_MULTI, GET_CRC, GET_OTP,
                          GET_SN, GET_CHIP, GET_CHIP_DES, GET_WRITE_PTR, REBOOT}
  <2>1. handle_command(d, c) = Rejected(d)
    BY <1>14 DEF handle_command
  <2> QED BY <1>1, <2>1, ReplyIsBytes DEF Rejected
<1> QED BY <1>3, <1>4, <1>5, <1>6, <1>7, <1>8, <1>9, <1>10, <1>11, <1>12, <1>13, <1>14

LEMMA Delivered ==
  ASSUME NEW d \in DeviceType, NEW c \in CommandSet
  PROVE  deliver(d, c).dev \in DeviceType /\ deliver(d, c).reply \in Seq(Byte)
<1>1. CASE d.mode = "bootloader"
  BY <1>1, CommandIsHandled DEF deliver
<1>2. CASE d.mode # "bootloader"
  <2>1. [d EXCEPT !.mode = "rebooting"] \in DeviceType /\ NoBytes \in Seq(Byte)
    BY NoBytesType DEF DeviceType
  <2> QED BY <1>2, <2>1 DEF deliver
<1> QED BY <1>1, <1>2

(* The reply of a device that rejects. *)
LEMMA RejectedIs ==
  ASSUME NEW d
  PROVE  Rejected(d).reply = << IN_SYNC, INVALID >>
<1>1. INVALID # OK
  BY DEF INVALID, OK
<1>2. << IN_SYNC, INVALID >> \in Seq(Byte)
  BY DEF IN_SYNC, INVALID, Byte
<1> QED BY <1>1, <1>2, NoBytesType DEF Rejected, reply_bytes

(* The bytes of a successful reply. *)
LEMMA HandledIs ==
  ASSUME NEW d, NEW body \in Seq(Byte)
  PROVE  LET R == Handled(d, body).reply IN
         /\ R = body \o << IN_SYNC, OK >> /\ R \in Seq(Byte)
         /\ Len(R) = Len(body) + 2
         /\ R[Len(R) - 1] = IN_SYNC /\ R[Len(R)] = OK
         /\ SubSeq(R, 1, Len(R) - 2) = body
<1> DEFINE R == body \o << IN_SYNC, OK >>
<1>1. Handled(d, body).reply = R
  BY DEF Handled, reply_bytes
<1>2. << IN_SYNC, OK >> \in Seq(Byte)
  BY DEF IN_SYNC, OK, Byte
<1>3. Len(body) \in Nat
  BY LenProperties
<1>4. /\ R \in Seq(Byte) /\ Len(R) = Len(body) + 2
      /\ R[Len(body) + 1] = IN_SYNC /\ R[Len(body) + 2] = OK
      /\ \A i \in 1..Len(body) : R[i] = body[i]
  BY <1>2, <1>3
<1>5. SubSeq(R, 1, Len(R) - 2) = body
  <2> DEFINE s == SubSeq(R, 1, Len(body))
  <2>1. Len(body) \in 0..Len(R)
    BY <1>3, <1>4
  <2>2. s \in Seq(Byte) /\ Len(s) = Len(body)
    <3> HIDE DEF R
    <3> QED BY <1>4, <2>1, Cut
  <2>3. \A i \in 1..Len(s) : s[i] = body[i]
    <3> HIDE DEF R
    <3> QED BY <1>3, <1>4, <2>2
  <2>4. s = body
    <3> HIDE DEF s
    <3> QED BY <2>2, <2>3, SeqEqual
  <2>5. Len(R) - 2 = Len(body)
    BY <1>3, <1>4
  <2> QED BY <2>4, <2>5
<1>6. Len(R) - 1 = Len(body) + 1
  BY <1>3, <1>4
<1> HIDE DEF R
<1>7. R[Len(R) - 1] = IN_SYNC /\ R[Len(R)] = OK
  BY <1>4, <1>6
<1> QED BY <1>1, <1>4, <1>5, <1>7 DEF R

description_body == to_word(Len(chip_description)) \o chip_description

LEMMA Described ==
  /\ description_body \in Seq(Byte) /\ Len(description_body) = 6
  /\ description_body[1] = 2 /\ description_body[2] = 0
  /\ description_body[3] = 0 /\ description_body[4] = 0
  /\ description_body[5] = 70 /\ description_body[6] = 55
<1> DEFINE a == << 2, 0, 0, 0 >>
           b == << 70, 55 >>
<1>1. Len(chip_description) = 2
  BY DEF chip_description
<1>2. to_word(2) = a
  BY DEF to_word
<1>3. description_body = a \o b
  BY <1>1, <1>2 DEF description_body, chip_description
<1>4. /\ a \in Seq(Byte) /\ Len(a) = 4 /\ b \in Seq(Byte) /\ Len(b) = 2
      /\ a[1] = 2 /\ a[2] = 0 /\ a[3] = 0 /\ a[4] = 0
      /\ b[1] = 70 /\ b[2] = 55
  BY DEF Byte
<1> HIDE DEF a, b
<1>5. /\ a \o b \in Seq(Byte) /\ Len(a \o b) = Len(a) + Len(b)
      /\ \A i \in 1..(Len(a) + Len(b)) :
           (a \o b)[i] = IF i <= Len(a) THEN a[i] ELSE b[i - Len(a)]
  <2>1. a \in Seq(Byte) /\ b \in Seq(Byte)
    BY <1>4
  <2> QED BY <2>1, ConcatProperties
<1> QED BY <1>3, <1>4, <1>5

(* What the device makes of a command. *)
LEMMA HandledOrRejected ==
  ASSUME NEW d \in DeviceType, NEW c \in CommandSet
  PROVE  \/ handle_command(d, c) = Rejected(d)
         \/ \E e \in DeviceType, body \in Seq(Byte) :
              /\ handle_command(d, c) = Handled(e, body)
              /\ e.mode \in {d.mode, "app"}
              /\ IF c.type = GET_CHIP_DES THEN body = description_body
                 ELSE Len(body) <= response_length(c.type)
<1> USE DEF GET_SYNC, GET_DEVICE, CHIP_ERASE, PROG_MULTI, GET_CRC, GET_OTP, GET_SN, GET_CHIP,
            GET_CHIP_DES, GET_WRITE_PTR, REBOOT
<1> DEFINE Fits(body) == IF c.type = GET_CHIP_DES THEN body = description_body
                         ELSE Len(body) <= response_length(c.type)
           Goal == \E e \in DeviceType, body \in Seq(Byte) :
                     /\ handle_command(d, c) = Handled(e, body)
                     /\ e.mode \in {d.mode, "app"} /\ Fits(body)
<1>1. NoBytes \in Seq(Byte) /\ Len(NoBytes) = 0
  BY NoBytesType
<1>2. c.type # GET_CHIP_DES => response_length(c.type) \in {0, 4}
  BY DEF response_length
<1>3. ASSUME NEW n \in Nat PROVE to_word(n) \in Seq(Byte) /\ Len(to_word(n)) = 4
  BY WordIsBytes DEF to_word
<1>4. ASSUME NEW body \in Seq(Byte), handle_command(d, c) = Handled(d, body), Fits(body)
      PROVE  Goal
  BY <1>4
<1>5. CASE c.type = GET_SYNC
  <2>1. Fits(NoBytes) /\ handle_command(d, c) = Handled(d, NoBytes)
    BY <1>1, <1>2, <1>5 DEF handle_command
  <2> QED BY <1>1, <1>4, <2>1
<1>6. CASE c.type = GET_DEVICE
  <2> DEFINE w == to_word(device_info(d, c.args[1]))
  <2>1. handle_command(d, c) = Handled(d, w) /\ response_length(c.type) = 4
    BY <1>6 DEF handle_command, response_length
  <2>2. w \in Seq(Byte) /\ Len(w) = 4
    BY <1>3, InfoIsNat
  <2> HIDE DEF w
  <2>3. Fits(w)
    BY <1>6, <2>1, <2>2
  <2> QED BY <1>4, <2>1, <2>2, <2>3
<1>7. CASE c.type = GET_CHIP
  <2> DEFINE w == << 9 >>
  <2>1. handle_command(d, c) = Handled(d, w) /\ response_length(c.type) = 4
    BY <1>7 DEF handle_command, response_length
  <2>2. w \in Seq(Byte) /\ Len(w) = 1
    BY DEF Byte
  <2> HIDE DEF w
  <2>3. Fits(w)
    BY <1>7, <2>1, <2>2
  <2> QED BY <1>4, <2>1, <2>2, <2>3
<1>8. CASE c.type = GET_CHIP_DES
  <2>1. handle_command(d, c) = Handled(d, description_body) /\ Fits(description_body)
    BY <1>8 DEF handle_command, description_body
  <2> QED BY <1>4, <2>1, Described
<1>9. CASE c.type = GET_OTP
  <2> DEFINE w == << 255, 255, 255, 255 >>
  <2>1. handle_command(d, c) = Handled(d, w) /\ response_length(c.type) = 4
    BY <1>9 DEF handle_command, response_length
  <2>2. w \in Seq(Byte) /\ Len(w) = 4
    BY DEF Byte
  <2> HIDE DEF w
  <2>3. Fits(w)
    BY <1>9, <2>1, <2>2
  <2> QED BY <1>4, <2>1, <2>2, <2>3
<1>10. CASE c.type = GET_SN
  <2> DEFINE w == serial_number_word(c.args[1])
  <2>1. handle_command(d, c) = Handled(d, w) /\ response_length(c.type) = 4
    BY <1>10 DEF handle_command, response_length
  <2>2. c.args[1] \in 0..252
    BY <1>10 DEF CommandSet
  <2>3. w \in Seq(Byte) /\ Len(w) = 4
    BY <2>2 DEF serial_number_word, Byte
  <2> HIDE DEF w
  <2>4. Fits(w)
    BY <1>10, <2>1, <2>3
  <2> QED BY <1>4, <2>1, <2>3, <2>4
<1>11. CASE c.type = GET_CRC
  <2> DEFINE w == to_word(Crc(d.flash, 0))
  <2>1. handle_command(d, c) = Handled(d, w) /\ response_length(c.type) = 4
    BY <1>11 DEF handle_command, response_length
  <2>2. w \in Seq(Byte) /\ Len(w) = 4
    BY <1>3, CrcAssumption DEF DeviceType
  <2> HIDE DEF w
  <2>3. Fits(w)
    BY <1>11, <2>1, <2>2
  <2> QED BY <1>4, <2>1, <2>2, <2>3
<1>12. CASE c.type = GET_WRITE_PTR
  <2> DEFINE w == to_word(d.wptr)
  <2>1. handle_command(d, c) = Handled(d, w) /\ response_length(c.type) = 4
    BY <1>12 DEF handle_command, response_length
  <2>2. d.wptr \in Nat
    BY FlashSizeAssumption DEF DeviceType
  <2>3. w \in Seq(Byte) /\ Len(w) = 4
    BY <1>3, <2>2
  <2> HIDE DEF w
  <2>4. Fits(w)
    BY <1>12, <2>1, <2>3
  <2> QED BY <1>4, <2>1, <2>3, <2>4
<1>13. CASE c.type \in {CHIP_ERASE, PROG_MULTI, REBOOT}
  <2> DEFINE e == CASE c.type = CHIP_ERASE -> erase(d)
                    [] c.type = PROG_MULTI -> write_to_flash_memory(d, c.args)
                    [] OTHER -> [d EXCEPT !.mode = "app"]
  <2>1. handle_command(d, c) = Handled(e, NoBytes) /\ Fits(NoBytes)
    BY <1>1, <1>2, <1>13 DEF handle_command
  <2>2. handle_command(d, c).dev = e
    BY <2>1 DEF Handled
  <2>3. e \in DeviceType
    BY <2>2, CommandIsHandled
  <2>4. e.mode \in {d.mode, "app"}
    BY DEF erase, write_to_flash_memory, DeviceType
  <2> HIDE DEF e
  <2> QED BY <1>1, <2>1, <2>3, <2>4
<1>14. CASE c.type \notin {GET_SYNC, GET_DEVICE, CHIP_ERASE, PROG_MULTI, GET_CRC, GET_OTP,
                          GET_SN, GET_CHIP, GET_CHIP_DES, GET_WRITE_PTR, REBOOT}
  BY <1>14 DEF handle_command
<1> QED BY <1>5, <1>6, <1>7, <1>8, <1>9, <1>10, <1>11, <1>12, <1>13, <1>14

(* A command changes nothing that its own answer depends on. *)
LEMMA SameAnswer ==
  ASSUME NEW d \in DeviceType, NEW c \in CommandSet
  PROVE  handle_command(handle_command(d, c).dev, c).reply = handle_command(d, c).reply
<1> USE DEF GET_SYNC, GET_DEVICE, CHIP_ERASE, PROG_MULTI, GET_CRC, GET_OTP, GET_SN, GET_CHIP,
            GET_CHIP_DES, GET_WRITE_PTR, REBOOT
<1>1. CASE c.type \in {CHIP_ERASE, PROG_MULTI, REBOOT}
  <2>1. \A e : handle_command(e, c).reply = reply_bytes(OK, NoBytes)
    BY <1>1 DEF handle_command, Handled
  <2> QED BY <2>1
<1>2. CASE c.type \notin {CHIP_ERASE, PROG_MULTI, REBOOT}
  <2>1. handle_command(d, c).dev = d
    BY <1>2 DEF handle_command, Handled, Rejected
  <2> QED BY <2>1
<1> QED BY <1>1, <1>2

LEMMA RejectionIsReply ==
  ASSUME NEW d, NEW type PROVE ReplyTo(Rejected(d).reply, type)
<1>1. Rejected(d).reply = << IN_SYNC, INVALID >>
  BY RejectedIs
<1> DEFINE R == << IN_SYNC, INVALID >>
<1>2. R \in Seq(Byte) /\ Len(R) = 2 /\ R[1] = IN_SYNC
  BY DEF IN_SYNC, INVALID, Byte
<1>3. response_length(type) \in {-1, 0, 4}
  BY DEF response_length
<1> HIDE DEF R
<1>4. ReplyTo(R, type)
  <2>1. Len(R) - 1 = 1
    BY <1>2
  <2> QED BY <1>2, <1>3, <2>1 DEF ReplyTo
<1> QED BY <1>1, <1>4 DEF R

LEMMA AnswerIsReply ==
  ASSUME NEW d \in DeviceType, NEW c \in CommandSet
  PROVE  ReplyTo(handle_command(d, c).reply, c.type)
<1>1. CASE handle_command(d, c) = Rejected(d)
  BY <1>1, RejectionIsReply
<1>2. ASSUME NEW e \in DeviceType, NEW body \in Seq(Byte),
             handle_command(d, c) = Handled(e, body),
             IF c.type = GET_CHIP_DES THEN body = description_body
             ELSE Len(body) <= response_length(c.type)
      PROVE  ReplyTo(handle_command(d, c).reply, c.type)
  <2> DEFINE R == Handled(e, body).reply
  <2>1. /\ R = body \o << IN_SYNC, OK >> /\ R \in Seq(Byte) /\ Len(R) = Len(body) + 2
        /\ R[Len(R) - 1] = IN_SYNC
    BY HandledIs
  <2>2. Len(body) \in Nat
    BY LenProperties
  <2>3. CASE c.type = GET_CHIP_DES
    <3>1. response_length(c.type) = -1 /\ body = description_body
      BY <1>2, <2>3
      DEF response_length, GET_CHIP_DES, GET_CRC, GET_OTP, GET_SN, GET_DEVICE, GET_CHIP,
          GET_WRITE_PTR
    <3>2. Len(R) = 8
      BY <2>1, <3>1, Described
    <3>3. R[1] = 2 /\ R[4] = 0
      BY <2>1, <3>1, Described
    <3>4. \A i \in 5..8 : R[i] # 0
      <4>1. body[5] = 70 /\ body[6] = 55
        BY <3>1, Described
      <4>2. R[5] = body[5] /\ R[6] = body[6] /\ R[7] = IN_SYNC /\ R[8] = OK
        BY <2>1, <3>1, Described
      <4> QED BY <4>1, <4>2 DEF IN_SYNC, OK
    <3> HIDE DEF R
    <3>5. ReplyTo(R, c.type)
      BY <2>1, <3>1, <3>2, <3>3, <3>4 DEF ReplyTo
    <3> QED BY <1>2, <3>5 DEF R
  <2>4. CASE c.type # GET_CHIP_DES
    <3>1. response_length(c.type) \in {0, 4} /\ Len(body) <= response_length(c.type)
      BY <1>2, <2>4 DEF response_length
    <3> HIDE DEF R
    <3>2. ReplyTo(R, c.type)
      BY <2>1, <2>2, <3>1 DEF ReplyTo
    <3> QED BY <1>2, <3>2 DEF R
  <2> QED BY <2>3, <2>4
<1> QED BY <1>1, <1>2, HandledOrRejected

------------------------------------------------------------------------------
(* What the operations of the Protocol object do to a well-formed object.  *)

LEMMA ResetIsIdle ==
  ASSUME NEW p, WellFormed(p)
  PROVE  WellFormed(reset(p)) /\ ~in_sync(reset(p))
BY NoBytesType DEF WellFormed, ProtocolType, ProtocolState, reset, in_sync

LEMMA SendWaits ==
  ASSUME NEW p, WellFormed(p), NEW type
  PROVE  /\ WellFormed(send(p, type)) /\ ~in_sync(send(p, type))
         /\ WellFormed(send_failed(send(p, type))) /\ ~in_sync(send_failed(send(p, type)))
<1>1. response_length(type) \in Int /\ p \in ProtocolType
  BY DEF response_length, WellFormed
<1>2. WellFormed(send(p, type)) /\ send(p, type).state \in Waiting
  BY <1>1, StartWaiting DEF send
<1> DEFINE q == send(p, type)
<1> HIDE DEF q
<1>3. WellFormed(q) => WellFormed(send_failed(q)) /\ ~in_sync(send_failed(q))
  BY DEF WellFormed, ProtocolType, ProtocolState, send_failed, in_sync
<1> QED BY <1>2, <1>3 DEF q, Waiting, in_sync

LEMMA FeedKeeps ==
  ASSUME NEW p, WellFormed(p), NEW data \in Seq(Byte)
  PROVE  WellFormed(feed(p, data)) /\ (in_sync(feed(p, data)) <=> in_sync(p))
<1>1. p.buffer \o data \in Seq(Byte) /\ TRUE \in BOOLEAN
  BY ConcatProperties DEF WellFormed, ProtocolType
<1>2. CASE data = NoBytes
  BY <1>2 DEF feed, WellFormed, ProtocolType, in_sync
<1>3. CASE data # NoBytes
  BY <1>1, <1>3 DEF feed, WellFormed, ProtocolType, in_sync
<1> QED BY <1>2, <1>3

------------------------------------------------------------------------------
(* The inductive invariant. *)

CallType ==
  [cmd : CommandSet, left : Nat, sent : BOOLEAN,
   status : {"idle", "running", "returned"} \union Errors, payload : Seq(Byte)]

CallOK == WellFormed(proto) /\ call \in CallType

LinkOK == toDev \in Seq(CommandSet) /\ toHost \in Seq(Seq(Byte)) /\ dev \in DeviceType

(* Once the command of a call was sent, the object is in sync again only   *)
(* when the call has its reply: every other way to end the wait gives up   *)
(* sync.  That is why the call never finds itself in sync with the command *)
(* sent.                                                                   *)
SyncMeansReplied == call.status = "running" /\ call.sent => ~in_sync(proto)

ConnInv == CallOK /\ LinkOK /\ SyncMeansReplied /\ NeverInvalidState

LEMMA GetSyncIsCommand == GetSync \in CommandSet
BY DEF GetSync, Command, CommandSet, GET_SYNC, PROG_MULTI, GET_SN, Byte

LEMMA RebootIsCommand == RebootPacket \in CommandSet
BY DEF RebootPacket, Command, CommandSet, MAVLINK_REBOOT, PROG_MULTI, GET_SN, Byte

LEMMA UpcomingIsSound ==
  ASSUME CallOK
  PROVE  /\ WellFormed(Upcoming.proto) /\ Upcoming.event \in EventType
         /\ Upcoming.event.type # "Response" => (in_sync(Upcoming.proto) <=> in_sync(proto))
BY NextEventReturns DEF CallOK, Upcoming, in_sync

LEMMA RetryKeeps ==
  ASSUME NEW c \in CallType, NEW error \in Errors
  PROVE  /\ RetryOr(error, c) \in CallType
         /\ RetryOr(error, c).sent = c.sent /\ RetryOr(error, c).cmd = c.cmd
         /\ RetryOr(error, c).status \in {error, c.status}
<1>1. CASE c.left = 0
  BY <1>1 DEF RetryOr, CallType
<1>2. CASE c.left # 0
  <2>1. c.left - 1 \in Nat
    BY <1>2 DEF CallType
  <2> QED BY <1>2, <2>1 DEF RetryOr, CallType
<1> QED BY <1>1, <1>2

(* A reply ends the call, unless it only restores sync. *)
LEMMA AnswerKeeps ==
  ASSUME NEW c \in CallType, NEW reply \in EventType
  PROVE  /\ Answer(c, reply) \in CallType /\ Answer(c, reply).cmd = c.cmd
         /\ \/ Answer(c, reply) = c /\ ~c.sent
            \/ Answer(c, reply).status \in {"rejected", "returned"}
<1>1. reply.payload \in Seq(Byte)
  BY DEF EventType
<1>2. CASE reply.code # OK
  BY <1>2 DEF Answer, CallType, Errors
<1>3. CASE reply.code = OK /\ c.sent
  BY <1>1, <1>3 DEF Answer, CallType
<1>4. CASE reply.code = OK /\ ~c.sent
  BY <1>4 DEF Answer
<1> QED BY <1>2, <1>3, <1>4

------------------------------------------------------------------------------
(* The steps of the uploader. *)

HostKept == CallOK' /\ SyncMeansReplied' /\ NeverInvalidState'
              /\ toDev' \in Seq(CommandSet) /\ toHost' \in Seq(Seq(Byte))

LEMMA SendKeeps == ASSUME ConnInv, Send PROVE HostKept
<1> USE DEF ConnInv
<1>1. /\ WellFormed(Upcoming.proto)
      /\ in_sync(Upcoming.proto) <=> in_sync(proto)
      /\ call \in CallType /\ call.status = "running"
  BY UpcomingIsSound DEF Send, OurTurn, Iterating, CallOK
<1>2. ~(in_sync(Upcoming.proto) /\ call.sent)
  BY <1>1 DEF SyncMeansReplied
<1>3. /\ call' = [call EXCEPT !.sent = sent_now]
      /\ proto' = send(Upcoming.proto, CommandToSend.type)
      /\ toDev' = Append(toDev, CommandToSend)
      /\ toHost' = toHost
  BY <1>2 DEF Send
<1>4. CommandToSend \in CommandSet
  BY <1>1, GetSyncIsCommand DEF CommandToSend, CallType
<1>5. toDev' \in Seq(CommandSet)
  BY <1>3, <1>4, AppendProperties DEF LinkOK
<1>6. WellFormed(proto') /\ ~in_sync(proto')
  BY <1>1, <1>3, SendWaits
<1>7. call' \in CallType /\ call'.status = "running"
  <2>1. sent_now \in BOOLEAN
    BY DEF sent_now, in_sync
  <2> HIDE DEF sent_now
  <2> QED BY <1>1, <1>3, <2>1 DEF CallType
<1> QED
  BY <1>3, <1>5, <1>6, <1>7 DEF HostKept, CallOK, SyncMeansReplied, NeverInvalidState, LinkOK

LEMMA SendRaisesKeeps == ASSUME ConnInv, SendRaises PROVE HostKept
<1> USE DEF ConnInv
<1> DEFINE c == [call EXCEPT !.sent = FALSE]
<1>1. WellFormed(Upcoming.proto) /\ call \in CallType /\ call.status = "running"
  BY UpcomingIsSound DEF SendRaises, OurTurn, Iterating, CallOK
<1>2. /\ proto' = send_failed(send(Upcoming.proto, CommandToSend.type))
      /\ call' = RetryOr("io", c)
      /\ UNCHANGED << toDev, toHost >>
  BY DEF SendRaises
<1>3. WellFormed(proto') /\ ~in_sync(proto')
  BY <1>1, <1>2, SendWaits
<1>4. c \in CallType /\ c.status = "running"
  BY <1>1 DEF CallType
<1>5. call' \in CallType /\ call'.status \in {"io", "running"}
  <2> HIDE DEF c
  <2>1. "io" \in Errors
    BY DEF Errors
  <2> QED BY <1>2, <1>4, <2>1, RetryKeeps
<1> QED
  BY <1>2, <1>3, <1>5 DEF HostKept, CallOK, SyncMeansReplied, NeverInvalidState, LinkOK

LEMMA ReceiveKeeps ==
  ASSUME ConnInv, Receive \/ ReceiveNothing \/ ReceiveRaises PROVE HostKept
<1> USE DEF ConnInv
<1>1. /\ WellFormed(Upcoming.proto)
      /\ in_sync(Upcoming.proto) <=> in_sync(proto)
      /\ call \in CallType /\ call.status = "running"
  BY UpcomingIsSound DEF Receive, ReceiveNothing, ReceiveRaises, Iterating, CallOK
<1>2. toHost' \in Seq(Seq(Byte)) /\ toDev' = toDev
  <2>1. /\ \/ toHost # << >> /\ toHost' = Tail(toHost)
           \/ toHost' = toHost
        /\ toDev' = toDev
    BY DEF Receive, ReceiveNothing, ReceiveRaises
  <2>2. toHost # << >> => Tail(toHost) \in Seq(Seq(Byte))
    BY HeadTailProperties DEF LinkOK
  <2> QED BY <2>1, <2>2 DEF LinkOK
<1>3. WellFormed(proto') /\ (in_sync(proto') <=> in_sync(proto))
  <2>1. \/ proto' = Upcoming.proto
        \/ toHost # << >> /\ proto' = feed(Upcoming.proto, Head(toHost))
        \/ proto' = feed(Upcoming.proto, NoBytes)
    BY DEF Receive, ReceiveNothing, ReceiveRaises
  <2>2. toHost # << >> => Head(toHost) \in Seq(Byte)
    BY HeadTailProperties, EmptySeq DEF LinkOK
  <2>3. NoBytes \in Seq(Byte)
    BY NoBytesType
  <2> QED BY <1>1, <2>1, <2>2, <2>3, FeedKeeps
<1>4. \/ call' = call
      \/ \E error \in {"io", "closed"} : call' = [call EXCEPT !.status = error]
  BY DEF Receive, ReceiveNothing, ReceiveRaises
<1>5. call' \in CallType /\ (call' = call \/ call'.status \in {"io", "closed"})
  BY <1>1, <1>4 DEF CallType, Errors
<1> QED
  BY <1>1, <1>2, <1>3, <1>5
  DEF HostKept, CallOK, SyncMeansReplied, NeverInvalidState, LinkOK

(* Whatever is wrong with the reply, sync is given up. *)
LEMMA GivingUpKeeps ==
  ASSUME ConnInv, TimeOutInTime \/ TimeOutEarly \/ OnExcessData PROVE HostKept
<1> USE DEF ConnInv
<1>1. WellFormed(Upcoming.proto) /\ call \in CallType /\ call.status = "running"
  BY UpcomingIsSound DEF TimeOutInTime, TimeOutEarly, TimeOut, OnExcessData, Iterating, CallOK
<1>2. PICK error \in {"timeout", "excess"} : call' = RetryOr(error, call)
  BY DEF TimeOutInTime, TimeOutEarly, TimeOut, OnExcessData
<1>3. proto' = reset(Upcoming.proto) /\ UNCHANGED << toDev, toHost >>
  BY DEF TimeOutInTime, TimeOutEarly, TimeOut, OnExcessData
<1>4. WellFormed(proto') /\ ~in_sync(proto')
  BY <1>1, <1>3, ResetIsIdle
<1>5. call' \in CallType /\ call'.status \in {error, "running"}
  <2>1. error \in Errors
    BY DEF Errors
  <2> QED BY <1>1, <1>2, <2>1, RetryKeeps
<1> QED
  BY <1>3, <1>4, <1>5 DEF HostKept, CallOK, SyncMeansReplied, NeverInvalidState, LinkOK

LEMMA EndingKeeps ==
  ASSUME ConnInv, OnResponse \/ OnConnectionClosed PROVE HostKept
<1> USE DEF ConnInv
<1>1. /\ WellFormed(Upcoming.proto) /\ Upcoming.event \in EventType
      /\ call \in CallType /\ call.status = "running"
  BY UpcomingIsSound DEF OnResponse, OnConnectionClosed, Iterating, CallOK
<1>2. proto' = Upcoming.proto /\ UNCHANGED << toDev, toHost >>
  BY DEF OnResponse, OnConnectionClosed
<1>3. /\ call' \in CallType
      /\ \/ call' = call /\ ~call.sent
         \/ call'.status \in {"rejected", "returned", "closed"}
  <2>1. CASE OnResponse
    <3>1. call' = Answer(call, Upcoming.event)
      BY <2>1 DEF OnResponse
    <3> QED BY <1>1, <3>1, AnswerKeeps
  <2>2. CASE OnConnectionClosed
    BY <1>1, <2>2 DEF OnConnectionClosed, CallType, Errors
  <2> QED BY <2>1, <2>2
<1> QED
  BY <1>1, <1>2, <1>3 DEF HostKept, CallOK, SyncMeansReplied, NeverInvalidState, LinkOK

LEMMA HostKeeps == ASSUME ConnInv, Host PROVE ConnInv'
<1>1. HostKept
  BY SendKeeps, SendRaisesKeeps, ReceiveKeeps, GivingUpKeeps, EndingKeeps DEF Host
<1>2. dev' = dev
  BY DEF Host, Send, SendRaises, Receive, ReceiveNothing, ReceiveRaises, TimeOutInTime,
         TimeOutEarly, TimeOut, OnResponse, OnExcessData, OnConnectionClosed
<1> QED BY <1>1, <1>2 DEF HostKept, ConnInv, LinkOK

------------------------------------------------------------------------------
(* The steps of the device, of the link and of the client. *)

LEMMA DeviceKeeps ==
  ASSUME ConnInv, DeviceStep \/ DeviceRejects \/ DeviceBoots \/ SendHeartbeat PROVE LinkOK'
<1> USE DEF ConnInv, LinkOK
<1>1. toDev # << >> => Head(toDev) \in CommandSet /\ Tail(toDev) \in Seq(CommandSet)
  BY HeadTailProperties
<1>2. \A piece \in Seq(Byte) : Append(toHost, piece) \in Seq(Seq(Byte))
  BY AppendProperties
<1>3. CASE DeviceStep
  <2> DEFINE done == deliver(dev, Head(toDev))
  <2>1. done.dev \in DeviceType /\ done.reply \in Seq(Byte)
    BY <1>1, <1>3, Delivered DEF DeviceStep
  <2>2. /\ dev' = done.dev /\ toDev' = Tail(toDev) /\ toDev # << >>
        /\ toHost' = IF done.reply = NoBytes THEN toHost ELSE Append(toHost, done.reply)
    BY <1>3 DEF DeviceStep
  <2> HIDE DEF done
  <2> QED BY <1>1, <1>2, <2>1, <2>2
<1>4. CASE DeviceRejects
  <2>1. Rejected(dev).reply \in Seq(Byte)
    <3>1. INVALID \in Byte /\ NoBytes \in Seq(Byte)
      BY NoBytesType DEF INVALID, Byte
    <3> QED BY <3>1, ReplyIsBytes DEF Rejected
  <2> QED BY <1>1, <1>2, <1>4, <2>1 DEF DeviceRejects
<1>5. CASE DeviceBoots
  <2>1. 0 \in 0..FlashSize
    BY FlashSizeAssumption
  <2>2. boot(dev) \in DeviceType
    BY <2>1 DEF boot, DeviceType
  <2> QED BY <1>5, <2>2 DEF DeviceBoots, linkVars
<1>6. CASE SendHeartbeat
  <2>1. Heartbeat \in Seq(Byte)
    BY DEF Heartbeat, Byte
  <2> QED BY <1>2, <1>6, <2>1 DEF SendHeartbeat
<1> QED BY <1>3, <1>4, <1>5, <1>6

LEMMA LinkKeeps ==
  ASSUME ConnInv, LoseCommand \/ LoseReply \/ SplitReply PROVE LinkOK'
<1> USE DEF ConnInv, LinkOK
<1>1. toDev # << >> => Tail(toDev) \in Seq(CommandSet)
  BY HeadTailProperties
<1>2. toHost # << >> => Head(toHost) \in Seq(Byte) /\ Tail(toHost) \in Seq(Seq(Byte))
  BY HeadTailProperties
<1>3. CASE LoseCommand
  BY <1>1, <1>3 DEF LoseCommand
<1>4. CASE LoseReply
  BY <1>2, <1>4 DEF LoseReply
<1>5. CASE SplitReply
  <2>1. PICK n \in 1..(Len(Head(toHost)) - 1) :
          toHost' = << SubSeq(Head(toHost), 1, n), drop(Head(toHost), n) >> \o Tail(toHost)
    BY <1>5 DEF SplitReply
  <2>2. Head(toHost) \in Seq(Byte) /\ Tail(toHost) \in Seq(Seq(Byte))
    BY <1>2, <1>5 DEF SplitReply
  <2>3. n \in 0..Len(Head(toHost))
    BY <2>2, LenProperties
  <2> DEFINE a == SubSeq(Head(toHost), 1, n)
             b == drop(Head(toHost), n)
  <2>4. a \in Seq(Byte) /\ b \in Seq(Byte)
    BY <2>2, <2>3, Cut
  <2> HIDE DEF a, b
  <2>5. << a, b >> \in Seq(Seq(Byte))
    BY <2>4
  <2>6. << a, b >> \o Tail(toHost) \in Seq(Seq(Byte))
    BY <2>2, <2>5, ConcatProperties
  <2> QED BY <1>5, <2>1, <2>6 DEF SplitReply, a, b
<1> QED BY <1>3, <1>4, <1>5

LEMMA EnvironmentKeeps == ASSUME ConnInv, Environment PROVE ConnInv'
<1>1. LinkOK'
  BY DeviceKeeps, LinkKeeps DEF Environment
<1>2. UNCHANGED << proto, call >>
  BY DEF Environment, DeviceStep, DeviceRejects, DeviceBoots, SendHeartbeat, LoseCommand,
         LoseReply, SplitReply
<1> QED BY <1>1, <1>2 DEF ConnInv, CallOK, SyncMeansReplied, NeverInvalidState

LEMMA ClientKeeps == ASSUME ConnInv, AnyClient PROVE ConnInv'
<1> USE DEF ConnInv
<1>1. CASE \E cmd \in ClientCommands, n \in Nat : Call(cmd, n) \/ RebootAndCall(cmd, n)
  <2>1. PICK cmd \in ClientCommands, n \in Nat : Call(cmd, n) \/ RebootAndCall(cmd, n)
    BY <1>1
  <2>2. cmd \in CommandSet /\ n \in Nat
    BY ClientsSendCommands
  <2>3. call' \in CallType /\ call'.status = "running" /\ ~call'.sent
    <3>1. call' = NewCall(cmd, n)
      BY <2>1 DEF Call, RebootAndCall, Begin
    <3>2. NewCall(cmd, n) \in CallType
      BY <2>2, NoBytesType DEF NewCall, CallType
    <3> QED BY <3>1, <3>2 DEF NewCall
  <2>4. /\ UNCHANGED << proto, toHost, dev >>
        /\ toDev' \in {toDev, Append(toDev, RebootPacket)}
    BY <2>1 DEF Call, RebootAndCall, linkVars
  <2>5. toDev' \in Seq(CommandSet)
    BY <2>4, RebootIsCommand, AppendProperties DEF LinkOK
  <2> QED BY <2>3, <2>4, <2>5 DEF CallOK, LinkOK, SyncMeansReplied, NeverInvalidState
<1>2. CASE Abandon
  <2>1. call' \in CallType /\ call'.status = "idle"
    BY <1>2 DEF Abandon, CallOK, CallType
  <2> QED
    BY <1>2, <2>1
    DEF Abandon, linkVars, CallOK, LinkOK, SyncMeansReplied, NeverInvalidState
<1> QED BY <1>1, <1>2 DEF AnyClient

LEMMA InitHolds == OpenInit => ConnInv
<1> SUFFICES ASSUME OpenInit PROVE ConnInv
  OBVIOUS
<1>1. WellFormed(proto)
  BY NoBytesType DEF OpenInit, ConnInit, NewProtocol, WellFormed, ProtocolType, ProtocolState
<1>2. call \in CallType /\ call.status = "idle"
  BY NoBytesType, GetSyncIsCommand DEF OpenInit, ConnInit, NoCall, NewCall, CallType
<1>3. toDev \in Seq(CommandSet) /\ toHost \in Seq(Seq(Byte))
  BY EmptySeq DEF OpenInit, ConnInit
<1>4. dev \in DeviceType
  BY DEF OpenInit
<1> QED BY <1>1, <1>2, <1>3, <1>4 DEF ConnInv, CallOK, LinkOK, SyncMeansReplied, NeverInvalidState

LEMMA OpenNextKeeps == ASSUME ConnInv, [OpenNext]_connVars PROVE ConnInv'
<1>1. CASE UNCHANGED connVars
  BY <1>1 DEF connVars, ConnInv, CallOK, LinkOK, SyncMeansReplied, NeverInvalidState
<1> QED BY <1>1, HostKeeps, EnvironmentKeeps, ClientKeeps DEF OpenNext

(* _process_command_inner never raises "invalid state": whatever the link  *)
(* does to commands and replies, the loop never finds itself in sync after *)
(* it has sent the command and has no reply.                               *)
THEOREM InvalidStateIsNeverMet == OpenSpec => []NeverInvalidState
<1>1. OpenSpec => []ConnInv
  BY InitHolds, OpenNextKeeps, PTL DEF OpenSpec
<1> QED BY <1>1, PTL DEF ConnInv

------------------------------------------------------------------------------
(* The rest of the types: the counters. *)

CountersOK ==
  faults \in [count : 0..MaxFaults, disturbing : BOOLEAN] /\ executed \in Nat

LEMMA FaultIsCounted ==
  ASSUME CountersOK, NEW kind, Fault(kind)
  PROVE  faults' \in [count : 0..MaxFaults, disturbing : BOOLEAN]
<1>1. faults.count + 1 \in 0..MaxFaults
  BY FaultsAssumption DEF CountersOK, Fault
<1>2. (faults.disturbing \/ kind \in {"late", "heartbeat"}) \in BOOLEAN
  BY Zenon
<1> QED BY <1>1, <1>2 DEF Fault

LEMMA CountersAreKept == ASSUME CountersOK, [OpenNext]_connVars PROVE CountersOK'
<1>1. faults' \in [count : 0..MaxFaults, disturbing : BOOLEAN]
  <2>1. CASE DeviceStep
    <3>1. (faults.disturbing \/ Stray(Head(toDev))) \in BOOLEAN
      BY Zenon
    <3>2. faults' = [faults EXCEPT !.disturbing = faults.disturbing \/ Stray(Head(toDev))]
      BY <2>1 DEF DeviceStep
    <3> QED BY <3>1, <3>2 DEF CountersOK
  <2>2. CASE ~DeviceStep
    <3>1. faults' = faults \/ \E kind \in FaultKinds : Fault(kind)
      BY <2>2 DEF OpenNext, AnyClient, Host, Environment, Call, RebootAndCall, Abandon, connVars,
             linkVars, FaultKinds, Send, SendRaises, Receive, ReceiveNothing, ReceiveRaises,
             TimeOutInTime, TimeOutEarly, TimeOut, OnResponse, OnExcessData,
             OnConnectionClosed, DeviceRejects, DeviceBoots, SendHeartbeat,
             LoseCommand, LoseReply, SplitReply
    <3> QED BY <3>1, FaultIsCounted DEF CountersOK
  <2> QED BY <2>1, <2>2
<1>2. executed' \in Nat
  <2>1. executed' \in {executed, executed + 1, 0}
    BY DEF OpenNext, AnyClient, Host, Environment, Call, RebootAndCall, Abandon, Begin,
           connVars, linkVars, Send, SendRaises, Receive, ReceiveNothing, ReceiveRaises,
           TimeOutInTime, TimeOutEarly, TimeOut, OnResponse, OnExcessData,
           OnConnectionClosed, DeviceStep, DeviceRejects, DeviceBoots, SendHeartbeat,
           LoseCommand, LoseReply, SplitReply
  <2> QED BY <2>1 DEF CountersOK
<1> QED BY <1>1, <1>2 DEF CountersOK

LEMMA CommandsAreTyped ==
  ASSUME NEW s \in Seq(CommandSet) PROVE s \in Seq([type : Byte, args : Seq(Nat)])
<1>1. CommandSet \subseteq [type : Byte, args : Seq(Nat)]
  BY DEF CommandSet
<1> QED BY <1>1, SeqMonotonic

LEMMA InvIsTyped == ASSUME ConnInv, CountersOK PROVE ConnTypeOK
<1>1. toDev \in Seq([type : Byte, args : Seq(Nat)])
  BY CommandsAreTyped DEF ConnInv, LinkOK
<1>2. call \in [cmd : [type : Byte, args : Seq(Nat)], left : Nat, sent : BOOLEAN,
                status : {"idle", "running", "returned"} \union Errors,
                payload : Seq(Byte)]
  <2>1. CommandSet \subseteq [type : Byte, args : Seq(Nat)]
    BY DEF CommandSet
  <2> QED BY <2>1 DEF ConnInv, CallOK, CallType
<1>3. proto \in ProtocolType /\ toHost \in Seq(Seq(Byte)) /\ dev \in DeviceType
  BY DEF ConnInv, CallOK, LinkOK, WellFormed
<1> QED BY <1>1, <1>2, <1>3 DEF CountersOK, ConnTypeOK

(* The connection, its link and the device keep their types: in particular *)
(* _process_command_inner never counts its retries below zero, replies are *)
(* bytes, and the write pointer of the device never leaves the flash.      *)
THEOREM ConnectionTypesCorrect == OpenSpec => []ConnTypeOK
<1>1. OpenInit => CountersOK
  BY FaultsAssumption DEF OpenInit, ConnInit, CountersOK
<1>2. OpenSpec => []CountersOK
  BY <1>1, CountersAreKept, PTL DEF OpenSpec
<1>3. OpenSpec => []ConnInv
  BY InitHolds, OpenNextKeeps, PTL DEF OpenSpec
<1> QED BY <1>2, <1>3, InvIsTyped, PTL

------------------------------------------------------------------------------
(* Replies without a length of their own are as long as their command      *)
(* promises, even where one is taken for the other.                        *)

Sent == call.status = "running" /\ call.sent

AnswerIsFramed ==
  call.status = "returned" /\ response_length(call.cmd.type) >= 0 =>
    Len(call.payload) = response_length(call.cmd.type)

FrameOK ==
  /\ Sent /\ proto.state \in Waiting =>
       \E H \in Seq(Byte) : Awaits(proto, call.cmd.type, H)
  /\ AnswerIsFramed

LEMMA SendingFrames == ASSUME ConnInv, Send PROVE FrameOK'
<1>1. /\ WellFormed(proto) /\ Upcoming = next_event(proto)
      /\ call \in CallType /\ call.status = "running" /\ Upcoming.event.type = "None"
  BY DEF ConnInv, CallOK, Upcoming, Send, OurTurn, Iterating
<1>2. Upcoming.proto = proto /\ proto.payload = NoBytes /\ proto.buffer = NoBytes
  BY <1>1, NextEventReturns
<1>3. /\ call' = [call EXCEPT !.sent = sent_now]
      /\ proto' = send(proto, CommandToSend.type)
  <2>1. ~(in_sync(Upcoming.proto) /\ call.sent)
    BY <1>1, <1>2 DEF ConnInv, SyncMeansReplied
  <2> QED BY <1>2, <2>1 DEF Send
<1>4. /\ call'.status = "running" /\ call'.cmd = call.cmd
      /\ call'.sent = in_sync(Upcoming.proto)
  BY <1>1, <1>3 DEF CallType, sent_now
<1>5. ASSUME Sent' PROVE Awaits(proto', call'.cmd.type, NoBytes)
  <2>1. CommandToSend = call'.cmd
    BY <1>4, <1>5 DEF Sent, CommandToSend
  <2>2. Awaits(send(proto, call'.cmd.type), call'.cmd.type, NoBytes)
    BY <1>1, <1>2, SendingAwaits
  <2> QED BY <1>3, <2>1, <2>2
<1> QED BY <1>4, <1>5, NoBytesType DEF FrameOK, AnswerIsFramed

LEMMA ReceivingFrames ==
  ASSUME ConnInv, FrameOK, Receive \/ ReceiveNothing \/ ReceiveRaises PROVE FrameOK'
<1>1. /\ WellFormed(proto) /\ Upcoming = next_event(proto)
      /\ call \in CallType /\ call.status = "running"
      /\ Upcoming.event.type = "NeedMoreData"
  BY DEF ConnInv, CallOK, Upcoming, Receive, ReceiveNothing, ReceiveRaises, Iterating
<1>2. WellFormed(Upcoming.proto)
  BY <1>1, NextEventReturns
<1>3. \A type : \A H \in Seq(Byte) :
        Awaits(proto, type, H) =>
          (H \o Header(proto)) \in Seq(Byte) /\ Awaits(Upcoming.proto, type, H \o Header(proto))
  BY <1>1, WaitGoesOn
<1>4. \A type, H : Awaits(Upcoming.proto, type, H) => Awaits(proto', type, H)
  <2>1. \/ proto' = Upcoming.proto
        \/ toHost # << >> /\ proto' = feed(Upcoming.proto, Head(toHost))
        \/ proto' = feed(Upcoming.proto, NoBytes)
    BY DEF Receive, ReceiveNothing, ReceiveRaises
  <2>2. toHost # << >> => Head(toHost) \in Seq(Byte)
    BY HeadTailProperties, EmptySeq DEF ConnInv, LinkOK
  <2> QED BY <1>2, <2>1, <2>2, NoBytesType, FeedingAwaits
<1>5. \/ call' = call
      \/ \E error \in {"io", "closed"} : call' = [call EXCEPT !.status = error]
  BY DEF Receive, ReceiveNothing, ReceiveRaises
<1>6. CASE call' # call
  <2>1. call'.status \in {"io", "closed"}
    BY <1>1, <1>5, <1>6 DEF CallType
  <2> QED BY <2>1 DEF FrameOK, AnswerIsFramed, Sent
<1>7. CASE call' = call
  <2>1. proto.state \in Waiting
    BY <1>1, WaitGoesOn
  <2> QED BY <1>1, <1>3, <1>4, <1>7, <2>1 DEF FrameOK, AnswerIsFramed, Sent
<1> QED BY <1>6, <1>7

(* After these the object waits for nothing, or the call is over. *)
LEMMA GivingUpFrames ==
  ASSUME ConnInv, SendRaises \/ TimeOutInTime \/ TimeOutEarly \/ OnExcessData \/ OnConnectionClosed
  PROVE  FrameOK'
<1>1. call \in CallType /\ WellFormed(Upcoming.proto)
  BY UpcomingIsSound DEF ConnInv, CallOK
<1>2. CASE SendRaises
  <2> DEFINE c == [call EXCEPT !.sent = FALSE]
  <2>1. call' = RetryOr("io", c) /\ c \in CallType /\ "io" \in Errors
    BY <1>1, <1>2 DEF SendRaises, CallType, Errors
  <2>2. ~c.sent /\ c.status = "running"
    BY <1>1, <1>2 DEF SendRaises, OurTurn, Iterating, CallType
  <2> HIDE DEF c
  <2> QED BY <2>1, <2>2, RetryKeeps DEF FrameOK, AnswerIsFramed, Sent
<1>3. CASE TimeOutInTime \/ TimeOutEarly \/ OnExcessData
  <2>1. PICK error \in {"timeout", "excess"} : call' = RetryOr(error, call)
    BY <1>3 DEF TimeOutInTime, TimeOutEarly, TimeOut, OnExcessData
  <2>2. proto' = reset(Upcoming.proto) /\ call.status = "running"
    BY <1>3 DEF TimeOutInTime, TimeOutEarly, TimeOut, OnExcessData, Iterating
  <2>3. proto'.state = "idle"
    BY <1>1, <2>2 DEF reset, WellFormed, ProtocolType
  <2>4. call'.status \in {error, "running"}
    BY <1>1, <2>1, <2>2, RetryKeeps DEF Errors
  <2> QED BY <2>3, <2>4 DEF FrameOK, AnswerIsFramed, Waiting
<1>4. CASE OnConnectionClosed
  BY <1>1, <1>4 DEF OnConnectionClosed, FrameOK, AnswerIsFramed, Sent, CallType
<1> QED BY <1>2, <1>3, <1>4

LEMMA AnsweringFrames == ASSUME ConnInv, FrameOK, OnResponse PROVE FrameOK'
<1>1. /\ WellFormed(proto) /\ Upcoming = next_event(proto)
      /\ call \in CallType /\ call.status = "running"
      /\ Upcoming.event.type = "Response"
      /\ proto' = Upcoming.proto /\ call' = Answer(call, Upcoming.event)
  BY DEF ConnInv, CallOK, Upcoming, OnResponse, Iterating
<1>2. /\ Upcoming.event \in EventType /\ proto.state \in Waiting
      /\ proto'.state \notin Waiting
      /\ Len(Upcoming.event.payload) = Promise(proto)
  BY <1>1, NextEventReturns DEF Waiting
<1>3. call'.cmd = call.cmd
  BY <1>1, <1>2, AnswerKeeps
<1>4. ASSUME call'.status = "returned", response_length(call'.cmd.type) >= 0
      PROVE  Len(call'.payload) = response_length(call'.cmd.type)
  <2>1. call.sent /\ call'.payload = Upcoming.event.payload
    BY <1>1, <1>4 DEF Answer, CallType
  <2>2. PICK H \in Seq(Byte) : Awaits(proto, call.cmd.type, H)
    BY <1>1, <1>2, <2>1 DEF FrameOK, Sent
  <2> QED BY <1>2, <1>3, <1>4, <2>1, <2>2 DEF Awaits
<1> QED BY <1>2, <1>4 DEF FrameOK, AnswerIsFramed

LEMMA FrameIsKept == ASSUME ConnInv, FrameOK, [OpenNext]_connVars PROVE FrameOK'
<1>1. CASE AnyClient
  <2>1. \/ \E cmd, n : call' = NewCall(cmd, n)
        \/ call' = [call EXCEPT !.status = "idle"]
    BY <1>1 DEF AnyClient, Call, RebootAndCall, Begin, Abandon
  <2>2. call'.status = "idle" \/ (call'.status = "running" /\ ~call'.sent)
    BY <2>1 DEF NewCall, ConnInv, CallOK, CallType
  <2> QED BY <2>2 DEF FrameOK, AnswerIsFramed, Sent
<1>2. CASE Host
  BY <1>2, SendingFrames, ReceivingFrames, GivingUpFrames, AnsweringFrames DEF Host
<1>3. CASE Environment \/ UNCHANGED connVars
  <2>1. UNCHANGED << proto, call >>
    BY <1>3 DEF Environment, DeviceStep, DeviceRejects, DeviceBoots, SendHeartbeat,
                LoseCommand, LoseReply, SplitReply, connVars
  <2> QED BY <2>1 DEF FrameOK, AnswerIsFramed, Sent
<1> QED BY <1>1, <1>2, <1>3 DEF OpenNext

LEMMA FramingBegins == OpenInit => FrameOK
BY DEF OpenInit, ConnInit, NoCall, NewCall, FrameOK, AnswerIsFramed, Sent

(* What a call returns for a query is a word of four bytes, for any other  *)
(* command nothing, however wrong the reply: struct.unpack never finds too *)
(* few bytes, whatever the link does.                                      *)
THEOREM ReturnedIsFramed == OpenSpec => []AnswerIsFramed
<1>1. OpenSpec => []ConnInv
  BY InitHolds, OpenNextKeeps, PTL DEF OpenSpec
<1>2. OpenSpec => []FrameOK
  BY <1>1, FramingBegins, FrameIsKept, PTL DEF OpenSpec
<1> QED BY <1>2, PTL DEF FrameOK

------------------------------------------------------------------------------
(* The order of a link that nobody disturbs: at any time either nothing is *)
(* under way but reboot packets that no bootloader sees, or the object     *)
(* waits for the one command whose answer is still to come or arriving.    *)

Reboots == Seq({RebootPacket})

Quiet ==
  /\ toHost = << >> /\ toDev \in Reboots
  /\ proto.buffer = NoBytes /\ proto.state \notin Waiting
  /\ in_sync(proto) => proto.payload = NoBytes /\ toDev = << >>

(* The command is on its way to the device. *)
Asked(c) ==
  /\ toHost = << >>
  /\ \E s \in Reboots : toDev = Append(s, c)
  /\ Awaits(proto, c.type, NoBytes) /\ Gathered(proto) = NoBytes

(* It is not: what is left of its reply R is on the link, behind what the  *)
(* object has of it.  A command that nobody answers counts as rejected by  *)
(* a reply of which nothing is left.                                       *)
Answering(c, R) ==
  /\ \E H \in Seq(Byte), k \in Nat :
       /\ Kept(H \o Gathered(proto), R, k) /\ PiecesOf(toHost, R, k)
       /\ Awaits(proto, c.type, H)
  /\ R # Rejected(dev).reply => dev.mode # "rebooting" /\ (Sent => executed > 0)

Answered(c) ==
  /\ toDev = << >>
  /\ Answering(c, handle_command(dev, c).reply) \/ Answering(c, Rejected(dev).reply)

Outstanding(c) ==
  /\ c.type # MAVLINK_REBOOT /\ (Sent => c = call.cmd)
  /\ Asked(c) \/ Answered(c)

Linked == Quiet \/ (proto.state \in Waiting /\ \E c \in CommandSet : Outstanding(c))

(* What the device answers a command at this moment. *)
answer_body(c) ==
  LET reply == handle_command(dev, c).reply
      body == SubSeq(reply, 1, Len(reply) - 2)
  IN  IF c.type = GET_CHIP_DES THEN drop(body, 4) ELSE body

ReturnsAreDone ==
  call.status = "returned" =>
    /\ executed > 0 /\ Quiet /\ in_sync(proto) /\ dev.mode # "rebooting"
    /\ call.payload = answer_body(call.cmd)

GivenUp == call.status \in {"timeout", "excess"} => Quiet /\ ~in_sync(proto)

Settled == Linked /\ ReturnsAreDone /\ GivenUp

NoRebootCall == call.cmd.type # MAVLINK_REBOOT

OrderInv == ConnInv /\ CountersOK /\ NoRebootCall /\ (~faults.disturbing => Settled)

------------------------------------------------------------------------------
(* The steps of the uploader. *)

LEMMA UpcomingProto == Upcoming = next_event(proto)
BY DEF Upcoming

LEMMA GetSyncIsNoReboot == GetSync.type # MAVLINK_REBOOT /\ RebootPacket.type = MAVLINK_REBOOT
BY DEF GetSync, RebootPacket, Command, GET_SYNC, MAVLINK_REBOOT

(* A call that does not end here. *)
LEMMA StillOpen ==
  ASSUME Linked', call'.status \notin {"returned", "timeout", "excess"}
  PROVE  Settled'
BY DEF Settled, ReturnsAreDone, GivenUp

LEMMA SendSettles == ASSUME OrderInv, Settled, Send PROVE Settled'
<1>1. /\ WellFormed(proto) /\ call \in CallType /\ call.status = "running"
      /\ Upcoming.event.type = "None" /\ SyncMeansReplied
  BY DEF OrderInv, ConnInv, CallOK, Send, OurTurn, Iterating
<1>2. /\ Upcoming.proto = proto /\ proto.state \notin Waiting
      /\ proto.payload = NoBytes /\ proto.buffer = NoBytes
  BY <1>1, NextEventReturns, UpcomingProto
<1>3. Quiet
  BY <1>2 DEF Settled, Linked
<1>4. ~(in_sync(Upcoming.proto) /\ call.sent)
  BY <1>1, <1>2 DEF SyncMeansReplied
<1> PICK c : c = CommandToSend
  OBVIOUS
<1>5. /\ call' = [call EXCEPT !.sent = sent_now] /\ proto' = send(proto, c.type)
      /\ toDev' = Append(toDev, c) /\ toHost' = toHost
  BY <1>2, <1>4 DEF Send
<1>6. c \in CommandSet /\ c.type # MAVLINK_REBOOT
  BY <1>1, GetSyncIsCommand, GetSyncIsNoReboot
  DEF CommandToSend, CallType, OrderInv, NoRebootCall
<1>7. call'.status = "running" /\ call'.cmd = call.cmd /\ (call'.sent <=> sent_now)
  BY <1>1, <1>5 DEF CallType
<1>8. Sent' => c = call'.cmd
  BY <1>2, <1>7 DEF Sent, sent_now, CommandToSend
<1>9. /\ Awaits(proto', c.type, NoBytes) /\ Gathered(proto') = NoBytes
      /\ proto'.state \in Waiting
  BY <1>1, <1>2, <1>5, SendingAwaits
<1>10. Asked(c)'
  <2>1. toHost' = << >> /\ toDev \in Reboots
    BY <1>3, <1>5 DEF Quiet
  <2> QED BY <1>5, <1>9, <2>1 DEF Asked, Reboots
<1>11. Linked'
  BY <1>6, <1>8, <1>9, <1>10 DEF Linked, Outstanding
<1> QED BY <1>7, <1>11, StillOpen

LEMMA SendRaisesSettles == ASSUME OrderInv, Settled, SendRaises PROVE Settled'
<1>1. /\ WellFormed(proto) /\ call \in CallType /\ call.status = "running"
      /\ Upcoming.event.type = "None"
  BY DEF OrderInv, ConnInv, CallOK, SendRaises, OurTurn, Iterating
<1>2. /\ Upcoming.proto = proto /\ proto.state \notin Waiting
      /\ proto.payload = NoBytes /\ proto.buffer = NoBytes
  BY <1>1, NextEventReturns, UpcomingProto
<1>3. Quiet
  BY <1>2 DEF Settled, Linked
<1> DEFINE q == send(proto, CommandToSend.type)
           c == [call EXCEPT !.sent = FALSE]
<1>4. /\ call' = RetryOr("io", c) /\ proto' = send_failed(q)
      /\ toDev' = toDev /\ toHost' = toHost
  BY <1>2 DEF SendRaises
<1>5. call'.status \in {"io", "running"}
  <2>1. c \in CallType /\ c.status = "running" /\ "io" \in Errors
    BY <1>1 DEF CallType, Errors
  <2> HIDE DEF c
  <2> QED BY <1>4, <2>1, RetryKeeps
<1>6. proto'.buffer = NoBytes /\ proto'.state = "error"
  <2>1. q \in ProtocolType /\ q.buffer = NoBytes
    <3>1. response_length(CommandToSend.type) \in Int /\ proto \in ProtocolType
      BY <1>1 DEF response_length, WellFormed
    <3>2. q \in ProtocolType /\ q.buffer = proto.buffer
      BY <3>1, StartWaiting DEF send, WellFormed
    <3> QED BY <1>2, <3>2
  <2> HIDE DEF q
  <2> QED BY <1>4, <2>1 DEF send_failed, ProtocolType
<1>7. Quiet'
  BY <1>3, <1>4, <1>6 DEF Quiet, Waiting, in_sync
<1> QED BY <1>5, <1>7, StillOpen DEF Linked


(* What a step may do to the object and the link while the call waits for  *)
(* more: take in the next piece, or drop it, or neither.                   *)
TakesIn ==
  LET p == Upcoming.proto IN
  \/ toHost' = toHost /\ (proto' = p \/ proto' = feed(p, NoBytes))
  \/ /\ toHost # << >> /\ toHost' = Tail(toHost)
     /\ proto' = p \/ proto' = feed(p, Head(toHost))

LEMMA AnsweringMoves ==
  ASSUME WellFormed(proto), Upcoming.event.type = "NeedMoreData", TakesIn,
         toHost \in Seq(Seq(Byte)), NEW c, NEW R \in Seq(Byte), Answering(c, R),
         dev' = dev, executed' = executed, Sent' => Sent
  PROVE  Answering(c, R)'
<1> DEFINE p == Upcoming.proto
<1>1. PICK H \in Seq(Byte), k \in Nat :
        /\ Kept(H \o Gathered(proto), R, k) /\ PiecesOf(toHost, R, k)
        /\ Awaits(proto, c.type, H)
  BY DEF Answering
<1>2. WellFormed(p) /\ Gathered(p) \in Seq(Byte)
  BY NextEventReturns, WaitGoesOn, UpcomingProto
<1>3. PICK N \in Seq(Byte) : Awaits(p, c.type, N) /\ H \o Gathered(proto) = N \o Gathered(p)
  BY <1>1, WaitGoesOn, UpcomingProto
<1>4. N \o Gathered(p) \in Seq(Byte) /\ Kept(N \o Gathered(p), R, k)
  BY <1>1, <1>2, <1>3, ConcatProperties
<1> HIDE DEF p
<1>5. ASSUME NEW data \in Seq(Byte), proto' = p \/ proto' = feed(p, data)
      PROVE  /\ Awaits(proto', c.type, N)
             /\ \/ N \o Gathered(proto') = N \o Gathered(p)
                \/ N \o Gathered(proto') = (N \o Gathered(p)) \o data
  <2>1. CASE proto' = p
    BY <1>3, <2>1
  <2>2. CASE proto' = feed(p, data)
    <3>1. Gathered(proto') = Gathered(p) \o data /\ Awaits(proto', c.type, N)
      BY <1>2, <1>3, <2>2, FeedingAwaits
    <3>2. (N \o Gathered(p)) \o data = N \o (Gathered(p) \o data)
      BY <1>2, Associative
    <3> QED BY <3>1, <3>2, Zenon
  <2> QED BY <1>5, <2>1, <2>2
<1>6. R # Rejected(dev').reply => dev'.mode # "rebooting" /\ (Sent' => executed' > 0)
  BY DEF Answering
<1>7. \E j \in Nat : /\ Kept(N \o Gathered(proto'), R, j) /\ PiecesOf(toHost', R, j)
                     /\ Awaits(proto', c.type, N)
  <2>1. CASE toHost' = toHost /\ (proto' = p \/ proto' = feed(p, NoBytes))
    <3>1. (N \o Gathered(p)) \o NoBytes = N \o Gathered(p) /\ NoBytes \in Seq(Byte)
      BY <1>4, NoBytesType
    <3>2. Awaits(proto', c.type, N) /\ N \o Gathered(proto') = N \o Gathered(p)
      BY <1>5, <2>1, <3>1, Zenon
    <3> QED BY <1>1, <1>4, <2>1, <3>2, Zenon
  <2>2. CASE toHost # << >> /\ toHost' = Tail(toHost)
               /\ (proto' = p \/ proto' = feed(p, Head(toHost)))
    <3> DEFINE piece == Head(toHost)
    <3>1. /\ piece \in Seq(Byte) /\ PiecesOf(toHost', R, k)
          /\ \E a \in k..Len(R) : /\ a + Len(piece) <= Len(R)
                                  /\ piece = SubSeq(R, a + 1, a + Len(piece))
                                  /\ PiecesOf(toHost', R, a + Len(piece))
      BY <1>1, <2>2, FirstPiece
    <3> HIDE DEF piece
    <3>2. PICK a \in k..Len(R) : /\ a + Len(piece) <= Len(R)
                                 /\ piece = SubSeq(R, a + 1, a + Len(piece))
                                 /\ PiecesOf(toHost', R, a + Len(piece))
      BY <3>1
    <3>3. proto' = p \/ proto' = feed(p, piece)
      BY <2>2 DEF piece
    <3>4. /\ Awaits(proto', c.type, N)
          /\ \/ N \o Gathered(proto') = N \o Gathered(p)
             \/ N \o Gathered(proto') = (N \o Gathered(p)) \o piece
      BY <1>5, <3>1, <3>3, Zenon
    <3>5. CASE N \o Gathered(proto') = N \o Gathered(p)
      BY <1>4, <3>1, <3>4, <3>5, Zenon
    <3>6. CASE N \o Gathered(proto') = (N \o Gathered(p)) \o piece
      <4>1. Kept((N \o Gathered(p)) \o piece, R, a + Len(piece))
        BY <1>4, <3>1, <3>2, MoreIsKept
      <4>2. a + Len(piece) \in Nat
        BY <3>1, <3>2, LenProperties
      <4> QED BY <3>2, <3>4, <3>6, <4>1, <4>2, Zenon
    <3> QED BY <3>4, <3>5, <3>6
  <2> QED BY <2>1, <2>2 DEF TakesIn, p
<1> QED BY <1>6, <1>7 DEF Answering

LEMMA RepliesAreBytes ==
  ASSUME dev \in DeviceType, NEW c \in CommandSet
  PROVE  /\ ReplyTo(handle_command(dev, c).reply, c.type) /\ ReplyTo(Rejected(dev).reply, c.type)
         /\ handle_command(dev, c).reply \in Seq(Byte) /\ Rejected(dev).reply \in Seq(Byte)
BY AnswerIsReply, RejectionIsReply DEF ReplyTo

LEMMA ReceivingSettles ==
  ASSUME OrderInv, Settled, Receive \/ ReceiveNothing \/ ReceiveRaises PROVE Settled'
<1> DEFINE p == Upcoming.proto
<1>1. /\ WellFormed(proto) /\ call \in CallType /\ call.status = "running"
      /\ Upcoming.event.type = "NeedMoreData" /\ LinkOK
  BY DEF OrderInv, ConnInv, CallOK, Receive, ReceiveNothing, ReceiveRaises, Iterating
<1>2. /\ UNCHANGED << toDev, dev, executed >> /\ TakesIn
      /\ call' = call \/ \E status \in {"closed", "io"} : call' = [call EXCEPT !.status = status]
  BY DEF Receive, ReceiveNothing, ReceiveRaises, TakesIn
<1>3. /\ call'.cmd = call.cmd /\ (Sent' => Sent)
      /\ call'.status \in {"running", "closed", "io"}
  BY <1>1, <1>2 DEF CallType, Sent
<1>4. proto.state \in Waiting /\ p.state \in Waiting
  BY <1>1, WaitGoesOn, UpcomingProto
<1>5. PICK c \in CommandSet : Outstanding(c)
  BY <1>4 DEF Settled, Linked, Quiet
<1>6. toHost \in Seq(Seq(Byte)) /\ dev \in DeviceType
  BY <1>1 DEF LinkOK
<1>7. WellFormed(p) /\ Gathered(p) \in Seq(Byte)
  BY <1>1, NextEventReturns, WaitGoesOn, UpcomingProto
<1>8. proto'.state \in Waiting
  <2>1. NoBytes \in Seq(Byte) /\ (toHost # << >> => Head(toHost) \in Seq(Byte))
    BY <1>6, NoBytesType, HeadTailProperties
  <2>2. proto' = p \/ \E data \in Seq(Byte) : proto' = feed(p, data)
    BY <1>2, <2>1 DEF TakesIn
  <2> HIDE DEF p
  <2> QED BY <1>4, <1>7, <2>2, FeedingAwaits
<1>9. CASE Asked(c)
  <2>1. toHost' = toHost /\ (proto' = p \/ proto' = feed(p, NoBytes))
    BY <1>2, <1>9 DEF Asked, TakesIn
  <2>2. PICK N \in Seq(Byte) : Awaits(p, c.type, N) /\ NoBytes \o Gathered(proto) = N \o Gathered(p)
    BY <1>1, <1>9, WaitGoesOn, UpcomingProto, NoBytesType DEF Asked
  <2>3. N = NoBytes /\ Gathered(p) = NoBytes
    <3>1. NoBytes \o Gathered(proto) = NoBytes
      BY <1>9, NoBytesType DEF Asked
    <3> HIDE DEF p
    <3> QED BY <1>7, <2>2, <3>1, NoBytesInParts
  <2>4. Awaits(proto', c.type, NoBytes) /\ Gathered(proto') = NoBytes
    <3> HIDE DEF p
    <3>1. CASE proto' = p
      BY <2>2, <2>3, <3>1
    <3>2. CASE proto' = feed(p, NoBytes)
      BY <1>7, <2>2, <2>3, <3>2, NoBytesType, FeedingAwaits
    <3> QED BY <2>1, <3>1, <3>2
  <2>5. Asked(c)'
    BY <1>2, <1>9, <2>1, <2>4 DEF Asked, Reboots
  <2> QED BY <1>3, <1>5, <1>8, <2>5, StillOpen DEF Linked, Outstanding
<1>10. CASE Answered(c)
  <2>1. PICK R : /\ R \in {handle_command(dev, c).reply, Rejected(dev).reply}
                 /\ Answering(c, R)
    BY <1>10 DEF Answered
  <2>2. R \in Seq(Byte)
    BY <1>6, <2>1, RepliesAreBytes
  <2>3. Answering(c, R)'
    BY <1>1, <1>2, <1>3, <1>6, <2>1, <2>2, AnsweringMoves
  <2>4. Answered(c)'
    BY <1>2, <1>10, <2>1, <2>3 DEF Answered
  <2> QED BY <1>3, <1>5, <1>8, <2>4, StillOpen DEF Linked, Outstanding
<1> QED BY <1>5, <1>9, <1>10 DEF Outstanding

(* Giving up, when nothing is left on the link. *)
LEMMA ResetIsQuiet ==
  ASSUME WellFormed(Upcoming.proto), proto' = reset(Upcoming.proto), call \in CallType,
         call.status = "running", NEW error \in Errors, call' = RetryOr(error, call),
         error # "returned", toHost' = << >>, toDev' \in Reboots
  PROVE  Settled'
<1>1. /\ proto'.buffer = NoBytes /\ proto'.state = "idle"
  BY DEF reset, WellFormed, ProtocolType
<1>2. Quiet' /\ ~in_sync(proto')
  BY <1>1 DEF Quiet, Waiting, in_sync
<1>3. call'.status \in {error, "running"}
  BY RetryKeeps
<1>4. call'.status # "returned"
  BY <1>3
<1> QED BY <1>2, <1>4 DEF Settled, Linked, ReturnsAreDone, GivenUp

LEMMA TimeOutSettles == ASSUME OrderInv, Settled, TimeOutInTime PROVE Settled'
<1>1. /\ WellFormed(Upcoming.proto) /\ call \in CallType /\ call.status = "running"
  BY UpcomingIsSound DEF OrderInv, ConnInv, CallOK, TimeOutInTime, TimeOut, Iterating
<1>2. /\ proto' = reset(Upcoming.proto) /\ call' = RetryOr("timeout", call)
      /\ toDev' = << >> /\ toHost' = << >>
  BY DEF TimeOutInTime, TimeOut
<1>3. << >> \in Reboots
  BY EmptySeq DEF Reboots
<1> QED BY <1>1, <1>2, <1>3, ResetIsQuiet DEF Errors

LEMMA ExcessSettles == ASSUME OrderInv, Settled, OnExcessData PROVE Settled'
<1>1. /\ WellFormed(proto) /\ WellFormed(Upcoming.proto) /\ call \in CallType
      /\ call.status = "running" /\ Upcoming.event.type = "ExcessData"
      /\ toHost \in Seq(Seq(Byte)) /\ dev \in DeviceType
  BY UpcomingIsSound DEF OrderInv, ConnInv, CallOK, LinkOK, OnExcessData, Iterating
<1>2. /\ proto' = reset(Upcoming.proto) /\ call' = RetryOr("excess", call)
      /\ toDev' = toDev /\ toHost' = toHost
  BY DEF OnExcessData
<1>3. toHost = << >> /\ toDev \in Reboots
  <2>1. CASE Quiet
    BY <2>1 DEF Quiet
  <2>2. CASE ~Quiet
    <3>1. PICK c \in CommandSet : Outstanding(c)
      BY <2>2 DEF Settled, Linked
    <3>2. CASE Asked(c)
      <4>1. proto.state \in Waiting
        BY <2>2 DEF Settled, Linked
      <4>2. Gathered(proto) = NoBytes
        BY <3>2 DEF Asked
      <4>3. /\ proto.state = "waitResponseLength" => HeaderDue(proto)
            /\ Len(Gathered(proto)) >= Len(Header(proto)) + Promise(proto) + 1
        BY <1>1, <4>1, UpcomingProto, ExcessIsMisplaced DEF Gathered
      <4>4. Header(proto) \in Seq(Byte) /\ Promise(proto) \in Nat
        BY <1>1, <3>2, <4>3, NoBytesType, HeaderIsFirst DEF Asked
      <4>5. Len(Header(proto)) \in Nat /\ Len(Gathered(proto)) = 0
        BY <4>2, <4>4, LenProperties, NoBytesType
      <4> QED BY <4>3, <4>4, <4>5
    <3>3. CASE Answered(c)
      <4>1. PICK R : /\ R \in {handle_command(dev, c).reply, Rejected(dev).reply}
                     /\ Answering(c, R)
        BY <3>3 DEF Answered
      <4>2. ReplyTo(R, c.type)
        BY <1>1, <4>1, RepliesAreBytes
      <4>3. toHost = << >>
        BY <1>1, <4>1, <4>2, UpcomingProto, ExcessIsTheEnd DEF Answering
      <4> QED BY <3>3, <4>3, EmptySeq DEF Answered, Reboots
    <3> QED BY <3>1, <3>2, <3>3 DEF Outstanding
  <2> QED BY <2>1, <2>2
<1> QED BY <1>1, <1>2, <1>3, ResetIsQuiet DEF Errors

LEMMA ClosedSettles == ASSUME OrderInv, Settled, OnConnectionClosed PROVE Settled'
<1>1. /\ call \in CallType /\ Upcoming.event.type = "ConnectionClosed" /\ WellFormed(proto)
      /\ call' = [call EXCEPT !.status = "closed"] /\ proto' = Upcoming.proto
      /\ UNCHANGED << toDev, toHost, dev, faults, executed >>
  BY DEF OrderInv, ConnInv, CallOK, OnConnectionClosed, Iterating
<1>2. proto' = proto
  <2>1. CASE proto.buffer = NoBytes /\ proto.closed
    BY <1>1, <2>1 DEF Upcoming, next_event, Outcome
  <2>2. CASE ~(proto.buffer = NoBytes /\ proto.closed)
    <3> DEFINE r == read_payload(read_length(proto))
    <3>1. Upcoming =
            CASE r.state \in {"waitResponseLength", "waitResponse"} -> Outcome(NeedMoreData, r)
              [] r.state = "waitSync" -> read_sync(r)
              [] OTHER -> purge_excess_data(r, Len(r.buffer))
      BY <2>2 DEF Upcoming, next_event
    <3>2. WellFormed(r) /\ Len(r.buffer) \in 0..Len(r.buffer)
      BY <1>1, TwoStages
    <3> HIDE DEF r
    <3>3. purge_excess_data(r, Len(r.buffer)).event.type \in {"None", "ExcessData"}
      BY <3>2, PurgeExcessData
    <3>4. r.state = "waitSync" =>
            read_sync(r).event.type \in {"NeedMoreData", "ExcessData", "Response"}
      BY <3>2, ReadSync
    <3>5. Outcome(NeedMoreData, r).event.type = "NeedMoreData"
      BY DEF Outcome, NeedMoreData
    <3> QED BY <1>1, <3>1, <3>3, <3>4, <3>5
  <2> QED BY <2>1, <2>2
<1>3. call'.status = "closed" /\ ~Sent'
  BY <1>1 DEF CallType, Sent
<1>4. Linked'
  <2>1. CASE Quiet
    BY <1>1, <1>2, <2>1 DEF Linked, Quiet
  <2>2. CASE ~Quiet
    <3>1. PICK c \in CommandSet : Outstanding(c)
      BY <2>2 DEF Settled, Linked
    <3>2. Asked(c) => Asked(c)'
      BY <1>1, <1>2 DEF Asked, Reboots
    <3>3. \A R : Answering(c, R) => Answering(c, R)'
      BY <1>1, <1>2, <1>3 DEF Answering
    <3>4. Answered(c) => Answered(c)'
      BY <1>1, <3>3 DEF Answered
    <3>5. proto'.state \in Waiting
      BY <1>2, <2>2 DEF Settled, Linked
    <3> QED BY <1>3, <3>1, <3>2, <3>4, <3>5 DEF Linked, Outstanding
  <2> QED BY <2>1, <2>2
<1> QED BY <1>3, <1>4, StillOpen

(* The body of a reply, with and without a length header. *)
LEMMA BodyOfReply ==
  ASSUME NEW N \in Seq(Byte), NEW body \in Seq(Byte)
  PROVE  LET R == N \o (body \o << IN_SYNC, OK >>) IN
         /\ R \in Seq(Byte) /\ R[Len(R)] = OK
         /\ SubSeq(R, 1, Len(R) - 2) = N \o body
<1> DEFINE t == << IN_SYNC, OK >>
           b == N \o body
<1>1. t \in Seq(Byte)
  BY DEF IN_SYNC, OK, Byte
<1>2. b \in Seq(Byte)
  BY ConcatProperties
<1>3. b \o t = N \o (body \o t)
  <2> HIDE DEF t
  <2> QED BY <1>1, Associative
<1> HIDE DEF b
<1>4. LET R == Handled(dev, b).reply IN
      /\ R = b \o t /\ R \in Seq(Byte) /\ R[Len(R)] = OK /\ SubSeq(R, 1, Len(R) - 2) = b
  BY <1>2, HandledIs
<1> HIDE DEF t
<1>5. LET R == b \o t IN R \in Seq(Byte) /\ R[Len(R)] = OK /\ SubSeq(R, 1, Len(R) - 2) = b
  BY <1>4, Zenon
<1>6. LET R == N \o (body \o t) IN
      R \in Seq(Byte) /\ R[Len(R)] = OK /\ SubSeq(R, 1, Len(R) - 2) = b
  BY <1>3, <1>5, Zenon
<1> QED BY <1>6, Zenon DEF t, b

LEMMA ResponseSettles == ASSUME OrderInv, Settled, OnResponse PROVE Settled'
<1> DEFINE o == next_event(proto)
           e == o.event
<1>1. /\ WellFormed(proto) /\ call \in CallType /\ call.status = "running"
      /\ e.type = "Response"
      /\ toHost \in Seq(Seq(Byte)) /\ dev \in DeviceType
  BY UpcomingProto DEF OrderInv, ConnInv, CallOK, LinkOK, OnResponse, Iterating
<1>2. /\ proto' = o.proto /\ call' = Answer(call, e)
      /\ UNCHANGED << toDev, toHost, dev, executed >>
  BY UpcomingProto DEF OnResponse
<1>3. /\ proto.state \in Waiting /\ e \in EventType
      /\ Gathered(proto) = Header(proto) \o (Carried(e) \o Gathered(o.proto))
      /\ WellFormed(o.proto) /\ (proto.state = "waitResponseLength" => HeaderDue(proto))
  BY <1>1, NextEventReturns DEF Gathered
<1>4. PICK c \in CommandSet : Outstanding(c)
  BY <1>3 DEF Settled, Linked, Quiet
<1>5. e.payload \in Seq(Byte) /\ e.code \in Byte
  <2>1. e.payload \in Seq(Byte) /\ e.code \in {0} \union KnownReplies
    BY <1>3 DEF EventType
  <2> HIDE DEF e
  <2> QED BY <2>1 DEF KnownReplies, OK, FAILED, INVALID, Byte
<1>6. ~Asked(c)
  <2> SUFFICES ASSUME Asked(c) PROVE FALSE
    OBVIOUS
  <2> DEFINE t == << IN_SYNC, e.code >>
             marked == e.payload \o t
  <2>1. Carried(e) = marked
    BY <1>1 DEF Carried
  <2>2. t \in Seq(Byte) /\ Len(t) = 2
    BY <1>5 DEF IN_SYNC, Byte
  <2> HIDE DEF t, e, o
  <2>3. marked \in Seq(Byte)
    BY <1>5, <2>2, ConcatProperties
  <2>4. Header(proto) \in Seq(Byte) /\ Gathered(o.proto) \in Seq(Byte)
    <3>1. Gathered(o.proto) \in Seq(Byte)
      BY <1>3, ConcatProperties DEF WellFormed, ProtocolType, Gathered
    <3>2. Awaits(proto, c.type, NoBytes)
      BY DEF Asked
    <3> QED BY <1>1, <1>3, <3>1, <3>2, NoBytesType, HeaderIsFirst
  <2>5. marked \o Gathered(o.proto) \in Seq(Byte)
    BY <2>3, <2>4, ConcatProperties
  <2>6. Header(proto) \o (marked \o Gathered(o.proto)) = NoBytes
    BY <1>3, <2>1 DEF Asked
  <2>7. marked \o Gathered(o.proto) = NoBytes
    BY <2>4, <2>5, <2>6, NoBytesInParts
  <2>8. marked = NoBytes
    BY <2>3, <2>4, <2>7, NoBytesInParts
  <2>9. t = NoBytes
    BY <1>5, <2>2, <2>8, NoBytesInParts
  <2> QED BY <2>2, <2>9, NoBytesType
<1>7. Answered(c)
  BY <1>4, <1>6 DEF Outstanding
<1>8. PICK R : R \in {handle_command(dev, c).reply, Rejected(dev).reply} /\ Answering(c, R)
  BY <1>7 DEF Answered
<1>9. PICK H \in Seq(Byte), k \in Nat :
        /\ Kept(H \o Gathered(proto), R, k) /\ PiecesOf(toHost, R, k)
        /\ Awaits(proto, c.type, H)
  BY <1>8 DEF Answering
<1>10. ReplyTo(R, c.type)
  BY <1>1, <1>8, RepliesAreBytes
<1> DEFINE N == H \o Header(proto)
<1>11. /\ toHost = << >>
       /\ o.proto.state = "inSync" /\ o.proto.payload = NoBytes /\ o.proto.buffer = NoBytes
       /\ N \in Seq(Byte)
       /\ R = N \o (e.payload \o << IN_SYNC, e.code >>)
       /\ Len(N) = IF response_length(c.type) >= 0 THEN 0 ELSE 4
  BY <1>1, <1>9, <1>10, AnswerIsWhole
<1> HIDE DEF N, o, e
<1>12. Quiet' /\ in_sync(proto')
  <2>1. toDev = << >>
    BY <1>7 DEF Answered
  <2> QED BY <1>2, <1>11, <2>1, EmptySeq DEF Quiet, Reboots, Waiting, in_sync
<1>13. call'.status \in {"running", "rejected", "returned"}
  BY <1>1, <1>2 DEF Answer, CallType
<1>14. ASSUME call'.status = "returned"
       PROVE  /\ executed > 0 /\ dev.mode # "rebooting"
              /\ call'.payload = answer_body(call.cmd)'
  <2>1. /\ e.code = OK /\ call.sent /\ call'.cmd = call.cmd /\ call'.payload = e.payload
    BY <1>1, <1>2, <1>14 DEF Answer, CallType
  <2>2. c = call.cmd /\ Sent
    BY <1>1, <1>4, <2>1 DEF Outstanding, Sent
  <2>3. R = N \o (e.payload \o << IN_SYNC, OK >>)
    BY <1>11, <2>1
  <2>4. R[Len(R)] = OK /\ SubSeq(R, 1, Len(R) - 2) = N \o e.payload
    <3>1. LET Q == N \o (e.payload \o << IN_SYNC, OK >>) IN
          Q[Len(Q)] = OK /\ SubSeq(Q, 1, Len(Q) - 2) = N \o e.payload
      BY <1>5, <1>11, BodyOfReply, Zenon
    <3> QED BY <2>3, <3>1, Zenon
  <2>5. R # Rejected(dev).reply
    <3>1. Rejected(dev).reply = << IN_SYNC, INVALID >>
      BY RejectedIs
    <3>2. R = << IN_SYNC, INVALID >> => R[Len(R)] = INVALID
      OBVIOUS
    <3> QED BY <2>4, <3>1, <3>2 DEF OK, INVALID
  <2>6. executed > 0 /\ dev.mode # "rebooting" /\ R = handle_command(dev, c).reply
    BY <1>8, <2>2, <2>5 DEF Answering
  <2>7. e.payload = IF c.type = GET_CHIP_DES THEN drop(N \o e.payload, 4) ELSE N \o e.payload
    <3>1. CASE c.type = GET_CHIP_DES
      <4>1. response_length(c.type) = -1
        BY <3>1
        DEF response_length, GET_CHIP_DES, GET_CRC, GET_OTP, GET_SN, GET_DEVICE, GET_CHIP,
            GET_WRITE_PTR
      <4>2. Len(N) = 4
        BY <1>11, <4>1
      <4>3. drop(N \o e.payload, Len(N)) = e.payload
        BY <1>5, <1>11, DropPrefix
      <4> QED BY <3>1, <4>2, <4>3
    <3>2. CASE c.type # GET_CHIP_DES
      <4>1. response_length(c.type) >= 0
        BY <3>2 DEF response_length
      <4>2. N = NoBytes
        BY <1>11, <4>1, NoBytesType
      <4> QED BY <1>5, <3>2, <4>2, NoBytesType
    <3> QED BY <3>1, <3>2
  <2>8. answer_body(call.cmd)' = e.payload
    <3>1. answer_body(call.cmd)' = IF c.type = GET_CHIP_DES
            THEN drop(SubSeq(R, 1, Len(R) - 2), 4) ELSE SubSeq(R, 1, Len(R) - 2)
      BY <1>2, <2>1, <2>2, <2>6 DEF answer_body
    <3> PICK X : X = N \o e.payload
      OBVIOUS
    <3> PICK Y : Y = SubSeq(R, 1, Len(R) - 2)
      OBVIOUS
    <3>2. X = Y
      BY <2>4
    <3>3. answer_body(call.cmd)' = IF c.type = GET_CHIP_DES THEN drop(Y, 4) ELSE Y
      BY <3>1
    <3>4. e.payload = IF c.type = GET_CHIP_DES THEN drop(X, 4) ELSE X
      BY <2>7
    <3> QED BY <3>2, <3>3, <3>4, Zenon
  <2> QED BY <2>1, <2>6, <2>8
<1>15. ReturnsAreDone'
  BY <1>2, <1>12, <1>14 DEF ReturnsAreDone
<1> QED BY <1>12, <1>13, <1>15 DEF Settled, Linked, GivenUp

------------------------------------------------------------------------------
(* The steps of the device, the link and the client. *)

LEMMA FirstOfAsked ==
  ASSUME NEW s \in Reboots, NEW c
  PROVE  /\ Append(s, c) # << >>
         /\ s = << >> => Head(Append(s, c)) = c /\ Tail(Append(s, c)) = << >>
         /\ s # << >> => /\ Head(Append(s, c)) = RebootPacket /\ Tail(s) \in Reboots
                         /\ Tail(Append(s, c)) = Append(Tail(s), c)
BY DEF Reboots

(* Nothing is answered any more: the command was lost or ignored. *)
LEMMA NothingToCome ==
  ASSUME dev \in DeviceType, NEW c \in CommandSet, Awaits(proto, c.type, NoBytes),
         Gathered(proto) = NoBytes, proto' = proto, toHost' = << >>, toDev' = << >>
  PROVE  Answered(c)'
<1> PICK R : R = << IN_SYNC, INVALID >>
  OBVIOUS
<1>1. Rejected(dev').reply = R /\ R \in Seq(Byte)
  BY RejectedIs DEF IN_SYNC, INVALID, Byte
<1>2. NoBytes \in Seq(Byte) /\ NoBytes \o Gathered(proto') = NoBytes /\ 0 \in Nat
  BY NoBytesType
<1>3. Kept(NoBytes, R, 0)
  BY <1>1, NothingIsKept
<1>4. PiecesOf(<< >>, R, 0)
  BY <1>1, NoPieces
<1>5. Answering(c, R)'
  BY <1>1, <1>2, <1>3, <1>4, Zenon DEF Answering
<1> QED BY <1>1, <1>5, Zenon DEF Answered

(* The device answers. *)
LEMMA AnswerIsOnItsWay ==
  ASSUME NEW c \in CommandSet, NEW R \in Seq(Byte), R # NoBytes,
         Awaits(proto, c.type, NoBytes), Gathered(proto) = NoBytes,
         proto' = proto, toHost' = << R >>, toDev' = << >>,
         R = handle_command(dev', c).reply \/ R = Rejected(dev').reply,
         R # Rejected(dev').reply => dev'.mode # "rebooting" /\ (Sent' => executed' > 0)
  PROVE  Answered(c)'
<1>1. NoBytes \in Seq(Byte) /\ NoBytes \o Gathered(proto') = NoBytes /\ 0 \in Nat
  BY NoBytesType
<1>2. Kept(NoBytes, R, 0) /\ PiecesOf(<< R >>, R, 0)
  BY NothingIsKept, PiecesOfOne
<1>3. Answering(c, R)'
  BY <1>1, <1>2, Zenon DEF Answering
<1> QED BY <1>3, Zenon DEF Answered

(* The command is behind reboot packets: one of them is taken. *)
LEMMA PacketIsTaken ==
  ASSUME NEW c, NEW s \in Reboots, s # << >>, toDev = Append(s, c), Asked(c),
         toDev' = Tail(toDev), proto' = proto, toHost' = toHost
  PROVE  Asked(c)'
<1>1. Tail(s) \in Reboots /\ toDev' = Append(Tail(s), c)
  BY FirstOfAsked
<1> QED BY <1>1 DEF Asked, Reboots

(* The call that is under way, seen from a step that leaves it alone. *)
LEMMA OutstandingStays ==
  ASSUME NEW c \in CommandSet, Outstanding(c), proto' = proto, call' = call,
         proto.state \in Waiting, Settled, Asked(c)' \/ Answered(c)'
  PROVE  Settled'
<1>1. ~Quiet
  BY DEF Quiet
<1>2. call'.status \notin {"returned", "timeout", "excess"}
  BY <1>1 DEF Settled, ReturnsAreDone, GivenUp
<1>3. Outstanding(c)'
  BY DEF Outstanding, Sent
<1>4. Linked'
  BY <1>3 DEF Linked
<1> QED BY <1>2, <1>4, StillOpen

LEMMA ReplyIsNotEmpty ==
  ASSUME NEW d \in DeviceType, NEW c \in CommandSet
  PROVE  handle_command(d, c).reply # NoBytes /\ Rejected(d).reply # NoBytes
<1>1. \A type, R : ReplyTo(R, type) => R # NoBytes
  BY NoBytesType DEF ReplyTo
<1> QED BY <1>1, AnswerIsReply, RejectionIsReply

LEMMA HandledStaysUp ==
  ASSUME NEW d \in DeviceType, NEW c \in CommandSet, d.mode = "bootloader"
  PROVE  handle_command(d, c).dev.mode # "rebooting"
<1>1. handle_command(d, c) = Rejected(d) => handle_command(d, c).dev = d
  BY DEF Rejected
<1>2. ASSUME NEW e, NEW body, handle_command(d, c) = Handled(e, body),
             e.mode \in {d.mode, "app"}
      PROVE  handle_command(d, c).dev.mode # "rebooting"
  BY <1>2 DEF Handled
<1> QED BY <1>1, <1>2, HandledOrRejected

(* A step that takes the first message off the link to the device. *)
LEMMA TakingSettles ==
  ASSUME OrderInv, Settled, toDev # << >>, toDev' = Tail(toDev), UNCHANGED << proto, call >>,
         Head(toDev) = RebootPacket => toHost' = toHost,
         \A c \in CommandSet : Outstanding(c) /\ Asked(c) /\ Head(toDev) = c /\ toDev' = << >>
           => Answered(c)'
  PROVE  Settled'
<1>1. CASE Quiet
  <2>1. Head(toDev) = RebootPacket /\ Tail(toDev) \in Reboots
    BY <1>1 DEF Quiet, Reboots
  <2>2. Quiet' /\ ~in_sync(proto')
    BY <1>1, <2>1 DEF Quiet, Reboots
  <2>3. call'.status # "returned"
    BY <2>2 DEF Settled, ReturnsAreDone
  <2> QED BY <2>2, <2>3 DEF Settled, Linked, ReturnsAreDone, GivenUp
<1>2. CASE ~Quiet
  <2>1. PICK c \in CommandSet : Outstanding(c) /\ proto.state \in Waiting
    BY <1>2 DEF Settled, Linked
  <2>2. Asked(c)
    BY <2>1 DEF Outstanding, Answered
  <2>3. PICK s \in Reboots : toDev = Append(s, c)
    BY <2>2 DEF Asked
  <2>4. CASE s = << >>
    <3>1. Head(toDev) = c /\ toDev' = << >>
      BY <2>3, <2>4, FirstOfAsked
    <3>2. Answered(c)'
      BY <2>1, <2>2, <3>1
    <3> QED BY <2>1, <3>2, OutstandingStays
  <2>5. CASE s # << >>
    <3>1. Head(toDev) = RebootPacket
      BY <2>3, <2>5, FirstOfAsked
    <3>2. Asked(c)'
      BY <2>2, <2>3, <2>5, <3>1, PacketIsTaken
    <3> QED BY <2>1, <3>2, OutstandingStays
  <2> QED BY <2>4, <2>5
<1> QED BY <1>1, <1>2

LEMMA DeviceStepSettles ==
  ASSUME OrderInv, Settled, DeviceStep, ~faults'.disturbing PROVE Settled'
<1> DEFINE done == deliver(dev, Head(toDev))
<1>1. /\ toDev # << >> /\ toDev' = Tail(toDev) /\ UNCHANGED << proto, call >>
      /\ dev' = done.dev
      /\ toHost' = IF done.reply = NoBytes THEN toHost ELSE Append(toHost, done.reply)
      /\ executed' = IF Head(toDev) = call.cmd /\ dev.mode = "bootloader"
                       THEN executed + 1 ELSE executed
  BY DEF DeviceStep
<1>2. dev \in DeviceType /\ toHost \in Seq(Seq(Byte)) /\ executed \in Nat
      /\ toDev \in Seq(CommandSet)
  BY DEF OrderInv, ConnInv, LinkOK, CountersOK
<1>3. ~Stray(Head(toDev))
  <2>1. faults' = [faults EXCEPT !.disturbing = @ \/ Stray(Head(toDev))]
    BY DEF DeviceStep
  <2>2. faults \in [count : 0..MaxFaults, disturbing : BOOLEAN]
    BY DEF OrderInv, CountersOK
  <2> QED BY <2>1, <2>2
<1>4. ASSUME Head(toDev) = RebootPacket PROVE toHost' = toHost
  <2>1. dev.mode # "bootloader"
    BY <1>3, <1>4, GetSyncIsNoReboot DEF Stray
  <2>2. done.reply = NoBytes
    BY <2>1 DEF deliver
  <2> QED BY <1>1, <2>2
<1>5. ASSUME NEW c \in CommandSet, Outstanding(c), Asked(c), Head(toDev) = c, toDev' = << >>
      PROVE  Answered(c)'
  <2>1. /\ Awaits(proto, c.type, NoBytes) /\ Gathered(proto) = NoBytes /\ toHost = << >>
        /\ c.type # MAVLINK_REBOOT /\ (Sent => c = call.cmd)
    BY <1>5 DEF Asked, Outstanding
  <2>2. CASE dev.mode = "bootloader"
    <3> PICK R : R = handle_command(dev, c).reply
      OBVIOUS
    <3>1. done = handle_command(dev, c)
      BY <1>5, <2>2 DEF deliver
    <3>2. R \in Seq(Byte) /\ R # NoBytes
      BY <1>2, RepliesAreBytes, ReplyIsNotEmpty
    <3>3. toHost' = << R >>
      <4>1. toHost' = Append(toHost, R)
        BY <1>1, <3>1, <3>2
      <4> QED BY <2>1, <4>1
    <3>4. R = handle_command(dev', c).reply
      BY <1>1, <1>2, <3>1, SameAnswer
    <3>5. dev'.mode # "rebooting"
      BY <1>1, <1>2, <2>2, <3>1, HandledStaysUp
    <3>6. Sent' => executed' > 0
      <4> SUFFICES ASSUME Sent' PROVE executed' > 0
        OBVIOUS
      <4>1. c = call.cmd
        BY <1>1, <2>1 DEF Sent
      <4>2. executed' = executed + 1
        BY <1>1, <1>5, <2>2, <4>1
      <4> QED BY <1>2, <4>2
    <3> HIDE DEF done
    <3> QED BY <1>1, <1>5, <2>1, <3>2, <3>3, <3>4, <3>5, <3>6, AnswerIsOnItsWay
  <2>3. CASE dev.mode # "bootloader"
    <3>1. done.reply = NoBytes
      BY <1>5, <2>1, <2>3 DEF deliver
    <3>2. toHost' = << >>
      BY <1>1, <2>1, <3>1
    <3> QED BY <1>1, <1>2, <1>5, <2>1, <3>2, NothingToCome
  <2> QED BY <2>2, <2>3
<1> HIDE DEF done
<1> QED BY <1>1, <1>4, <1>5, TakingSettles

LEMMA DeviceRejectsSettles ==
  ASSUME OrderInv, Settled, DeviceRejects PROVE Settled'
<1>1. /\ toDev # << >> /\ toDev' = Tail(toDev)
      /\ UNCHANGED << proto, call, dev, executed >>
      /\ toHost' = Append(toHost, Rejected(dev).reply)
      /\ dev.mode = "bootloader" /\ ~Stray(Head(toDev))
  BY DEF DeviceRejects
<1>2. dev \in DeviceType
  BY DEF OrderInv, ConnInv, LinkOK
<1>3. Head(toDev) # RebootPacket
  BY <1>1, GetSyncIsNoReboot DEF Stray
<1>4. ASSUME NEW c \in CommandSet, Asked(c), toDev' = << >> PROVE Answered(c)'
  <2> PICK R : R = Rejected(dev).reply
    OBVIOUS
  <2>1. Awaits(proto, c.type, NoBytes) /\ Gathered(proto) = NoBytes /\ toHost = << >>
    BY <1>4 DEF Asked
  <2>2. R \in Seq(Byte) /\ R # NoBytes
    BY <1>2, RepliesAreBytes, ReplyIsNotEmpty
  <2>3. toHost' = << R >>
    BY <1>1, <2>1
  <2>4. R = Rejected(dev').reply
    BY <1>1
  <2> QED BY <1>1, <1>4, <2>1, <2>2, <2>3, <2>4, AnswerIsOnItsWay
<1> QED BY <1>1, <1>3, <1>4, TakingSettles

LEMMA LoseCommandSettles ==
  ASSUME OrderInv, Settled, LoseCommand PROVE Settled'
<1>1. /\ toDev # << >> /\ toDev' = Tail(toDev)
      /\ UNCHANGED << proto, call, toHost, dev, executed >>
  BY DEF LoseCommand
<1>2. dev \in DeviceType
  BY DEF OrderInv, ConnInv, LinkOK
<1>3. ASSUME NEW c \in CommandSet, Asked(c), toDev' = << >> PROVE Answered(c)'
  <2>1. Awaits(proto, c.type, NoBytes) /\ Gathered(proto) = NoBytes /\ toHost = << >>
    BY <1>3 DEF Asked
  <2> QED BY <1>1, <1>2, <1>3, <2>1, NothingToCome
<1> QED BY <1>1, <1>3, TakingSettles

(* A step that leaves the command as it is and shortens or cuts what is on *)
(* its way back.                                                           *)
LEMMA ReplyChangesSettles ==
  ASSUME OrderInv, Settled, toHost # << >>, UNCHANGED << proto, call, toDev, dev, executed >>,
         \A R \in Seq(Byte) : \A k \in Nat : PiecesOf(toHost, R, k) => PiecesOf(toHost', R, k)
  PROVE  Settled'
<1>1. ~Quiet
  BY DEF Quiet
<1>2. PICK c \in CommandSet : Outstanding(c) /\ proto.state \in Waiting
  BY <1>1 DEF Settled, Linked
<1>3. Answered(c)
  BY <1>2 DEF Outstanding, Asked
<1>4. ASSUME NEW R \in Seq(Byte), Answering(c, R) PROVE Answering(c, R)'
  <2>1. PICK H \in Seq(Byte), k \in Nat :
          /\ Kept(H \o Gathered(proto), R, k) /\ PiecesOf(toHost, R, k)
          /\ Awaits(proto, c.type, H)
    BY <1>4 DEF Answering
  <2>2. PiecesOf(toHost', R, k)
    BY <2>1
  <2> QED BY <1>4, <2>1, <2>2 DEF Answering, Sent
<1>5. Answered(c)'
  <2>1. dev \in DeviceType
    BY DEF OrderInv, ConnInv, LinkOK
  <2>2. handle_command(dev, c).reply \in Seq(Byte) /\ Rejected(dev).reply \in Seq(Byte)
    BY <2>1, RepliesAreBytes
  <2>3. PICK R \in Seq(Byte) : /\ R \in {handle_command(dev, c).reply, Rejected(dev).reply}
                               /\ Answering(c, R)
    BY <1>3, <2>2 DEF Answered
  <2>4. Answering(c, R)'
    BY <1>4, <2>3
  <2> QED BY <1>3, <2>3, <2>4 DEF Answered
<1> QED BY <1>2, <1>5, OutstandingStays

LEMMA ReplyLinkSettles ==
  ASSUME OrderInv, Settled, LoseReply \/ SplitReply PROVE Settled'
<1>1. toHost \in Seq(Seq(Byte))
  BY DEF OrderInv, ConnInv, LinkOK
<1>2. CASE LoseReply
  <2>1. ASSUME NEW R \in Seq(Byte), NEW k \in Nat, PiecesOf(toHost, R, k), toHost # << >>
        PROVE  PiecesOf(Tail(toHost), R, k)
    BY <1>1, <2>1, FirstPiece
  <2> QED BY <1>2, <2>1, ReplyChangesSettles DEF LoseReply
<1>3. CASE SplitReply
  <2>1. PICK n \in 1..(Len(Head(toHost)) - 1) :
          toHost' = << SubSeq(Head(toHost), 1, n), drop(Head(toHost), n) >> \o Tail(toHost)
    BY <1>3 DEF SplitReply
  <2>2. toHost # << >> /\ UNCHANGED << proto, call, toDev, dev, executed >>
    BY <1>3 DEF SplitReply
  <2>3. ASSUME NEW R \in Seq(Byte), NEW k \in Nat, PiecesOf(toHost, R, k)
        PROVE  PiecesOf(toHost', R, k)
    BY <1>1, <2>1, <2>2, <2>3, PieceIsCut
  <2> QED BY <2>2, <2>3, ReplyChangesSettles
<1> QED BY <1>2, <1>3

(* A step that changes neither the object nor the link, and of the call    *)
(* and the device only what the reply under way does not depend on.        *)
LEMMA LinkIsIdle ==
  ASSUME Settled, UNCHANGED << proto, toDev, toHost >>, dev \in DeviceType,
         \A c \in CommandSet : Outstanding(c) => (Sent' => c = call'.cmd),
         \A c \in CommandSet, R \in Seq(Byte) :
           Outstanding(c) /\ Answering(c, R)
             /\ R \in {handle_command(dev, c).reply, Rejected(dev).reply} =>
             Answering(c, R)' /\ R \in {handle_command(dev', c).reply, Rejected(dev').reply}
  PROVE  Linked' /\ (Quiet => Quiet')
<1>1. Quiet => Quiet'
  BY DEF Quiet
<1>2. CASE Quiet
  BY <1>1, <1>2 DEF Linked
<1>3. CASE ~Quiet
  <2>1. PICK c \in CommandSet : Outstanding(c) /\ proto.state \in Waiting
    BY <1>3 DEF Settled, Linked
  <2>2. Asked(c) => Asked(c)'
    BY DEF Asked, Reboots
  <2>3. Answered(c) => Answered(c)'
    <3>1. handle_command(dev, c).reply \in Seq(Byte) /\ Rejected(dev).reply \in Seq(Byte)
      BY RepliesAreBytes
    <3> QED BY <2>1, <3>1 DEF Answered
  <2> QED BY <1>1, <2>1, <2>2, <2>3 DEF Linked, Outstanding
<1> QED BY <1>2, <1>3

LEMMA BootSettles == ASSUME OrderInv, Settled, DeviceBoots PROVE Settled'
<1>1. /\ dev.mode = "rebooting" /\ UNCHANGED << proto, call, toDev, toHost, executed >>
  BY DEF DeviceBoots, linkVars
<1>2. dev \in DeviceType
  BY DEF OrderInv, ConnInv, LinkOK
<1>3. ASSUME NEW c \in CommandSet, NEW R \in Seq(Byte), Answering(c, R)
      PROVE  Answering(c, R)' /\ R \in {handle_command(dev', c).reply, Rejected(dev').reply}
  <2>1. R = Rejected(dev).reply
    BY <1>1, <1>3 DEF Answering
  <2>2. R = Rejected(dev').reply
    BY <2>1, RejectedIs
  <2> QED BY <1>1, <1>3, <2>2 DEF Answering, Sent
<1>4. \A c \in CommandSet : Outstanding(c) => (Sent' => c = call'.cmd)
  BY <1>1 DEF Outstanding, Sent
<1>5. Linked' /\ (Quiet => Quiet')
  BY <1>1, <1>2, <1>3, <1>4, LinkIsIdle
<1> QED BY <1>1, <1>5 DEF Settled, ReturnsAreDone, GivenUp

(* A call that has not sent its command does not care whose reply comes.   *)
LEMMA NotSentSettles ==
  ASSUME OrderInv, Settled, UNCHANGED << proto, toDev, toHost, dev >>, ~Sent',
         call'.status \notin {"returned", "timeout", "excess"}
  PROVE  Settled'
<1>1. dev \in DeviceType
  BY DEF OrderInv, ConnInv, LinkOK
<1>2. Linked'
  BY <1>1, LinkIsIdle DEF Answering
<1> QED BY <1>2, StillOpen

LEMMA ClientSettles == ASSUME OrderInv, Settled, AnyClient PROVE Settled'
<1>1. ASSUME NEW cmd \in ClientCommands, NEW n \in Nat, Call(cmd, n) PROVE Settled'
  <2>1. UNCHANGED << proto, toDev, toHost, dev >> /\ call' = NewCall(cmd, n)
    BY <1>1 DEF Call, Begin, linkVars
  <2>2. ~Sent' /\ call'.status = "running"
    BY <2>1 DEF NewCall, Sent
  <2> QED BY <2>1, <2>2, NotSentSettles
<1>2. ASSUME NEW cmd \in ClientCommands, NEW n \in Nat, RebootAndCall(cmd, n) PROVE Settled'
  <2>1. /\ UNCHANGED << proto, toHost, dev >> /\ call' = NewCall(cmd, n)
        /\ toDev' = Append(toDev, RebootPacket) /\ Quiet /\ ~in_sync(proto)
    BY <1>2 DEF RebootAndCall, Begin, Settled, GivenUp
  <2>2. toDev' \in Reboots
    BY <2>1, AppendProperties DEF Quiet, Reboots
  <2>3. Quiet' /\ call'.status = "running"
    BY <2>1, <2>2 DEF Quiet, NewCall
  <2> QED BY <2>3, StillOpen DEF Linked
<1>3. CASE Abandon
  <2>1. UNCHANGED << proto, toDev, toHost, dev >> /\ call' = [call EXCEPT !.status = "idle"]
    BY <1>3 DEF Abandon, linkVars
  <2>2. ~Sent' /\ call'.status = "idle"
    BY <2>1 DEF OrderInv, ConnInv, CallOK, CallType, Sent
  <2> QED BY <2>1, <2>2, NotSentSettles
<1> QED BY <1>1, <1>2, <1>3 DEF AnyClient

------------------------------------------------------------------------------
(* The invariant holds. *)

LEMMA OrderBegins == OpenInit => OrderInv
<1> SUFFICES ASSUME OpenInit PROVE OrderInv
  OBVIOUS
<1>1. ConnInv
  BY InitHolds
<1>2. CountersOK
  BY FaultsAssumption DEF OpenInit, ConnInit, CountersOK
<1>3. NoRebootCall /\ call.status = "idle"
  BY GetSyncIsNoReboot DEF OpenInit, ConnInit, NoCall, NewCall, NoRebootCall
<1>4. Quiet
  BY EmptySeq DEF OpenInit, ConnInit, NewProtocol, Quiet, Reboots, Waiting, in_sync
<1> QED BY <1>1, <1>2, <1>3, <1>4 DEF OrderInv, Settled, Linked, ReturnsAreDone, GivenUp

(* A step of the uploader: the call stays that of its command, and nothing *)
(* is sent but that command and sync requests.                             *)
LEMMA HostIs ==
  ASSUME ConnInv, Host
  PROVE  /\ call.status = "running" /\ call'.cmd = call.cmd /\ UNCHANGED << dev, executed >>
         /\ \/ toDev' = toDev
            \/ Send /\ \E c \in {call.cmd, GetSync} : toDev' = Append(toDev, c)
<1>1. call \in CallType
  BY DEF ConnInv, CallOK
<1>2. CASE Send
  BY <1>1, <1>2 DEF Send, OurTurn, Iterating, CommandToSend, CallType
<1>3. CASE OnConnectionClosed \/ Receive \/ ReceiveNothing \/ ReceiveRaises
  BY <1>1, <1>3
  DEF OnConnectionClosed, Receive, ReceiveNothing, ReceiveRaises, Iterating, CallType
<1>4. CASE SendRaises
  <2> DEFINE c == [call EXCEPT !.sent = FALSE]
  <2>1. call' = RetryOr("io", c) /\ c.cmd = call.cmd /\ c \in CallType /\ "io" \in Errors
    BY <1>1, <1>4 DEF SendRaises, CallType, Errors
  <2>2. call.status = "running" /\ UNCHANGED << dev, executed, toDev >>
    BY <1>4 DEF SendRaises, OurTurn, Iterating
  <2> HIDE DEF c
  <2> QED BY <2>1, <2>2, RetryKeeps
<1>5. CASE TimeOutInTime \/ TimeOutEarly \/ OnExcessData
  <2>1. PICK error \in {"timeout", "excess"} : call' = RetryOr(error, call)
    BY <1>5 DEF TimeOutInTime, TimeOutEarly, TimeOut, OnExcessData
  <2>2. call.status = "running" /\ UNCHANGED << dev, executed, toDev >>
    BY <1>5 DEF TimeOutInTime, TimeOutEarly, TimeOut, OnExcessData, Iterating
  <2> QED BY <1>1, <2>1, <2>2, RetryKeeps DEF Errors
<1>6. CASE OnResponse
  <2>1. call' = Answer(call, Upcoming.event) /\ Upcoming.event \in EventType
    BY <1>6, UpcomingIsSound DEF OnResponse, ConnInv
  <2>2. call.status = "running" /\ UNCHANGED << dev, executed, toDev >>
    BY <1>6 DEF OnResponse, Iterating
  <2> QED BY <1>1, <2>1, <2>2, AnswerKeeps
<1> QED BY <1>2, <1>3, <1>4, <1>5, <1>6 DEF Host

LEMMA CallIsNoReboot ==
  ASSUME OrderInv, [OpenNext]_connVars PROVE NoRebootCall'
<1>1. call \in CallType /\ ConnInv /\ NoRebootCall
  BY DEF OrderInv, ConnInv, CallOK
<1>2. CASE AnyClient
  BY <1>1, <1>2, ClientsSendCommands
  DEF AnyClient, Call, RebootAndCall, Begin, Abandon, NewCall, NoRebootCall, CallType
<1>3. CASE Host
  BY <1>1, <1>3, HostIs DEF NoRebootCall
<1>4. CASE Environment \/ UNCHANGED connVars
  BY <1>1, <1>4
  DEF Environment, DeviceStep, DeviceRejects, DeviceBoots, SendHeartbeat, LoseCommand,
      LoseReply, SplitReply, connVars, NoRebootCall
<1> QED BY <1>2, <1>3, <1>4 DEF OpenNext

(* Once disturbed, always disturbed, and by these faults only. *)
LEMMA StaysUndisturbed ==
  ASSUME OrderInv, [OpenNext]_connVars, ~faults'.disturbing
  PROVE  ~faults.disturbing /\ ~TimeOutEarly /\ ~SendHeartbeat
<1>1. faults \in [count : 0..MaxFaults, disturbing : BOOLEAN]
  BY DEF OrderInv, CountersOK
<1>2. ASSUME NEW kind, Fault(kind)
      PROVE  ~faults.disturbing /\ kind \notin {"late", "heartbeat"}
  BY <1>2 DEF Fault
<1>3. ~TimeOutEarly /\ ~SendHeartbeat
  BY <1>2 DEF TimeOutEarly, SendHeartbeat
<1>4. CASE DeviceStep
  BY <1>1, <1>3, <1>4 DEF DeviceStep
<1>5. CASE ~DeviceStep
  <2>1. faults' = faults \/ \E kind \in FaultKinds : Fault(kind)
    BY <1>5
    DEF OpenNext, AnyClient, Host, Environment, Call, RebootAndCall, Abandon, connVars,
        linkVars, FaultKinds, Send, SendRaises, Receive, ReceiveNothing, ReceiveRaises,
        TimeOutInTime, TimeOutEarly, TimeOut, OnResponse, OnExcessData,
        OnConnectionClosed, DeviceRejects, DeviceBoots, SendHeartbeat,
        LoseCommand, LoseReply, SplitReply
  <2> QED BY <1>2, <1>3, <2>1
<1> QED BY <1>4, <1>5

LEMMA NothingHappens ==
  ASSUME Settled, UNCHANGED connVars PROVE Settled'
BY DEF Settled, Linked, Quiet, Outstanding, Asked, Answered, Answering, Sent, ReturnsAreDone,
       GivenUp, connVars, answer_body

LEMMA OrderIsKept == ASSUME OrderInv, [OpenNext]_connVars PROVE OrderInv'
<1>1. ConnInv' /\ CountersOK' /\ NoRebootCall'
  BY OpenNextKeeps, CountersAreKept, CallIsNoReboot DEF OrderInv
<1>2. ASSUME ~faults'.disturbing PROVE Settled'
  <2>1. Settled /\ ~TimeOutEarly /\ ~SendHeartbeat
    BY <1>2, StaysUndisturbed DEF OrderInv
  <2>2. CASE AnyClient
    BY <2>1, <2>2, ClientSettles
  <2>3. CASE Host
    BY <2>1, <2>3, SendSettles, SendRaisesSettles, ReceivingSettles, TimeOutSettles,
       ResponseSettles, ExcessSettles, ClosedSettles
    DEF Host
  <2>4. CASE Environment
    BY <1>2, <2>1, <2>4, DeviceStepSettles, DeviceRejectsSettles, BootSettles,
       LoseCommandSettles, ReplyLinkSettles
    DEF Environment
  <2>5. CASE UNCHANGED connVars
    BY <2>1, <2>5, NothingHappens
  <2> QED BY <2>2, <2>3, <2>4, <2>5 DEF OpenNext
<1> QED BY <1>1, <1>2 DEF OrderInv

LEMMA OrderHolds == OpenSpec => []OrderInv
BY OrderBegins, OrderIsKept, PTL DEF OpenSpec

(* A call that returns was executed, and leaves nothing on the link and in *)
(* the object that the next call could take for its answer: unless a reply *)
(* came later than its timeout, or somebody else sent or was answered on   *)
(* the link.  Whatever is lost, cut up, rejected or refused in between.    *)
THEOREM ReturnedIsExecuted == OpenSpec => []ReturnMeansExecuted
<1>1. OrderInv => ReturnMeansExecuted
  BY DEF OrderInv, Settled, ReturnsAreDone, Quiet, ReturnMeansExecuted
<1> QED BY <1>1, OrderHolds, PTL

(* On such a link a call returns what the device answers at that moment.   *)
THEOREM ReturnedIsCurrent == OpenSpec => []AnswerIsCurrent
<1>1. OrderInv => AnswerIsCurrent
  BY DEF OrderInv, Settled, ReturnsAreDone, answer_body, AnswerIsCurrent
<1> QED BY <1>1, OrderHolds, PTL

------------------------------------------------------------------------------
(* The loop of a call: what it may still spend, and that each pass spends  *)
(* some of it.                                                             *)

Budgets == Nat \X Nat \X Nat \X Nat

(* The order of the budgets, one place at a time. *)
LEMMA CheaperIs ==
  ASSUME NEW a \in Budgets, NEW b \in Budgets
  PROVE  Cheaper(a, b) <=>
           \/ a[1] < b[1]
           \/ a[1] = b[1] /\ a[2] < b[2]
           \/ a[1] = b[1] /\ a[2] = b[2] /\ a[3] < b[3]
           \/ a[1] = b[1] /\ a[2] = b[2] /\ a[3] = b[3] /\ a[4] < b[4]
<1> DEFINE At(i) == a[i] < b[i] /\ \A j \in 1..(i - 1) : a[j] = b[j]
<1>1. Cheaper(a, b) <=> At(1) \/ At(2) \/ At(3) \/ At(4)
  <2>1. 1..4 = {1, 2, 3, 4}
    OBVIOUS
  <2> QED BY <2>1 DEF Cheaper
<1>2. At(1) <=> a[1] < b[1]
  OBVIOUS
<1>3. At(2) <=> a[1] = b[1] /\ a[2] < b[2]
  <2>1. 1..(2 - 1) = {1}
    OBVIOUS
  <2> QED BY <2>1
<1>4. At(3) <=> a[1] = b[1] /\ a[2] = b[2] /\ a[3] < b[3]
  <2>1. 1..(3 - 1) = {1, 2}
    OBVIOUS
  <2> QED BY <2>1
<1>5. At(4) <=> a[1] = b[1] /\ a[2] = b[2] /\ a[3] = b[3] /\ a[4] < b[4]
  <2>1. 1..(4 - 1) = {1, 2, 3}
    OBVIOUS
  <2> QED BY <2>1
<1> HIDE DEF At
<1> QED BY <1>1, <1>2, <1>3, <1>4, <1>5

(* Every set of budgets that is not empty has one that no other undercuts. *)
LEMMA LeastBudget ==
  ASSUME NEW S \in SUBSET Budgets, S # {}
  PROVE  \E m \in S : \A b \in S : ~Cheaper(b, m)
<1> DEFINE I1 == {b[1] : b \in S}
<1>1. PICK m1 \in S : \A b \in S : m1[1] <= b[1]
  <2>1. I1 \in SUBSET Nat /\ I1 # {}
    BY DEF Budgets
  <2>2. PICK x \in I1 : \A y \in I1 : x <= y
    <3> HIDE DEF I1
    <3> QED BY <2>1, LeastElement
  <2> QED BY <2>2
<1> DEFINE S2 == {b \in S : b[1] = m1[1]}
           I2 == {b[2] : b \in S2}
<1>2. PICK m2 \in S2 : \A b \in S2 : m2[2] <= b[2]
  <2>1. I2 \in SUBSET Nat /\ I2 # {}
    BY <1>1 DEF Budgets
  <2>2. PICK x \in I2 : \A y \in I2 : x <= y
    <3> HIDE DEF I2
    <3> QED BY <2>1, LeastElement
  <2> QED BY <2>2
<1> DEFINE S3 == {b \in S2 : b[2] = m2[2]}
           I3 == {b[3] : b \in S3}
<1>3. PICK m3 \in S3 : \A b \in S3 : m3[3] <= b[3]
  <2>1. I3 \in SUBSET Nat /\ I3 # {}
    BY <1>2 DEF Budgets
  <2>2. PICK x \in I3 : \A y \in I3 : x <= y
    <3> HIDE DEF I3
    <3> QED BY <2>1, LeastElement
  <2> QED BY <2>2
<1> DEFINE S4 == {b \in S3 : b[3] = m3[3]}
           I4 == {b[4] : b \in S4}
<1>4. PICK m4 \in S4 : \A b \in S4 : m4[4] <= b[4]
  <2>1. I4 \in SUBSET Nat /\ I4 # {}
    BY <1>3 DEF Budgets
  <2>2. PICK x \in I4 : \A y \in I4 : x <= y
    <3> HIDE DEF I4
    <3> QED BY <2>1, LeastElement
  <2> QED BY <2>2
<1>5. \A b \in S : ~Cheaper(b, m4)
  <2> SUFFICES ASSUME NEW b \in S, Cheaper(b, m4) PROVE FALSE
    OBVIOUS
  <2>1. m4 \in S /\ m4[1] = m1[1] /\ m4[2] = m2[2] /\ m4[3] = m3[3]
    OBVIOUS
  <2>2. b \in Budgets /\ m4 \in Budgets /\ m1 \in Budgets /\ m2 \in Budgets /\ m3 \in Budgets
    OBVIOUS
  <2>3. /\ b[1] \in Nat /\ b[2] \in Nat /\ b[3] \in Nat /\ b[4] \in Nat
        /\ m4[1] \in Nat /\ m4[2] \in Nat /\ m4[3] \in Nat /\ m4[4] \in Nat
    BY <2>2 DEF Budgets
  <2>4. m4[1] <= b[1]
    BY <1>1, <2>1
  <2>5. b[1] = m4[1] => m4[2] <= b[2]
    BY <1>2, <2>1
  <2>6. b[1] = m4[1] /\ b[2] = m4[2] => m4[3] <= b[3]
    BY <1>3, <2>1
  <2>7. b[1] = m4[1] /\ b[2] = m4[2] /\ b[3] = m4[3] => m4[4] <= b[4]
    BY <1>4, <2>1
  <2>8. \/ b[1] < m4[1]
        \/ b[1] = m4[1] /\ b[2] < m4[2]
        \/ b[1] = m4[1] /\ b[2] = m4[2] /\ b[3] < m4[3]
        \/ b[1] = m4[1] /\ b[2] = m4[2] /\ b[3] = m4[3] /\ b[4] < m4[4]
    BY <2>2, CheaperIs
  <2> HIDE DEF S2, S3, S4
  <2> QED BY <2>3, <2>4, <2>5, <2>6, <2>7, <2>8
<1> QED BY <1>5

(* There is no endless series of passes each of which leaves less to spend *)
(* than the one before: the loop of _process_command_inner ends.           *)
THEOREM BudgetsRunOut ==
  ASSUME NEW passes \in [Nat -> Budgets]
  PROVE  \E n \in Nat : ~Cheaper(passes[n + 1], passes[n])
<1> DEFINE S == {passes[n] : n \in Nat}
<1>1. S \in SUBSET Budgets /\ S # {}
  <2>1. 0 \in Nat
    OBVIOUS
  <2> QED BY <2>1
<1>2. PICK m \in S : \A b \in S : ~Cheaper(b, m)
  <2> HIDE DEF S
  <2> QED BY <1>1, LeastBudget
<1>3. PICK n \in Nat : m = passes[n]
  OBVIOUS
<1>4. passes[n + 1] \in S
  <2>1. n + 1 \in Nat
    OBVIOUS
  <2> QED BY <2>1
<1> HIDE DEF S
<1> QED BY <1>2, <1>3, <1>4

LEMMA CostIsBudget ==
  ASSUME NEW p, WellFormed(p), NEW c \in CallType
  PROVE  /\ Cost(c, p) \in Budgets
         /\ Cost(c, p)[1] = c.left /\ Cost(c, p)[2] = Stage(p, c.sent)
         /\ Cost(c, p)[3] = (IF p.closed THEN 0 ELSE 1) /\ Cost(c, p)[4] = Missing(p)
<1>1. Stage(p, c.sent) \in Nat
  BY DEF Stage, WellFormed, ProtocolType, ProtocolState
<1>2. Missing(p) \in Nat
  <2>1. p.expected \in Nat /\ Len(p.buffer) \in Nat
    BY LenProperties DEF WellFormed, ProtocolType
  <2> HIDE DEF WellFormed
  <2> QED BY <2>1 DEF Missing
<1>3. c.left \in Nat /\ (IF p.closed THEN 0 ELSE 1) \in Nat
  BY DEF CallType
<1> QED BY <1>1, <1>2, <1>3 DEF Cost, Budgets

(* A pass that reads waits in a stage for bytes that are missing: in the   *)
(* stage that the pass before left, or in one behind it.                   *)
LEMMA ReadsInStage ==
  ASSUME NEW p, WellFormed(p), NEW sent \in BOOLEAN,
         next_event(p).event.type = "NeedMoreData"
  PROVE  LET q == next_event(p).proto IN
         /\ q.closed = p.closed
         /\ Len(q.buffer) < q.expected
         /\ q = p \/ Stage(q, sent) < Stage(p, sent)
<1> DEFINE l == read_length(p)
           r == read_payload(l)
           o == next_event(p)
<1>1. /\ WellFormed(l) /\ l.closed = p.closed
      /\ ~HeaderDue(p) => l = p
      /\ HeaderDue(p) => l.state \in {"waitResponse", "waitSync"}
  BY ReadLength
<1>2. /\ WellFormed(r) /\ r.closed = l.closed
      /\ l.state # "waitResponse" => r = l
      /\ l.state = "waitResponse" => r.state \in {"waitResponse", "waitSync"}
      /\ r.state = "waitResponse" => r = l
  BY <1>1, ReadPayload
<1>3. ~(p.buffer = NoBytes /\ p.closed)
  <2>1. ConnectionClosed.type # "NeedMoreData"
    BY DEF ConnectionClosed
  <2> QED BY <2>1 DEF next_event, Outcome
<1>4. o = CASE r.state \in {"waitResponseLength", "waitResponse"} -> Outcome(NeedMoreData, r)
            [] r.state = "waitSync" -> read_sync(r)
            [] OTHER -> purge_excess_data(r, Len(r.buffer))
  BY <1>3 DEF next_event
<1>5. r = p \/ Stage(r, sent) < Stage(p, sent)
  <2>1. CASE HeaderDue(p)
    <3>1. p.state = "waitResponseLength" /\ r.state \in {"waitResponse", "waitSync"}
      BY <1>1, <1>2, <2>1 DEF HeaderDue
    <3> HIDE DEF r
    <3> QED BY <3>1 DEF Stage
  <2>2. CASE ~HeaderDue(p)
    <3> HIDE DEF l, r
    <3>1. r = p \/ (p.state = "waitResponse" /\ r.state = "waitSync")
      BY <1>1, <1>2, <2>2
    <3> QED BY <3>1 DEF Stage
  <2> QED BY <2>1, <2>2
<1>6. o.proto = r /\ Len(r.buffer) < r.expected
  <2> HIDE DEF o
  <2>1. r.expected \in Nat /\ r.buffer \in Seq(Byte) /\ Len(r.buffer) \in Nat
    BY <1>2, LenProperties DEF WellFormed, ProtocolType
  <2>2. CASE r.state = "waitResponseLength"
    <3>1. r = p /\ ~HeaderDue(p) /\ o.proto = r
      BY <1>1, <1>2, <1>4, <2>2 DEF Outcome
    <3> HIDE DEF r
    <3> QED BY <2>1, <2>2, <3>1 DEF HeaderDue
  <2>3. CASE r.state = "waitResponse"
    <3>1. r = l /\ o.proto = r
      BY <1>2, <1>4, <2>3 DEF Outcome
    <3>2. ~(Len(l.buffer) >= l.expected)
      <4> SUFFICES ASSUME Len(l.buffer) >= l.expected PROVE FALSE
        OBVIOUS
      <4>1. l.state = "waitResponse"
        BY <2>3, <3>1
      <4>2. r.state = "waitSync"
        <5>1. \A x \in ProtocolType : start_waiting_for_sync(x).state = "waitSync"
          BY DEF start_waiting_for_sync, ProtocolType
        <5>2. [l EXCEPT !.payload = SubSeq(l.buffer, 1, l.expected),
                        !.buffer = drop(@, l.expected)] \in ProtocolType
          <6>1. l \in ProtocolType /\ l.buffer \in Seq(Byte) /\ l.expected \in 0..Len(l.buffer)
            BY <1>1 DEF WellFormed, ProtocolType
          <6>2. SubSeq(l.buffer, 1, l.expected) \in Seq(Byte)
                  /\ drop(l.buffer, l.expected) \in Seq(Byte)
            <7> HIDE DEF l
            <7> QED BY <6>1, Cut
          <6> HIDE DEF l
          <6> QED BY <6>1, <6>2 DEF ProtocolType
        <5>3. r = start_waiting_for_sync(
                    [l EXCEPT !.payload = SubSeq(l.buffer, 1, l.expected),
                              !.buffer = drop(@, l.expected)])
          BY <4>1 DEF read_payload
        <5> HIDE DEF r, l
        <5> QED BY <5>1, <5>2, <5>3
      <4> QED BY <2>3, <4>2
    <3> HIDE DEF r, l
    <3> QED BY <2>1, <3>1, <3>2
  <2>4. CASE r.state = "waitSync"
    <3>1. o = read_sync(r) /\ r.expected = 2
      BY <1>2, <1>4, <2>4 DEF WellFormed
    <3>2. o.event.type = "NeedMoreData"
      BY DEF o
    <3>3. o.proto = r
      <4> HIDE DEF r
      <4> QED BY <1>2, <2>4, <3>1, <3>2, ReadSync
    <3>4. Len(r.buffer) < 2
      <4> HIDE DEF r
      <4>1. Len(r.buffer) >= 2 => read_sync(r).event.type # "NeedMoreData"
        <5> SUFFICES ASSUME Len(r.buffer) >= 2 PROVE read_sync(r).event.type # "NeedMoreData"
          OBVIOUS
        <5> DEFINE k == sync_index(r.buffer)
        <5>1. r.buffer # NoBytes /\ k \in 0..Len(r.buffer)
          BY <2>1, SyncIndex, NoBytesType
        <5>2. \A n : /\ ExcessData(n).type # "NeedMoreData"
                     /\ NoEvent.type # "NeedMoreData"
                     /\ \A c : Response(c, n).type # "NeedMoreData"
          BY DEF ExcessData, NoEvent, Response
        <5>3. \A n : purge_excess_data(r, n).event.type # "NeedMoreData"
          BY <5>2 DEF purge_excess_data, Outcome
        <5>4. \/ read_sync(r) = purge_excess_data(r, k - 1)
              \/ read_sync(r) = purge_excess_data(r, Len(r.buffer))
              \/ read_sync(r) = purge_excess_data(r, 2)
              \/ read_sync(r).event = Response(r.buffer[2], r.payload)
          <6>1. k > 1 \/ k = 0 \/ k = 1
            BY <2>1, <5>1
          <6>2. k > 1 => read_sync(r) = purge_excess_data(r, k - 1)
            BY <5>1 DEF read_sync
          <6>3. k = 0 => read_sync(r) = purge_excess_data(r, Len(r.buffer))
            BY <5>1 DEF read_sync
          <6>4. k = 1 => \/ read_sync(r) = purge_excess_data(r, 2)
                         \/ read_sync(r).event = Response(r.buffer[2], r.payload)
            BY <2>1, <5>1 DEF read_sync, Outcome
          <6> QED BY <6>1, <6>2, <6>3, <6>4
        <5> QED BY <5>2, <5>3, <5>4
      <4> QED BY <2>1, <3>1, <3>2, <4>1
    <3> QED BY <3>1, <3>3, <3>4
  <2>5. CASE r.state \notin Waiting
    <3>1. o = purge_excess_data(r, Len(r.buffer))
      BY <1>4, <2>5 DEF Waiting
    <3>2. o.event.type \in {"None", "ExcessData"}
      <4> HIDE DEF r
      <4> QED BY <3>1 DEF purge_excess_data, Outcome, ExcessData, NoEvent
    <3> QED BY <3>2 DEF o
  <2> QED BY <2>2, <2>3, <2>4, <2>5 DEF Waiting
<1> HIDE DEF r, l
<1> QED BY <1>1, <1>2, <1>5, <1>6 DEF o

Pays ==
  \/ call'.status # "running"
  \/ Cheaper(Cost(call', proto'), Cost(call, proto))
  \/ ReadsNothingAgain

(* A budget that is lower at one place and equal before it. *)
LEMMA PaysAt ==
  ASSUME ConnInv, ConnInv',
         \/ call'.left < call.left
         \/ call'.left = call.left /\ Stage(proto', call'.sent) < Stage(proto, call.sent)
         \/ /\ call'.left = call.left /\ Stage(proto', call'.sent) = Stage(proto, call.sent)
            /\ \/ proto'.closed /\ ~proto.closed
               \/ proto'.closed = proto.closed /\ Missing(proto') < Missing(proto)
  PROVE  Pays
<1> DEFINE a == Cost(call', proto')
           b == Cost(call, proto)
<1>1. /\ a \in Budgets
      /\ a[1] = call'.left /\ a[2] = Stage(proto', call'.sent)
      /\ a[3] = (IF proto'.closed THEN 0 ELSE 1) /\ a[4] = Missing(proto')
  BY CostIsBudget DEF ConnInv, CallOK
<1>2. /\ b \in Budgets
      /\ b[1] = call.left /\ b[2] = Stage(proto, call.sent)
      /\ b[3] = (IF proto.closed THEN 0 ELSE 1) /\ b[4] = Missing(proto)
  BY CostIsBudget DEF ConnInv, CallOK
<1> HIDE DEF a, b
<1>3. Cheaper(a, b)
  BY <1>1, <1>2, CheaperIs
<1> QED BY <1>3 DEF Pays, a, b

(* Spending a retry pays, whatever else changes. *)
LEMMA RetryPays ==
  ASSUME NEW c \in CallType, NEW error \in Errors
  PROVE  RetryOr(error, c).status # "running" \/ RetryOr(error, c).left < c.left
<1>1. c.left \in Nat /\ error # "running"
  BY DEF CallType, Errors
<1> QED BY <1>1 DEF RetryOr, CallType

LEMMA GivingUpPays ==
  ASSUME ConnInv, ConnInv', SendRaises \/ TimeOutInTime \/ TimeOutEarly \/ OnExcessData
  PROVE  Pays
<1>1. call \in CallType /\ [call EXCEPT !.sent = FALSE] \in CallType
        /\ [call EXCEPT !.sent = FALSE].left = call.left
  BY DEF ConnInv, CallOK, CallType
<1>2. \E error \in {"io", "timeout", "excess"} :
        call' = RetryOr(error, call) \/ call' = RetryOr(error, [call EXCEPT !.sent = FALSE])
  BY DEF SendRaises, TimeOutInTime, TimeOutEarly, TimeOut, OnExcessData
<1>3. call'.status # "running" \/ call'.left < call.left
  <2>1. \A error \in {"io", "timeout", "excess"} : error \in Errors
    BY DEF Errors
  <2> QED BY <1>1, <1>2, <2>1, RetryPays
<1> QED BY <1>3, PaysAt DEF Pays

(* What a send waits for comes after the turn it was. *)
LEMMA SendPays == ASSUME ConnInv, ConnInv', Send PROVE Pays
<1> USE DEF ConnInv
<1>1. /\ WellFormed(proto) /\ Upcoming.event.type = "None"
      /\ call \in CallType /\ call.status = "running"
  BY DEF Send, OurTurn, Iterating, CallOK
<1>2. Upcoming.proto = proto /\ proto.state \notin Waiting
  BY <1>1, NextEventReturns DEF Upcoming
<1>3. CASE in_sync(proto)
  <2>1. ~call.sent
    BY <1>1, <1>3 DEF SyncMeansReplied
  <2>2. /\ call' = [call EXCEPT !.sent = sent_now] /\ sent_now
        /\ proto' = send(proto, CommandToSend.type)
    BY <1>2, <1>3, <2>1 DEF Send, sent_now
  <2>3. call'.sent /\ call'.left = call.left
    BY <1>1, <2>2 DEF CallType
  <2>4. proto'.state \in Waiting
    <3>1. response_length(CommandToSend.type) \in Int /\ proto \in ProtocolType
      BY <1>1 DEF response_length, WellFormed
    <3> QED BY <2>2, <3>1, StartWaiting DEF send
  <2>5. Stage(proto', call'.sent) \in {1, 2, 3}
    BY <2>3, <2>4 DEF Stage, Waiting
  <2>6. Stage(proto, call.sent) = 4
    BY <1>3, <2>1 DEF Stage, in_sync
  <2>7. Stage(proto', call'.sent) < Stage(proto, call.sent)
    BY <2>5, <2>6
  <2> QED BY <2>3, <2>7, PaysAt
<1>4. CASE ~in_sync(proto)
  <2>1. /\ call' = [call EXCEPT !.sent = sent_now] /\ ~sent_now
        /\ proto' = send(proto, GET_SYNC)
    BY <1>2, <1>4 DEF Send, sent_now, CommandToSend, GetSync, Command
  <2>2. ~call'.sent /\ call'.left = call.left
    BY <1>1, <2>1 DEF CallType
  <2>3. proto'.state = "waitSync"
    <3>1. response_length(GET_SYNC) = 0 /\ proto \in ProtocolType
      BY <1>1 DEF WellFormed, response_length, GET_SYNC, GET_CHIP_DES, GET_CRC, GET_OTP,
                  GET_SN, GET_DEVICE, GET_CHIP, GET_WRITE_PTR
    <3> QED BY <2>1, <3>1, StartWaiting DEF send
  <2>4. Stage(proto', call'.sent) = 5
    BY <2>2, <2>3 DEF Stage
  <2>5. Stage(proto, call.sent) = 8
    <3>1. proto.state \in {"idle", "error"}
      BY <1>1, <1>2, <1>4 DEF WellFormed, ProtocolType, ProtocolState, Waiting, in_sync
    <3> QED BY <3>1 DEF Stage
  <2> QED BY <2>2, <2>4, <2>5, PaysAt
<1> QED BY <1>3, <1>4

(* A read brings bytes that were missing, or the end of input. *)
LEMMA ReceivePays ==
  ASSUME ConnInv, ConnInv', Receive \/ ReceiveNothing \/ ReceiveRaises PROVE Pays
<1> DEFINE q == Upcoming.proto
<1>1. /\ WellFormed(proto) /\ Upcoming.event.type = "NeedMoreData" /\ call \in CallType
      /\ WellFormed(q)
  BY UpcomingIsSound DEF ConnInv, Receive, ReceiveNothing, ReceiveRaises, Iterating, CallOK
<1>2. /\ q.closed = proto.closed
      /\ Len(q.buffer) < q.expected
      /\ q = proto \/ Stage(q, call.sent) < Stage(proto, call.sent)
  BY <1>1, ReadsInStage DEF Upcoming, CallType
<1>3. /\ q.buffer \in Seq(Byte) /\ Len(q.buffer) \in Nat
      /\ q.closed \in BOOLEAN /\ proto.closed \in BOOLEAN
  BY <1>1, LenProperties DEF WellFormed, ProtocolType
<1>4. CASE call'.status # "running"
  BY <1>4 DEF Pays
<1>5. CASE call' = call /\ can_feed(q) /\ toHost # << >> /\ proto' = feed(q, Head(toHost))
  <2> DEFINE data == Head(toHost)
  <2>1. data \in Seq(Byte) /\ ~q.closed
    BY <1>5, HeadTailProperties, EmptySeq DEF ConnInv, LinkOK, can_feed
  <2> HIDE DEF data
  <2>2. proto'.state = q.state /\ proto'.expected = q.expected
    BY <1>1, <1>5 DEF feed, WellFormed, ProtocolType, data
  <2>3. Stage(proto', call.sent) = Stage(q, call.sent)
    BY <2>2 DEF Stage
  <2>4. CASE data = NoBytes
    <3>1. proto'.closed /\ ~proto.closed
      BY <1>1, <1>2, <1>5, <2>1, <2>4 DEF feed, WellFormed, ProtocolType, data
    <3> HIDE DEF q
    <3> QED BY <1>2, <1>5, <2>3, <3>1, PaysAt
  <2>5. CASE data # NoBytes
    <3>1. proto'.closed = q.closed /\ proto'.buffer = q.buffer \o data
      BY <1>1, <1>5, <2>5 DEF feed, WellFormed, ProtocolType, data
    <3>2. Len(data) \in Nat /\ Len(data) > 0
      BY <2>1, <2>5, LenProperties, NoBytesType
    <3>3. Len(proto'.buffer) = Len(q.buffer) + Len(data)
      <4>1. Len(q.buffer \o data) = Len(q.buffer) + Len(data)
        BY <1>3, <2>1, ConcatProperties
      <4> QED BY <3>1, <4>1
    <3>4. q.expected \in Nat
      BY <1>1 DEF WellFormed, ProtocolType
    <3>5. Missing(proto') < Missing(q)
      <4> HIDE DEF q
      <4>1. Missing(q) = q.expected - Len(q.buffer)
        BY <1>2, <1>3, <3>4 DEF Missing
      <4>2. Missing(proto') = IF q.expected > Len(q.buffer) + Len(data)
                              THEN q.expected - (Len(q.buffer) + Len(data)) ELSE 0
        BY <2>2, <3>3 DEF Missing
      <4> QED BY <1>2, <1>3, <3>2, <3>4, <4>1, <4>2
    <3> HIDE DEF q
    <3> QED BY <1>2, <1>5, <2>3, <3>1, <3>5, PaysAt
  <2> QED BY <2>4, <2>5
<1>6. CASE ReceiveNothing
  <2>1. call' = call /\ proto' = feed(q, NoBytes)
    BY <1>6 DEF ReceiveNothing
  <2>2. proto'.state = q.state /\ proto'.closed
    BY <1>1, <2>1 DEF feed, WellFormed, ProtocolType
  <2>3. Stage(proto', call.sent) = Stage(q, call.sent)
    BY <2>2 DEF Stage
  <2>4. CASE q.closed
    BY <1>6, <2>4 DEF Pays, ReadsNothingAgain
  <2>5. CASE ~q.closed
    <3> HIDE DEF q
    <3> QED BY <1>2, <2>1, <2>2, <2>3, <2>5, PaysAt
  <2> QED BY <2>4, <2>5
<1>7. \/ call' = [call EXCEPT !.status = "closed"]
      \/ call' = [call EXCEPT !.status = "io"]
      \/ call' = call /\ can_feed(q) /\ toHost # << >> /\ proto' = feed(q, Head(toHost))
      \/ ReceiveNothing
  BY DEF Receive, ReceiveNothing, ReceiveRaises
<1>8. [call EXCEPT !.status = "closed"].status # "running"
        /\ [call EXCEPT !.status = "io"].status # "running"
  BY <1>1 DEF CallType
<1> QED BY <1>4, <1>5, <1>6, <1>7, <1>8

(* A reply either ends the call, or leaves it in sync with its command     *)
(* still to send.                                                          *)
LEMMA EndingPays ==
  ASSUME ConnInv, ConnInv', OnResponse \/ OnConnectionClosed PROVE Pays
<1>1. /\ WellFormed(proto) /\ Upcoming.event \in EventType /\ call \in CallType
  BY UpcomingIsSound DEF ConnInv, CallOK
<1>2. CASE OnConnectionClosed
  <2>1. call'.status # "running"
    BY <1>1, <1>2 DEF OnConnectionClosed, CallType
  <2> QED BY <2>1 DEF Pays
<1>3. CASE OnResponse
  <2>1. /\ proto' = Upcoming.proto /\ call' = Answer(call, Upcoming.event)
        /\ Upcoming.event.type = "Response"
    BY <1>3 DEF OnResponse, Iterating
  <2>2. proto.state \in Waiting /\ proto'.state = "inSync"
    BY <1>1, <2>1, NextEventReturns DEF Upcoming
  <2>3. CASE call' = call /\ ~call.sent
    <3>1. Stage(proto', call.sent) = 4 /\ Stage(proto, call.sent) \in {5, 6, 7}
      BY <2>2, <2>3 DEF Stage, Waiting
    <3>2. Stage(proto', call'.sent) < Stage(proto, call.sent)
      BY <2>3, <3>1
    <3> QED BY <2>3, <3>2, PaysAt
  <2>4. CASE call'.status \in {"rejected", "returned"}
    BY <2>4 DEF Pays
  <2> QED BY <1>1, <2>1, <2>3, <2>4, AnswerKeeps
<1> QED BY <1>2, <1>3

(* Whatever a device sends, and however long: each pass of the loop of     *)
(* _process_command_inner ends the call, or leaves less to spend, or reads *)
(* nothing once more.  BudgetsRunOut says that this cannot go on for ever, *)
(* but for reads of nothing.                                               *)
THEOREM EveryPassPays == OpenSpec => LoopPays
<1>1. ASSUME ConnInv, [OpenNext]_connVars, Host PROVE Pays
  <2>1. ConnInv'
    BY <1>1, OpenNextKeeps
  <2> QED BY <1>1, <2>1, SendPays, GivingUpPays, ReceivePays, EndingPays DEF Host
<1>2. ConnInv /\ [OpenNext]_connVars => [Host => Pays]_connVars
  BY <1>1
<1>3. OpenSpec => []ConnInv
  BY InitHolds, OpenNextKeeps, PTL DEF OpenSpec
<1> QED BY <1>2, <1>3, PTL DEF OpenSpec, LoopPays, Pays
==============================================================================
