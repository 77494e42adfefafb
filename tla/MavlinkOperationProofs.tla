----------------------- MODULE MavlinkOperationProofs -----------------------
(***************************************************************************)
(* A MAVLink command is only ever on its way to a device that was heard to *)
(* run its main firmware, for every set of packets, every way of cutting   *)
(* and damaging them and every number of faults; it is carried out when    *)
(* nothing is lost; and what is heard is exactly what was received.        *)
(***************************************************************************)
EXTENDS MavlinkOperation, SequenceTheorems, WellFoundedInduction, TLAPS

Listens == pc \in {"connecting", "listening"}
Commands == pc \in {"command", "reboot"}

(* Only the main firmware talks, so whoever is heard runs it. *)
BootloaderIsSilent ==
  dev \in {"bootloader", "app"} /\ (dev = "bootloader" => toHost = << >>)

(* The lock is held while listening; that is why the request to boot the   *)
(* main firmware, which needs it as well, can only end the operation.      *)
LockIsHeld == lock = (pc = "listening")

(* Nothing is sent, and no outcome is known, before a heartbeat is heard;  *)
(* whoever sends has heard one.                                            *)
NothingSentYet == Listens => toDev = << >> /\ finished = "no" /\ ~silent
HeardFirst == Commands => dev = "app" /\ ~silent

Inv == BootloaderIsSilent /\ LockIsHeld /\ NothingSentYet /\ HeardFirst
         /\ CommandsReachFirmware

LEMMA InitHolds == Init => Inv
  BY DEF Init, Inv, BootloaderIsSilent, LockIsHeld, NothingSentYet, HeardFirst, Listens,
         Commands, CommandsReachFirmware

(* Bytes can be received only from the main firmware. *)
LEMMA ReceiveKeeps == ASSUME Inv, Receive PROVE Inv'
<1> USE DEF Inv
<1>1. PICK n \in (Chunks \union {Len(toHost)}) \intersect (1..Len(toHost)) :
        toHost' = without(toHost, n)
  BY DEF Receive
<1>2. toHost # << >>
  BY <1>1
<1>3. dev = "app" /\ dev' = dev
  BY <1>2 DEF BootloaderIsSilent, Receive, devVars
<1>4. UNCHANGED << toDev, finished, silent >> /\ pc = "listening"
  BY DEF Receive
<1>5. \/ pc' = "command" /\ lock' = FALSE
      \/ UNCHANGED << pc, lock >>
  BY DEF Receive
<1>6. BootloaderIsSilent'
  BY <1>3 DEF BootloaderIsSilent
<1>7. LockIsHeld'
  BY <1>4, <1>5 DEF LockIsHeld
<1>8. NothingSentYet' /\ HeardFirst'
  BY <1>3, <1>4, <1>5 DEF NothingSentYet, HeardFirst, Listens, Commands
<1>9. CommandsReachFirmware'
  BY <1>3, <1>4 DEF CommandsReachFirmware, NothingSentYet, Listens
<1> QED
  BY <1>6, <1>7, <1>8, <1>9

(* Without a heartbeat the operation can only fail. *)
LEMMA NoHeartbeatKeeps == ASSUME Inv, NoHeartbeat PROVE Inv'
<1> USE DEF Inv
<1>1. lock
  BY DEF NoHeartbeat, LockIsHeld
<1>2. /\ pc' = "finished" /\ finished' = "failure" /\ lock' = FALSE
      /\ UNCHANGED << toDev, toHost, dev >> /\ toDev = << >>
  BY <1>1 DEF NoHeartbeat, Finish, devVars, NothingSentYet, Listens
<1> QED
  BY <1>2 DEF BootloaderIsSilent, LockIsHeld, NothingSentYet, HeardFirst, Listens, Commands,
              CommandsReachFirmware

(* The host's other steps. *)
LEMMA HostKeeps ==
  ASSUME Inv, Connect \/ SendCommand \/ Reboot \/ RebootBroken \/ Raise \/ Cancel
  PROVE  Inv'
<1> USE DEF Inv
<1>1. UNCHANGED << dev, toHost, silent >>
  BY DEF Connect, SendCommand, Reboot, RebootBroken, Raise, Cancel, devVars
<1>2. BootloaderIsSilent'
  BY <1>1 DEF BootloaderIsSilent
<1>3. CASE Connect
  <2>1. LockIsHeld'
    BY <1>3 DEF Connect, LockIsHeld
  <2>2. /\ pc = "connecting" /\ pc' = "listening"
        /\ UNCHANGED << toDev, finished >>
    BY <1>3 DEF Connect
  <2> QED
    BY <1>1, <1>2, <2>1, <2>2 DEF NothingSentYet, HeardFirst, Listens, Commands,
                                  CommandsReachFirmware
<1>4. CASE SendCommand \/ Reboot \/ RebootBroken
  <2>1. dev = "app" /\ ~silent
    BY <1>4 DEF SendCommand, Reboot, RebootBroken, HeardFirst, Commands
  <2>2. \/ pc' = "finished" /\ lock' = FALSE
        \/ pc' = "reboot" /\ lock' = lock /\ pc = "command"
    BY <1>4 DEF SendCommand, Reboot, RebootBroken, Finish
  <2> QED
    BY <1>1, <1>2, <2>1, <2>2 DEF LockIsHeld, NothingSentYet, HeardFirst, Listens, Commands,
                                  CommandsReachFirmware
<1>5. CASE Raise \/ Cancel
  <2>1. /\ pc' = "finished" /\ lock' = FALSE /\ toDev' = toDev
        /\ finished' \in {"failure", "cancelled"}
    BY <1>5 DEF Raise, Cancel, Finish
  <2> QED
    BY <1>1, <1>2, <2>1 DEF LockIsHeld, NothingSentYet, HeardFirst, Listens, Commands,
                            CommandsReachFirmware
<1> QED
  BY <1>3, <1>4, <1>5

(* The device never changes what it runs, and takes packets off the link. *)
LEMMA DeviceKeeps ==
  ASSUME Inv, Talk \/ TalkDamaged \/ Execute \/ Lose \/ UNCHANGED vars
  PROVE  Inv'
<1> USE DEF Inv
<1>1. UNCHANGED << pc, lock, finished, silent, dev >>
  BY DEF Talk, TalkDamaged, Say, Execute, Lose, hostVars, devVars, vars
<1>2. BootloaderIsSilent'
  BY <1>1 DEF Talk, TalkDamaged, Say, Execute, Lose, vars, BootloaderIsSilent
<1>3. toDev' # << >> => toDev # << >>
  BY DEF Talk, TalkDamaged, Say, Execute, Lose, vars
<1> QED
  BY <1>1, <1>2, <1>3 DEF LockIsHeld, NothingSentYet, HeardFirst, Listens, Commands,
                          CommandsReachFirmware

LEMMA NextKeeps == ASSUME Inv, [Next]_vars PROVE Inv'
<1>1. CASE Receive
  BY <1>1, ReceiveKeeps
<1>2. CASE NoHeartbeat
  BY <1>2, NoHeartbeatKeeps
<1>3. CASE Connect \/ SendCommand \/ Reboot \/ RebootBroken \/ Raise \/ Cancel
  BY <1>3, HostKeeps
<1>4. CASE Talk \/ TalkDamaged \/ Execute \/ Lose \/ UNCHANGED vars
  BY <1>4, DeviceKeeps
<1> QED
  BY <1>1, <1>2, <1>3, <1>4 DEF Next, Host, Terminated

(* Neither flash_bootloader nor perform_factory_reset talks to a device    *)
(* that was not heard to run its main firmware, and neither reports success *)
(* for such a device.                                                      *)
THEOREM CommandsAlwaysReachFirmware == Spec => []CommandsReachFirmware
<1>1. Spec => []Inv
  BY InitHolds, NextKeeps, PTL DEF Spec
<1> QED
  BY <1>1, PTL DEF Inv

------------------------------------------------------------------------------
(* Packing. *)

(* A part of the first of two sequences, and the second of them. *)
LEMMA WithinPrefix ==
  ASSUME NEW s \in Seq(Nat), NEW t \in Seq(Nat), NEW m \in Nat \ {0}, NEW n \in Nat,
         n <= Len(s)
  PROVE  SubSeq(s \o t, m, n) = SubSeq(s, m, n)
<1> DEFINE u == s \o t
           x == SubSeq(u, m, n)
           y == SubSeq(s, m, n)
<1>1. /\ Len(s) \in Nat /\ Len(t) \in Nat /\ u \in Seq(Nat)
      /\ \A i \in 1..(Len(s) + Len(t)) : u[i] = IF i <= Len(s) THEN s[i] ELSE t[i - Len(s)]
  BY ConcatProperties, LenProperties
<1> HIDE DEF u
<1>2. \A i \in m..n : u[i] = s[i] /\ s[i] \in Nat
  <2> TAKE i \in m..n
  <2>1. i \in 1..Len(s) /\ i \in 1..(Len(s) + Len(t)) /\ i <= Len(s)
    BY <1>1
  <2> QED BY <1>1, <2>1, ElementOfSeq
<1>3. /\ x \in Seq(Nat) /\ Len(x) = IF m <= n THEN n - m + 1 ELSE 0
      /\ \A i \in 1..(n - m + 1) : x[i] = u[m + i - 1]
  <2>1. \A i \in m..n : u[i] \in Nat
    BY <1>2
  <2> QED BY <2>1, SubSeqProperties
<1>4. /\ y \in Seq(Nat) /\ Len(y) = IF m <= n THEN n - m + 1 ELSE 0
      /\ \A i \in 1..(n - m + 1) : y[i] = s[m + i - 1]
  <2>1. \A i \in m..n : s[i] \in Nat
    BY <1>2
  <2> QED BY <2>1, SubSeqProperties
<1> HIDE DEF x, y
<1>5. ASSUME NEW i \in 1..Len(x) PROVE x[i] = y[i]
  <2>1. i \in 1..(n - m + 1) /\ m + i - 1 \in m..n
    BY <1>3
  <2> QED BY <1>2, <1>3, <1>4, <2>1
<1>6. Len(x) = Len(y)
  BY <1>3, <1>4
<1>7. x = y
  BY <1>3, <1>4, <1>5, <1>6, SeqEqual
<1> QED BY <1>7 DEF x, y, u

LEMMA BehindPrefix ==
  ASSUME NEW s \in Seq(Nat), NEW t \in Seq(Nat)
  PROVE  SubSeq(s \o t, Len(s) + 1, Len(s \o t)) = t
<1> DEFINE u == s \o t
           k == Len(s)
           n == Len(t)
           x == SubSeq(u, k + 1, k + n)
<1>1. /\ k \in Nat /\ n \in Nat /\ u \in Seq(Nat) /\ Len(u) = k + n
      /\ \A i \in 1..(k + n) : u[i] = IF i <= k THEN s[i] ELSE t[i - k]
  BY ConcatProperties, LenProperties
<1> HIDE DEF u, k
<1>2. \A i \in (k + 1)..(k + n) : u[i] \in Nat
  <2> TAKE i \in (k + 1)..(k + n)
  <2>1. i \in 1..Len(u)
    BY <1>1
  <2> QED BY <1>1, <2>1, ElementOfSeq
<1>3. /\ x \in Seq(Nat) /\ Len(x) = IF k + 1 <= k + n THEN (k + n) - (k + 1) + 1 ELSE 0
      /\ \A i \in 1..((k + n) - (k + 1) + 1) : x[i] = u[(k + 1) + i - 1]
  <2>1. k + 1 \in Int /\ k + n \in Int
    BY <1>1
  <2> HIDE DEF n
  <2> QED BY <1>2, <2>1, SubSeqProperties
<1> HIDE DEF x
<1>4. Len(x) = n
  BY <1>1, <1>3
<1>5. ASSUME NEW i \in 1..n PROVE x[i] = t[i]
  <2>1. /\ i \in 1..((k + n) - (k + 1) + 1) /\ (k + 1) + i - 1 = k + i
        /\ k + i \in 1..(k + n) /\ ~(k + i <= k) /\ (k + i) - k = i
    BY <1>1
  <2> QED BY <1>1, <1>3, <2>1
<1>6. x = t
  BY <1>3, <1>4, <1>5, SeqEqual
<1> QED BY <1>1, <1>6 DEF x, u, k

Source == << SYSTEM_ID, COMPONENT_ID >>

(* The elements of two sequences in a row, counted in each of them. *)
LEMMA Joined ==
  ASSUME NEW s \in Seq(Nat), NEW t \in Seq(Nat)
  PROVE  /\ Len(s) \in Nat /\ Len(t) \in Nat
         /\ s \o t \in Seq(Nat) /\ Len(s \o t) = Len(s) + Len(t)
         /\ \A i \in 1..Len(s) : (s \o t)[i] = s[i]
         /\ \A i \in 1..Len(t) : (s \o t)[Len(s) + i] = t[i]
<1> DEFINE u == s \o t
<1>1. /\ Len(s) \in Nat /\ Len(t) \in Nat /\ u \in Seq(Nat) /\ Len(u) = Len(s) + Len(t)
      /\ \A i \in 1..(Len(s) + Len(t)) : u[i] = IF i <= Len(s) THEN s[i] ELSE t[i - Len(s)]
  BY ConcatProperties, LenProperties
<1> HIDE DEF u
<1>2. ASSUME NEW i \in 1..Len(s) PROVE u[i] = s[i]
  <2>1. i \in 1..(Len(s) + Len(t)) /\ i <= Len(s)
    BY <1>1
  <2> QED BY <1>1, <2>1
<1>3. ASSUME NEW i \in 1..Len(t) PROVE u[Len(s) + i] = t[i]
  <2>1. /\ Len(s) + i \in 1..(Len(s) + Len(t)) /\ ~(Len(s) + i <= Len(s))
        /\ (Len(s) + i) - Len(s) = i
    BY <1>1
  <2> QED BY <1>1, <2>1
<1> QED BY <1>1, <1>2, <1>3 DEF u

(* Two bytes behind a sequence. *)
LEMMA BytesBehind ==
  ASSUME NEW s \in Seq(Nat), NEW lo \in Nat, NEW hi \in Nat
  PROVE  /\ << lo, hi >> \in Seq(Nat) /\ s \o << lo, hi >> \in Seq(Nat)
         /\ Len(s \o << lo, hi >>) = Len(s) + 2
         /\ \A i \in 1..Len(s) : (s \o << lo, hi >>)[i] = s[i]
         /\ (s \o << lo, hi >>)[Len(s) + 1] = lo
         /\ (s \o << lo, hi >>)[Len(s) + 2] = hi
<1> DEFINE t == << lo, hi >>
           u == s \o t
<1>1. t \in Seq(Nat) /\ Len(t) = 2 /\ t[1] = lo /\ t[2] = hi
  OBVIOUS
<1> HIDE DEF t
<1>2. /\ Len(s) \in Nat /\ u \in Seq(Nat) /\ Len(u) = Len(s) + Len(t)
      /\ \A i \in 1..Len(s) : u[i] = s[i]
      /\ \A i \in 1..Len(t) : u[Len(s) + i] = t[i]
  BY <1>1, Joined
<1> HIDE DEF u
<1>3. 1 \in 1..Len(t) /\ 2 \in 1..Len(t)
  BY <1>1
<1>4. u[Len(s) + 1] = lo /\ u[Len(s) + 2] = hi /\ Len(u) = Len(s) + 2
  BY <1>1, <1>2, <1>3
<1>5. t \in Seq(Nat) /\ u \in Seq(Nat)
  BY <1>1, <1>2
<1> QED BY <1>2, <1>4, <1>5 DEF t, u

LEMMA ShortIsSplit ==
  ASSUME NEW c, FitsShort(c)
  PROVE  c % 256 \in Nat /\ c \div 256 \in Nat /\ (c % 256) + 256 * (c \div 256) = c
<1>1. c \in Nat
  BY DEF FitsShort
<1> QED BY <1>1

(* The header of MAVLink 1. *)
HeaderOf(f, id, n) == header(TRUE, id, f, n, Source)

LEMMA HeaderType ==
  ASSUME NEW id \in Nat, NEW n \in Nat, NEW f, Len(f) \in Nat
  PROVE  /\ HeaderOf(f, id, n) \in Seq(Nat) /\ Len(HeaderOf(f, id, n)) = 6
         /\ HeaderOf(f, id, n)[1] = MARKER_V1 /\ HeaderOf(f, id, n)[6] = id
<1> DEFINE a == << MARKER_V1, Len(f), n >>
           s == << SYSTEM_ID, COMPONENT_ID >>
           z == << id >>
           as == a \o s
<1>1. a \in Seq(Nat) /\ Len(a) = 3 /\ a[1] = MARKER_V1
  BY DEF MARKER_V1
<1>2. s \in Seq(Nat) /\ Len(s) = 2
  BY DEF SYSTEM_ID, COMPONENT_ID
<1>3. z \in Seq(Nat) /\ Len(z) = 1 /\ z[1] = id
  OBVIOUS
<1>4. HeaderOf(f, id, n) = as \o z
  BY DEF header, HeaderOf, Source
<1> HIDE DEF a, s, z
<1>5. as \in Seq(Nat) /\ Len(as) = 5 /\ as[1] = MARKER_V1
  <2>1. /\ as \in Seq(Nat) /\ Len(as) = Len(a) + Len(s)
        /\ \A i \in 1..Len(a) : as[i] = a[i]
    BY <1>1, <1>2, Joined
  <2> HIDE DEF as
  <2>2. 1 \in 1..Len(a)
    BY <1>1
  <2>3. as[1] = MARKER_V1
    BY <1>1, <2>1, <2>2
  <2>4. Len(as) = 5
    BY <1>1, <1>2, <2>1
  <2> QED BY <2>1, <2>3, <2>4
<1> HIDE DEF as
<1> DEFINE h == as \o z
<1>6. h \in Seq(Nat) /\ Len(h) = 6 /\ h[1] = MARKER_V1 /\ h[6] = id
  <2>1. /\ h \in Seq(Nat) /\ Len(h) = Len(as) + Len(z)
        /\ \A i \in 1..Len(as) : h[i] = as[i]
        /\ \A i \in 1..Len(z) : h[Len(as) + i] = z[i]
    BY <1>3, <1>5, Joined
  <2> HIDE DEF h
  <2>2. 1 \in 1..Len(as) /\ 1 \in 1..Len(z) /\ Len(as) + 1 = 6
    BY <1>3, <1>5
  <2>3. h[1] = MARKER_V1
    BY <1>5, <2>1, <2>2
  <2>4. h[6] = id
    BY <1>3, <2>1, <2>2
  <2> QED BY <1>3, <1>5, <2>1, <2>3, <2>4
<1> QED BY <1>4, <1>6

(* A packet in front of which a receiver finds the marker of MAVLink 1. *)
LEMMA HowItIsRead ==
  ASSUME NEW packet, NEW k \in Nat, NEW id \in Nat, NEW lo, NEW hi,
         Len(packet) = k + 2, packet[1] = MARKER_V1, packet[6] = id,
         packet[k + 1] = lo, packet[k + 2] = hi
  PROVE  /\ message_id(packet) = id
         /\ lo + 256 * hi = Checksum(SubSeq(packet, 2, k) \o << crc_extra(id) >>) =>
              crc_matches(packet)
<1>1. ~is_v2(packet)
  BY DEF is_v2, MARKER_V1, MARKER_V2
<1>2. message_id(packet) = id
  BY <1>1 DEF message_id
<1>3. crc_index(packet) = k + 1
  <2>1. signature_len(packet) = 0
    BY <1>1 DEF signature_len
  <2> QED BY <2>1 DEF crc_index
<1>4. (k + 1) - 1 = k /\ (k + 1) + 1 = k + 2
  OBVIOUS
<1> QED BY <1>2, <1>3, <1>4 DEF crc_matches

(* What is packed as MAVLink 1 is a packet of its type, holds the fields   *)
(* where the receiver looks for them, and has the right checksum.          *)
LEMMA PackedIsWhole ==
  ASSUME NEW f \in Seq(Nat), NEW id \in Nat, NEW n \in Nat,
         FitsShort(checksum_of(HeaderOf(f, id, n) \o f, id))
  PROVE  LET packet == pack_msg(TRUE, id, f, n, Source)
         IN  /\ packet[1] = MARKER_V1 /\ message_id(packet) = id /\ crc_matches(packet)
             /\ SubSeq(packet, HEADER_LEN_V1 + 1, Len(packet) - 2) = f
<1> DEFINE h == HeaderOf(f, id, n)
           b == h \o f
           c == checksum_of(b, id)
           lo == c % 256
           hi == c \div 256
           t == << lo, hi >>
           packet == b \o t
           k == Len(b)
<1>1. pack_msg(TRUE, id, f, n, Source) = packet
  BY DEF pack_msg, short, HeaderOf
<1>2. FitsShort(c)
  OBVIOUS
<1>3. c = Checksum(SubSeq(b, 2, k) \o << crc_extra(id) >>)
  BY DEF checksum_of, without
<1> HIDE DEF c
<1>4. lo \in Nat /\ hi \in Nat /\ lo + 256 * hi = c
  BY <1>2, ShortIsSplit
<1> HIDE DEF lo, hi
<1>5. h \in Seq(Nat) /\ Len(h) = 6 /\ h[1] = MARKER_V1 /\ h[6] = id
  <2>1. Len(f) \in Nat
    BY LenProperties
  <2> QED BY <2>1, HeaderType
<1> HIDE DEF h
<1>6. b \in Seq(Nat) /\ k \in Nat /\ 6 <= k /\ b[1] = MARKER_V1 /\ b[6] = id
  <2>1. /\ b \in Seq(Nat) /\ k = Len(h) + Len(f) /\ Len(f) \in Nat
        /\ \A i \in 1..Len(h) : b[i] = h[i]
    BY <1>5, Joined
  <2> HIDE DEF b
  <2>2. 1 \in 1..Len(h) /\ 6 \in 1..Len(h)
    BY <1>5
  <2>3. b[1] = MARKER_V1 /\ b[6] = id
    BY <1>5, <2>1, <2>2
  <2>4. k \in Nat /\ 6 <= k
    <3>1. k = 6 + Len(f) /\ Len(f) \in Nat
      BY <1>5, <2>1
    <3> HIDE DEF k
    <3> QED BY <3>1
  <2>5. b \in Seq(Nat)
    BY <2>1
  <2> QED BY <2>3, <2>4, <2>5
<1>7. SubSeq(b, HEADER_LEN_V1 + 1, k) = f
  BY <1>5, BehindPrefix DEF HEADER_LEN_V1
<1> HIDE DEF b
<1>8. /\ t \in Seq(Nat) /\ packet \in Seq(Nat) /\ Len(packet) = k + 2
      /\ \A i \in 1..k : packet[i] = b[i]
      /\ packet[k + 1] = lo /\ packet[k + 2] = hi
  BY <1>4, <1>6, BytesBehind
<1>9. packet[1] = MARKER_V1 /\ packet[6] = id
  <2> HIDE DEF packet, k
  <2>1. 1 \in 1..k /\ 6 \in 1..k
    BY <1>6
  <2> QED BY <1>6, <1>8, <2>1
<1> HIDE DEF t
<1>10. SubSeq(packet, 2, k) = SubSeq(b, 2, k)
  <2>1. 2 \in Nat \ {0} /\ k <= Len(b)
    BY <1>6
  <2> QED BY <1>6, <1>8, <2>1, WithinPrefix
<1>11. SubSeq(packet, HEADER_LEN_V1 + 1, k) = f
  <2>1. HEADER_LEN_V1 + 1 \in Nat \ {0} /\ k <= Len(b)
    BY <1>6 DEF HEADER_LEN_V1
  <2>2. SubSeq(packet, HEADER_LEN_V1 + 1, k) = SubSeq(b, HEADER_LEN_V1 + 1, k)
    BY <1>6, <1>8, <2>1, WithinPrefix
  <2> QED BY <1>7, <2>2
<1> HIDE DEF packet, k
<1>12. Len(packet) - 2 = k
  BY <1>6, <1>8
<1>13. lo + 256 * hi = Checksum(SubSeq(packet, 2, k) \o << crc_extra(id) >>)
  BY <1>3, <1>4, <1>10
<1>14. message_id(packet) = id /\ crc_matches(packet)
  <2>1. Len(packet) = k + 2 /\ packet[k + 1] = lo /\ packet[k + 2] = hi /\ k \in Nat
    BY <1>6, <1>8
  <2>2. message_id(packet) = id
    BY <1>9, <2>1, HowItIsRead
  <2> QED BY <1>9, <1>13, <2>1, <2>2, HowItIsRead
<1> QED BY <1>1, <1>9, <1>11, <1>12, <1>14

------------------------------------------------------------------------------
(* The messages of the uploader, by what the firmware does about them. *)
Messages == {RebootMessage, FlashMessage, ResetMessage}
Command == {"flash_bootloader", "factory_reset", "reboot"}
MessageOf(c) ==
  CASE c = "flash_bootloader" -> FlashMessage
    [] c = "factory_reset" -> ResetMessage
    [] c = "reboot" -> RebootMessage

LEMMA Bytes ==
  /\ \A s, t \in Seq(Nat) : s \o t \in Seq(Nat)
  /\ \A n \in Nat : Zeros(n) \in Seq(Nat)
  /\ \A n \in Nat : short(n) \in Seq(Nat)
<1>1. \A s, t \in Seq(Nat) : s \o t \in Seq(Nat)
  BY Joined
<1>2. \A n \in Nat : Zeros(n) \in Seq(Nat)
  BY DEF Zeros
<1>3. ASSUME NEW n \in Nat PROVE short(n) \in Seq(Nat)
  <2>1. n % 256 \in Nat /\ n \div 256 \in Nat
    OBVIOUS
  <2> QED BY <2>1 DEF short
<1> QED BY <1>1, <1>2, <1>3

LEMMA CommandLongType ==
  ASSUME NEW command \in Nat, NEW confirmation \in Nat,
         NEW param1 \in Seq(Nat), NEW param5 \in Seq(Nat)
  PROVE  command_long(command, confirmation, param1, param5) \in Seq(Nat)
<1> DEFINE a == param1 \o Zeros(12)
           b == a \o param5
           c == b \o Zeros(8)
           d == c \o short(command)
           e == d \o << 0, 1, confirmation >>
<1>1. /\ Zeros(12) \in Seq(Nat) /\ Zeros(8) \in Seq(Nat) /\ short(command) \in Seq(Nat)
      /\ << 0, 1, confirmation >> \in Seq(Nat)
  <2>1. 12 \in Nat /\ 8 \in Nat /\ << 0, 1, confirmation >> \in Seq(Nat)
    OBVIOUS
  <2>2. Zeros(12) \in Seq(Nat) /\ Zeros(8) \in Seq(Nat) /\ short(command) \in Seq(Nat)
    BY <2>1, Bytes
  <2> QED BY <2>1, <2>2
<1>2. e = command_long(command, confirmation, param1, param5)
  BY DEF command_long
<1>3. a \in Seq(Nat)
  BY <1>1, Bytes
<1> HIDE DEF a
<1>4. b \in Seq(Nat)
  BY <1>3, Bytes
<1> HIDE DEF b
<1>5. c \in Seq(Nat)
  BY <1>1, <1>4, Bytes
<1> HIDE DEF c
<1>6. d \in Seq(Nat)
  BY <1>1, <1>5, Bytes
<1> HIDE DEF d
<1>7. e \in Seq(Nat)
  BY <1>1, <1>6, Bytes
<1> QED BY <1>2, <1>7

LEMMA MessageType ==
  ASSUME NEW m \in Messages
  PROVE  m.id \in Nat /\ m.id < 256 /\ m.fields \in Seq(Nat)
<1>1. /\ ONE \in Seq(Nat) /\ MAGIC \in Seq(Nat) /\ FORMAT_VERSION \in Seq(Nat)
      /\ Zeros(4) \in Seq(Nat) /\ Len(FORMAT_VERSION) = 2
  <2>1. 4 \in Nat
    OBVIOUS
  <2>2. Zeros(4) \in Seq(Nat)
    BY <2>1, Bytes
  <2> QED BY <2>2 DEF ONE, MAGIC, FORMAT_VERSION
<1>2. RebootMessage.fields \in Seq(Nat)
  <2>1. MAV_CMD_PREFLIGHT_REBOOT_SHUTDOWN \in Nat
    BY DEF MAV_CMD_PREFLIGHT_REBOOT_SHUTDOWN
  <2> QED BY <1>1, <2>1, CommandLongType DEF RebootMessage
<1>3. FlashMessage.fields \in Seq(Nat)
  <2>1. MAV_CMD_FLASH_BOOTLOADER \in Nat
    BY DEF MAV_CMD_FLASH_BOOTLOADER
  <2> QED BY <1>1, <2>1, CommandLongType DEF FlashMessage
<1>4. ResetMessage.fields \in Seq(Nat)
  <2> DEFINE a == Zeros(4) \o << 0, 1 >>
             b == a \o FORMAT_VERSION
             z == Zeros(16 - Len(FORMAT_VERSION) + 1)
  <2>1. ResetMessage.fields = b \o z
    BY DEF ResetMessage, param_set
  <2>2. z \in Seq(Nat)
    <3>1. 16 - Len(FORMAT_VERSION) + 1 \in Nat
      BY <1>1
    <3> QED BY <3>1, Bytes
  <2> HIDE DEF z
  <2>3. << 0, 1 >> \in Seq(Nat)
    OBVIOUS
  <2>4. a \in Seq(Nat)
    BY <1>1, <2>3, Bytes
  <2> HIDE DEF a
  <2>5. b \in Seq(Nat)
    BY <1>1, <2>4, Bytes
  <2> HIDE DEF b
  <2> QED BY <2>1, <2>2, <2>5, Bytes
<1>5. /\ RebootMessage.id = 76 /\ FlashMessage.id = 76 /\ ResetMessage.id = 23
  BY DEF RebootMessage, FlashMessage, ResetMessage, COMMAND_LONG, PARAM_SET
<1> QED BY <1>2, <1>3, <1>4, <1>5 DEF Messages

(* The main firmware understands every message that the uploader sends,    *)
(* whatever number its packet has.                                         *)
Sent == [message : Messages, seq : Octet, source : {Source}]

LEMMA WhatIsSentIsUnderstood ==
  ASSUME NEW c \in Command, NEW p \in Sent, p.message = MessageOf(c),
         c = op \/ c = "reboot"
  PROVE  c \in Understood(wire(p))
<1> DEFINE m == p.message
           n == p.seq
           packet == pack_msg(TRUE, m.id, m.fields, n, Source)
<1>1. m \in Messages /\ n \in Octet /\ n \in Nat /\ p.source = Source
  BY DEF Sent, Octet
<1>2. m.id \in Nat /\ m.id < 256 /\ m.fields \in Seq(Nat)
  BY <1>1, MessageType
<1>3. wire(p) = packet
  <2>1. p # BootRequest
    BY DEF Sent, BootRequest
  <2>2. (m.id < 256) = TRUE
    BY <1>2
  <2> QED BY <1>1, <2>1, <2>2 DEF wire
<1>4. FitsShort(checksum_of(HeaderOf(m.fields, m.id, n) \o m.fields, m.id))
  BY <1>1, ChecksumAssumption DEF Messages, HeaderOf, Source
<1>5. /\ packet[1] = MARKER_V1 /\ message_id(packet) = m.id /\ crc_matches(packet)
      /\ SubSeq(packet, HEADER_LEN_V1 + 1, Len(packet) - 2) = m.fields
  <2> HIDE DEF m, n
  <2> QED BY <1>1, <1>2, <1>4, PackedIsWhole
<1> HIDE DEF packet
<1>6. CASE c = op /\ op # "reboot"
  <2>1. m = OperationMessage
    BY <1>6 DEF MessageOf, OperationMessage, Command
  <2> QED BY <1>3, <1>5, <1>6, <2>1 DEF Understood
<1>7. CASE c = "reboot"
  <2>1. m = RebootMessage
    BY <1>7 DEF MessageOf
  <2> QED BY <1>3, <1>5, <1>7, <2>1 DEF Understood
<1> QED BY <1>6, <1>7

------------------------------------------------------------------------------
(* A command that is asked for was carried out already, or is on its way. *)
Asked(c) == c \in done \/ \E i \in 1..Len(toDev) : toDev[i].message = MessageOf(c)

SenderTypes ==
  /\ op \in {"flash_bootloader", "factory_reset"}
  /\ pc \in {"connecting", "listening", "command", "reboot", "finished"}
  /\ faults \in Nat
  /\ {"seq", "source"} \subseteq DOMAIN mav /\ mav.seq \in Octet /\ mav.source = Source
  /\ toDev \in Seq(Sent)

(* As long as nothing is lost, what comes first has been asked for: the    *)
(* reset before the reboot, and both before a success is reported.         *)
OperationAsked == \A c \in Command : c = op => Asked(c)
RebootAsked == op = "factory_reset" => Asked("reboot")
AskedInOrder ==
  /\ pc # "finished" => finished = "no"
  /\ pc = "reboot" => op = "factory_reset" /\ (faults = 0 => OperationAsked)
  /\ finished = "success" /\ faults = 0 => OperationAsked /\ RebootAsked

DoneInv == SenderTypes /\ AskedInOrder

LEMMA DoneInitially == Init => DoneInv
<1> SUFFICES ASSUME Init PROVE DoneInv
  OBVIOUS
<1>1. mav.seq = 0 /\ mav.source = Source /\ {"seq", "source"} \subseteq DOMAIN mav
  BY DEF Init, NewMavlink, Source
<1>2. 0 \in Octet
  BY DEF Octet
<1>3. toDev \in Seq(Sent) /\ pc = "connecting" /\ finished = "no" /\ faults = 0
      /\ op \in {"flash_bootloader", "factory_reset"}
  BY DEF Init
<1> QED BY <1>1, <1>2, <1>3 DEF DoneInv, SenderTypes, AskedInOrder

(* The numbers of packets wrap around. *)
LEMMA NumbersWrap == ASSUME NEW n \in Octet PROVE (n + 1) % 256 \in Octet
<1>1. n \in Nat
  BY DEF Octet
<1>2. (n + 1) % 256 \in Int /\ 0 <= (n + 1) % 256 /\ (n + 1) % 256 < 256
  BY <1>1
<1>3. \A k \in Int : 0 <= k /\ k < 256 => k \in Octet
  BY DEF Octet
<1> QED BY <1>2, <1>3

(* Sending asks for what is sent, and forgets nothing. *)
LEMMA SendingAsks ==
  ASSUME SenderTypes, NEW m \in Messages, SendMessage(m), done' = done
  PROVE  /\ {"seq", "source"} \subseteq DOMAIN mav' /\ mav'.seq \in Octet
         /\ mav'.source = Source /\ toDev' \in Seq(Sent)
         /\ \A c \in Command : Asked(c) \/ MessageOf(c) = m => Asked(c)'
<1> DEFINE p == [message |-> m, seq |-> mav.seq, source |-> mav.source]
<1>1. mav' = [mav EXCEPT !.seq = (@ + 1) % 256]
  BY DEF SendMessage, encoded
<1>2. (mav.seq + 1) % 256 \in Octet
  BY NumbersWrap DEF SenderTypes
<1>3. {"seq", "source"} \subseteq DOMAIN mav' /\ mav'.seq \in Octet /\ mav'.source = Source
  BY <1>1, <1>2 DEF SenderTypes
<1>4. p \in Sent /\ p.message = m
  BY DEF SenderTypes, Sent
<1>5. toDev' = Append(toDev, p) /\ toDev \in Seq(Sent)
  BY DEF SendMessage, SenderTypes
<1> HIDE DEF p
<1>6. /\ toDev' \in Seq(Sent) /\ Len(toDev) \in Nat /\ Len(toDev') = Len(toDev) + 1
      /\ \A i \in 1..Len(toDev) : toDev'[i] = toDev[i]
      /\ toDev'[Len(toDev) + 1] = p
  BY <1>4, <1>5, AppendProperties, LenProperties
<1>7. ASSUME NEW c \in Command, Asked(c) \/ MessageOf(c) = m PROVE Asked(c)'
  <2>1. CASE c \in done
    BY <2>1 DEF Asked
  <2>2. CASE MessageOf(c) = m
    <3>1. Len(toDev) + 1 \in 1..Len(toDev')
      BY <1>6
    <3> QED BY <1>4, <1>6, <2>2, <3>1 DEF Asked, MessageOf
  <2>3. CASE \E i \in 1..Len(toDev) : toDev[i].message = MessageOf(c)
    <3>1. PICK i \in 1..Len(toDev) : toDev[i].message = MessageOf(c)
      BY <2>3
    <3>2. i \in 1..Len(toDev')
      BY <1>6
    <3> QED BY <1>6, <3>1, <3>2 DEF Asked, MessageOf
  <2> QED BY <1>7, <2>1, <2>2, <2>3 DEF Asked
<1> QED BY <1>3, <1>6, <1>7

(* What the firmware takes off the link it carries out. *)
LEMMA ExecutingKeeps ==
  ASSUME Inv, DoneInv, Execute, NEW c \in Command, c = op \/ c = "reboot", Asked(c)
  PROVE  Asked(c)'
<1>1. /\ toDev # << >> /\ toDev' = Tail(toDev) /\ dev = "app"
      /\ done' = done \union Understood(wire(Head(toDev)))
  BY DEF Execute, Inv, CommandsReachFirmware
<1>2. /\ toDev \in Seq(Sent) /\ Head(toDev) = toDev[1] /\ toDev[1] \in Sent
      /\ Len(toDev) \in Nat /\ Len(toDev') = Len(toDev) - 1
      /\ \A i \in 1..Len(toDev') : toDev'[i] = toDev[i + 1]
  <2>1. toDev \in Seq(Sent)
    BY DEF DoneInv, SenderTypes
  <2>2. Head(toDev) = toDev[1]
    BY <1>1, <2>1
  <2> QED BY <1>1, <2>1, <2>2, HeadTailProperties, LenProperties
<1>3. CASE c \in done
  BY <1>1, <1>3 DEF Asked
<1>4. CASE \E i \in 1..Len(toDev) : toDev[i].message = MessageOf(c)
  <2>1. PICK i \in 1..Len(toDev) : toDev[i].message = MessageOf(c)
    BY <1>4
  <2>2. CASE i = 1
    <3>1. c \in Understood(wire(Head(toDev)))
      BY <1>2, <2>1, <2>2, WhatIsSentIsUnderstood
    <3> QED BY <1>1, <3>1 DEF Asked
  <2>3. CASE i # 1
    <3>1. i - 1 \in 1..Len(toDev') /\ (i - 1) + 1 = i
      BY <1>2, <2>3
    <3> QED BY <1>2, <2>1, <3>1 DEF Asked, MessageOf
  <2> QED BY <2>2, <2>3
<1> QED BY <1>3, <1>4 DEF Asked

(* The steps that send: the operation, and the reboot behind a reset. *)
LEMMA SendCommandAsks == ASSUME Inv, DoneInv, SendCommand PROVE DoneInv'
<1>1. OperationMessage \in Messages /\ \A c \in Command : c = op => MessageOf(c) = OperationMessage
  BY DEF DoneInv, SenderTypes, OperationMessage, Messages, MessageOf, Command
<1>2. /\ pc = "command" /\ SendMessage(OperationMessage)
      /\ done' = done /\ op' = op /\ faults' = faults
      /\ \/ op = "factory_reset" /\ pc' = "reboot" /\ finished' = finished
         \/ op = "flash_bootloader" /\ pc' = "finished" /\ finished' = "success"
  BY DEF SendCommand, Finish, devVars, DoneInv, SenderTypes
<1>3. /\ {"seq", "source"} \subseteq DOMAIN mav' /\ mav'.seq \in Octet
      /\ mav'.source = Source /\ toDev' \in Seq(Sent)
      /\ \A c \in Command : Asked(c) \/ MessageOf(c) = OperationMessage => Asked(c)'
  BY <1>1, <1>2, SendingAsks DEF DoneInv
<1>4. \A c \in Command : c = op' => Asked(c)'
  BY <1>1, <1>2, <1>3
<1>5. finished = "no"
  BY <1>2 DEF DoneInv, AskedInOrder
<1>6. SenderTypes'
  BY <1>2, <1>3 DEF DoneInv, SenderTypes
<1>7. OperationAsked'
  BY <1>4 DEF OperationAsked
<1>8. AskedInOrder'
  BY <1>2, <1>5, <1>7 DEF AskedInOrder, RebootAsked
<1> QED BY <1>6, <1>8 DEF DoneInv

LEMMA RebootAsks == ASSUME Inv, DoneInv, Reboot PROVE DoneInv'
<1>1. /\ pc = "reboot" /\ pc' = "finished" /\ op' = op /\ faults' = faults /\ done' = done
      /\ \/ SendMessage(RebootMessage) /\ finished' = "success"
         \/ UNCHANGED << mav, toDev >> /\ finished' = "failure"
  BY DEF Reboot, Finish, devVars
<1>2. CASE SendMessage(RebootMessage) /\ finished' = "success"
  <2>1. RebootMessage \in Messages /\ "reboot" \in Command /\ MessageOf("reboot") = RebootMessage
    BY DEF Messages, Command, MessageOf
  <2>2. /\ {"seq", "source"} \subseteq DOMAIN mav' /\ mav'.seq \in Octet
        /\ mav'.source = Source /\ toDev' \in Seq(Sent)
        /\ \A c \in Command : Asked(c) \/ MessageOf(c) = RebootMessage => Asked(c)'
    BY <1>1, <1>2, <2>1, SendingAsks DEF DoneInv
  <2>3. SenderTypes'
    BY <1>1, <2>2 DEF DoneInv, SenderTypes
  <2>4. RebootAsked'
    BY <2>1, <2>2 DEF RebootAsked, Asked
  <2>5. faults = 0 => OperationAsked
    BY <1>1 DEF DoneInv, AskedInOrder
  <2>6. faults = 0 => OperationAsked'
    BY <1>1, <2>2, <2>5 DEF OperationAsked
  <2>7. AskedInOrder'
    BY <1>1, <2>4, <2>6 DEF AskedInOrder
  <2> QED BY <2>3, <2>7 DEF DoneInv
<1>3. CASE UNCHANGED << mav, toDev >> /\ finished' = "failure"
  <2>1. SenderTypes'
    BY <1>1, <1>3 DEF DoneInv, SenderTypes
  <2>2. AskedInOrder'
    BY <1>1, <1>3 DEF AskedInOrder
  <2> QED BY <2>1, <2>2 DEF DoneInv
<1> QED BY <1>1, <1>2, <1>3

(* Talking changes nothing of the sender. *)
LEMMA TalkIsApart ==
  ASSUME SenderTypes, Talk \/ TalkDamaged \/ UNCHANGED vars
  PROVE  /\ UNCHANGED << op, pc, mav, toDev, done, finished >>
         /\ faults' \in Nat /\ (faults' = 0 => faults = 0)
<1>1. CASE Talk
  <2>1. faults' = faults /\ UNCHANGED << hostVars, toDev, dev, done >>
    BY <1>1 DEF Talk, Say
  <2> QED BY <2>1 DEF hostVars, SenderTypes
<1>2. CASE TalkDamaged
  <2>1. faults' = faults + 1 /\ UNCHANGED << hostVars, toDev, dev, done >>
    BY <1>2 DEF TalkDamaged, Say, Fault
  <2> QED BY <2>1 DEF hostVars, SenderTypes
<1>3. CASE UNCHANGED vars
  BY <1>3 DEF vars, hostVars, devVars, SenderTypes
<1> QED BY <1>1, <1>2, <1>3

(* The steps that send nothing and take nothing off the link. *)
LEMMA OthersAsk ==
  ASSUME Inv, DoneInv,
         \/ Connect \/ Receive \/ NoHeartbeat \/ RebootBroken \/ Raise \/ Cancel
         \/ Talk \/ TalkDamaged \/ UNCHANGED vars
  PROVE  DoneInv'
<1>1. /\ op' = op /\ toDev' = toDev /\ done' = done
      /\ pc' \in {"connecting", "listening", "command", "reboot", "finished"}
      /\ {"seq", "source"} \subseteq DOMAIN mav' /\ mav'.seq \in Octet /\ mav'.source = Source
      /\ faults' \in Nat
  <2> USE DEF DoneInv, SenderTypes
  <2>1. CASE Connect
    BY <2>1 DEF Connect, devVars
  <2>2. CASE Receive
    <3>1. /\ op' = op /\ toDev' = toDev /\ done' = done /\ faults' = faults
          /\ pc' \in {pc, "command"}
          /\ \E x, y : mav' = [mav EXCEPT !.buf = x, !.expected = y]
      BY <2>2 DEF Receive, devVars
    <3> QED BY <3>1
  <2>3. CASE NoHeartbeat
    <3>1. lock
      BY <2>3 DEF NoHeartbeat, Inv, LockIsHeld
    <3> QED BY <2>3, <3>1 DEF NoHeartbeat, Finish, devVars
  <2>4. CASE RebootBroken
    <3>1. (mav.seq + 1) % 256 \in Octet
      BY NumbersWrap
    <3> QED BY <2>4, <3>1 DEF RebootBroken, Finish, Fault, encoded, devVars
  <2>5. CASE Raise \/ Cancel
    BY <2>5 DEF Raise, Cancel, Finish, Fault, devVars
  <2>6. CASE Talk \/ TalkDamaged \/ UNCHANGED vars
    BY <2>6, TalkIsApart
  <2> QED BY <2>1, <2>2, <2>3, <2>4, <2>5, <2>6
<1>2. SenderTypes'
  BY <1>1 DEF DoneInv, SenderTypes
<1>3. /\ OperationAsked' <=> OperationAsked
      /\ RebootAsked' <=> RebootAsked
  BY <1>1 DEF OperationAsked, RebootAsked, Asked, MessageOf
<1>4. \/ pc' = "finished" /\ finished' # "success"
      \/ pc' = "finished" /\ faults' # 0
      \/ pc' # "finished" /\ pc' # "reboot" /\ finished' = "no"
      \/ UNCHANGED << pc, finished >> /\ (faults' = 0 => faults = 0)
  <2> USE DEF DoneInv, SenderTypes, AskedInOrder
  <2>1. CASE Connect
    BY <2>1 DEF Connect
  <2>2. CASE Receive
    <3>1. pc = "listening" /\ pc' \in {pc, "command"} /\ finished' = finished
      BY <2>2 DEF Receive
    <3> QED BY <3>1
  <2>3. CASE NoHeartbeat
    <3>1. lock
      BY <2>3 DEF NoHeartbeat, Inv, LockIsHeld
    <3> QED BY <2>3, <3>1 DEF NoHeartbeat, Finish
  <2>4. CASE RebootBroken
    BY <2>4 DEF RebootBroken, Finish, Fault
  <2>5. CASE Raise \/ Cancel
    BY <2>5 DEF Raise, Cancel, Finish, Fault
  <2>6. CASE Talk \/ TalkDamaged \/ UNCHANGED vars
    BY <2>6, TalkIsApart
  <2> QED BY <2>1, <2>2, <2>3, <2>4, <2>5, <2>6
<1>5. AskedInOrder'
  BY <1>1, <1>3, <1>4 DEF DoneInv, AskedInOrder
<1> QED BY <1>2, <1>5 DEF DoneInv

(* The steps that take a packet off the link. *)
LEMMA TakingAsks == ASSUME Inv, DoneInv, Execute \/ Lose PROVE DoneInv'
<1>1. /\ toDev # << >> /\ toDev' = Tail(toDev) /\ UNCHANGED << op, pc, mav, finished >>
      /\ faults' \in Nat /\ (faults' = 0 => Execute /\ faults = 0)
  BY DEF Execute, Lose, Fault, hostVars, devVars, DoneInv, SenderTypes
<1>2. SenderTypes'
  <2>1. toDev' \in Seq(Sent)
    BY <1>1, HeadTailProperties DEF DoneInv, SenderTypes
  <2> QED BY <1>1, <2>1 DEF DoneInv, SenderTypes
<1>3. ASSUME faults' = 0, OperationAsked PROVE OperationAsked'
  <2>1. ASSUME NEW c \in Command, c = op PROVE Asked(c)'
    BY <1>1, <1>3, <2>1, ExecutingKeeps DEF OperationAsked
  <2> QED BY <1>1, <2>1 DEF OperationAsked
<1>4. ASSUME faults' = 0, RebootAsked PROVE RebootAsked'
  <2>1. "reboot" \in Command
    BY DEF Command
  <2>2. ASSUME NEW c \in Command, c = "reboot", Asked(c) PROVE Asked(c)'
    BY <1>1, <1>4, <2>2, ExecutingKeeps
  <2>3. Asked("reboot") => Asked("reboot")'
    BY <2>1, <2>2 DEF Asked
  <2> QED BY <1>1, <1>4, <2>3 DEF RebootAsked
<1>5. AskedInOrder'
  BY <1>1, <1>3, <1>4 DEF DoneInv, AskedInOrder
<1> QED BY <1>2, <1>5 DEF DoneInv

LEMMA NextAsks == ASSUME Inv, DoneInv, [Next]_vars PROVE DoneInv'
<1>1. CASE SendCommand
  BY <1>1, SendCommandAsks
<1>2. CASE Reboot
  BY <1>2, RebootAsks
<1>3. CASE Execute \/ Lose
  BY <1>3, TakingAsks
<1>4. CASE \/ Connect \/ Receive \/ NoHeartbeat \/ RebootBroken \/ Raise \/ Cancel
           \/ Talk \/ TalkDamaged \/ UNCHANGED vars
  BY <1>4, OthersAsk
<1> QED
  BY <1>1, <1>2, <1>3, <1>4 DEF Next, Host, Terminated

LEMMA AskedIsDone == DoneInv => UndisturbedSuccessIsDone
<1> SUFFICES ASSUME DoneInv, finished = "success", toDev = << >>, faults = 0
             PROVE  op \in done /\ (op = "factory_reset" => "reboot" \in done)
  BY DEF UndisturbedSuccessIsDone
<1>1. OperationAsked /\ RebootAsked
  BY DEF DoneInv, AskedInOrder
<1>2. \A c : Asked(c) => c \in done
  BY DEF Asked
<1>3. op \in Command
  BY DEF DoneInv, SenderTypes, Command
<1>4. Asked(op)
  BY <1>1, <1>3 DEF OperationAsked
<1> QED BY <1>1, <1>2, <1>4 DEF RebootAsked

(* An operation that reports success on a link that lost nothing was       *)
(* carried out: flash_bootloader and reset_to_factory_defaults wait for no *)
(* acknowledgment, so that only the packets themselves, packed by pack_msg *)
(* for a firmware that checks them, make a success real.                   *)
THEOREM UndisturbedSuccessIsAlwaysDone == Spec => []UndisturbedSuccessIsDone
<1>1. Spec => []Inv
  BY InitHolds, NextKeeps, PTL DEF Spec
<1>2. Spec => []DoneInv
  BY <1>1, DoneInitially, NextAsks, PTL DEF Spec
<1> QED
  BY <1>2, AskedIsDone, PTL

------------------------------------------------------------------------------
(* Parsing: what parse_char makes of a buffer. *)

(* What is behind a part of the first of two sequences. *)
LEMMA BehindPart ==
  ASSUME NEW s \in Seq(Nat), NEW t \in Seq(Nat), NEW k \in 0..Len(s)
  PROVE  without(s \o t, k) = without(s, k) \o t
<1> DEFINE u == s \o t
           x == SubSeq(u, k + 1, Len(u))
           y == SubSeq(s, k + 1, Len(s))
           z == y \o t
<1>1. /\ Len(s) \in Nat /\ Len(t) \in Nat /\ u \in Seq(Nat) /\ Len(u) = Len(s) + Len(t)
      /\ \A i \in 1..(Len(s) + Len(t)) : u[i] = IF i <= Len(s) THEN s[i] ELSE t[i - Len(s)]
  BY ConcatProperties, LenProperties
<1> HIDE DEF u
<1>2. k \in Nat /\ k <= Len(s)
  BY <1>1
<1>3. /\ x \in Seq(Nat) /\ Len(x) = IF k + 1 <= Len(u) THEN Len(u) - (k + 1) + 1 ELSE 0
      /\ \A i \in 1..(Len(u) - (k + 1) + 1) : x[i] = u[(k + 1) + i - 1]
  <2>1. \A i \in (k + 1)..Len(u) : u[i] \in Nat
    <3> TAKE i \in (k + 1)..Len(u)
    <3>1. i \in 1..Len(u)
      BY <1>1, <1>2
    <3> QED BY <1>1, <3>1, ElementOfSeq
  <2>2. k + 1 \in Int /\ Len(u) \in Int
    BY <1>1, <1>2
  <2> QED BY <2>1, <2>2, SubSeqProperties
<1>4. /\ y \in Seq(Nat) /\ Len(y) = IF k + 1 <= Len(s) THEN Len(s) - (k + 1) + 1 ELSE 0
      /\ \A i \in 1..(Len(s) - (k + 1) + 1) : y[i] = s[(k + 1) + i - 1]
  <2>1. \A i \in (k + 1)..Len(s) : s[i] \in Nat
    <3> TAKE i \in (k + 1)..Len(s)
    <3>1. i \in 1..Len(s)
      BY <1>1, <1>2
    <3> QED BY <3>1, ElementOfSeq
  <2>2. k + 1 \in Int /\ Len(s) \in Int
    BY <1>1, <1>2
  <2> QED BY <2>1, <2>2, SubSeqProperties
<1> HIDE DEF x, y
<1>5. Len(x) = Len(u) - k /\ Len(y) = Len(s) - k
  BY <1>1, <1>2, <1>3, <1>4
<1>6. /\ z \in Seq(Nat) /\ Len(z) = Len(y) + Len(t)
      /\ \A i \in 1..(Len(y) + Len(t)) : z[i] = IF i <= Len(y) THEN y[i] ELSE t[i - Len(y)]
  BY <1>4, ConcatProperties
<1> HIDE DEF z
<1>7. Len(x) = Len(z)
  BY <1>1, <1>5, <1>6
<1>8. ASSUME NEW i \in 1..Len(x) PROVE x[i] = z[i]
  <2>1. /\ i \in Nat /\ i >= 1 /\ i <= Len(u) - k
        /\ x[i] = u[(k + 1) + i - 1] /\ (k + 1) + i - 1 = k + i
    BY <1>1, <1>2, <1>3, <1>5
  <2>2. x[i] = IF k + i <= Len(s) THEN s[k + i] ELSE t[(k + i) - Len(s)]
    <3>1. k + i \in 1..(Len(s) + Len(t))
      BY <1>1, <1>2, <2>1
    <3> QED BY <1>1, <2>1, <3>1
  <2>3. z[i] = IF i <= Len(s) - k THEN y[i] ELSE t[i - (Len(s) - k)]
    BY <1>5, <1>6, <1>7
  <2>4. CASE k + i <= Len(s)
    <3>1. /\ i <= Len(s) - k /\ i \in 1..(Len(s) - (k + 1) + 1)
          /\ (k + 1) + i - 1 = k + i
      BY <1>1, <1>2, <2>1, <2>4
    <3> QED BY <1>4, <2>2, <2>3, <2>4, <3>1
  <2>5. CASE ~(k + i <= Len(s))
    <3>1. ~(i <= Len(s) - k) /\ (k + i) - Len(s) = i - (Len(s) - k)
      BY <1>1, <1>2, <2>1, <2>5
    <3> QED BY <2>2, <2>3, <2>5, <3>1
  <2> QED BY <2>4, <2>5
<1>9. x = z
  BY <1>3, <1>6, <1>7, <1>8, SeqEqual
<1> QED BY <1>9 DEF x, y, z, u, without

(* What is left of a sequence is one of the same kind, and it is shorter. *)
LEMMA WithoutType ==
  ASSUME NEW S, NEW s \in Seq(S), NEW k \in 0..Len(s)
  PROVE  without(s, k) \in Seq(S) /\ Len(without(s, k)) = Len(s) - k
<1>1. Len(s) \in Nat /\ k \in Nat /\ k <= Len(s)
  BY LenProperties
<1>2. \A i \in (k + 1)..Len(s) : s[i] \in S
  <2> TAKE i \in (k + 1)..Len(s)
  <2>1. i \in 1..Len(s)
    BY <1>1
  <2> QED BY <2>1, ElementOfSeq
<1>3. /\ SubSeq(s, k + 1, Len(s)) \in Seq(S)
      /\ Len(SubSeq(s, k + 1, Len(s)))
           = IF k + 1 <= Len(s) THEN Len(s) - (k + 1) + 1 ELSE 0
  <2>1. k + 1 \in Int /\ Len(s) \in Int
    BY <1>1
  <2> QED BY <1>2, <2>1, SubSeqProperties
<1> QED BY <1>1, <1>3 DEF without

LEMMA FrontType ==
  ASSUME NEW S, NEW s \in Seq(S), NEW k \in 0..Len(s)
  PROVE  SubSeq(s, 1, k) \in Seq(S)
<1>1. \A i \in 1..k : s[i] \in S
  <2> TAKE i \in 1..k
  <2>1. i \in 1..Len(s)
    BY LenProperties
  <2> QED BY <2>1, ElementOfSeq
<1>2. 1 \in Int /\ k \in Int
  OBVIOUS
<1> QED BY <1>1, <1>2, SubSeqProperties

(* The bytes of a buffer are numbers. *)
LEMMA BytesAreNumbers ==
  ASSUME NEW b \in Seq(Octet)
  PROVE  b \in Seq(Nat) /\ Len(b) \in Nat /\ \A i \in 1..Len(b) : b[i] \in Nat
<1>1. Octet \subseteq Nat
  BY DEF Octet
<1>2. b \in Seq(Nat)
  BY <1>1, SeqMonotonic
<1> QED BY <1>2, LenProperties, ElementOfSeq

(* How many bytes parse_char takes off the front of a buffer, and what it  *)
(* reports of them: neither depends on anything but the buffer.            *)
Begins(b) == b # << >> /\ b[1] \in {MARKER_V1, MARKER_V2}

Taken(b) ==
  IF b = << >> THEN 0
  ELSE IF ~Begins(b) THEN 1
  ELSE IF Len(b) >= 3 /\ Len(b) >= claimed_length(b) THEN claimed_length(b) ELSE 0

ReportOf(packet) ==
  IF is_v2(packet) /\ packet[3] \div 2 # 0 THEN BadData(packet) ELSE decode(packet)

Report(b) ==
  IF Taken(b) = 0 THEN NoMessage
  ELSE IF Begins(b) THEN ReportOf(SubSeq(b, 1, Taken(b))) ELSE BadData(<< b[1] >>)

ReportTypes == {"UNKNOWN", "BAD_DATA", "HEARTBEAT", "PARAM_SET", "COMMAND_LONG", "COMMAND_ACK"}
Reports == [type : ReportTypes, bytes : Seq(Octet)]

LEMMA ReportOfType ==
  ASSUME NEW packet \in Seq(Octet)
  PROVE  ReportOf(packet) \in Reports
<1>1. \A id \in KnownIds : type_name(id) \in ReportTypes
  BY DEF KnownIds, type_name, ReportTypes, HEARTBEAT, PARAM_SET, COMMAND_LONG, COMMAND_ACK
<1>2. \A type \in ReportTypes : Message(type, packet) \in Reports
  BY DEF Message, Reports
<1>3. "UNKNOWN" \in ReportTypes /\ "BAD_DATA" \in ReportTypes
  BY DEF ReportTypes
<1>4. \/ decode(packet) = Message("UNKNOWN", packet)
      \/ decode(packet) = BadData(packet)
      \/ /\ message_id(packet) \in KnownIds
         /\ decode(packet) = Message(type_name(message_id(packet)), packet)
  <2> DEFINE id == message_id(packet)
  <2> HIDE DEF id
  <2>1. PARAM_SET \in KnownIds
    BY DEF KnownIds
  <2>2. CASE id \notin KnownIds
    BY <2>1, <2>2 DEF decode, id
  <2>3. CASE id = PARAM_SET
    BY <2>1, <2>3 DEF decode, id
  <2>4. CASE id \in KnownIds \ {PARAM_SET}
    BY <2>4 DEF decode, id
  <2> QED BY <2>2, <2>3, <2>4
<1> QED BY <1>1, <1>2, <1>3, <1>4 DEF ReportOf, BadData

(* The length that a packet claims covers its header and its checksum. *)
LEMMA ClaimedLength ==
  ASSUME NEW b \in Seq(Octet), Len(b) >= 3
  PROVE  /\ claimed_length(b) \in Nat /\ header_len(b) + 2 <= claimed_length(b)
         /\ header_len(b) \in {6, 10}
<1>1. b[2] \in Nat
  BY BytesAreNumbers
<1>2. header_len(b) \in {6, 10} /\ signature_len(b) \in {0, 13}
  BY DEF header_len, signature_len, HEADER_LEN_V1, HEADER_LEN_V2, SIGNATURE_BLOCK_LEN
<1> QED BY <1>1, <1>2 DEF claimed_length

LEMMA TakenType ==
  ASSUME NEW b \in Seq(Octet)
  PROVE  Taken(b) \in 0..Len(b)
<1>1. Len(b) \in Nat /\ (b # << >> => 1 \in 0..Len(b)) /\ 0 \in 0..Len(b)
  BY EmptySeq, BytesAreNumbers
<1>2. Len(b) >= 3 /\ Len(b) >= claimed_length(b) => claimed_length(b) \in 0..Len(b)
  BY <1>1, ClaimedLength
<1> QED BY <1>1, <1>2 DEF Taken

LEMMA ReportType ==
  ASSUME NEW b \in Seq(Octet), Taken(b) # 0
  PROVE  Report(b) \in Reports /\ Report(b) # NoMessage
<1>1. b # << >>
  BY DEF Taken
<1>2. /\ Taken(b) \in 1..Len(b) /\ Taken(b) \in Int /\ Len(b) \in Nat /\ 1 \in 1..Len(b)
      /\ Taken(b) <= Len(b)
  BY <1>1, TakenType, EmptySeq
<1>3. SubSeq(b, 1, Taken(b)) \in Seq(Octet)
  BY TakenType, FrontType
<1>4. BadData(<< b[1] >>) \in Reports
  <2>1. b[1] \in Octet
    BY <1>2, ElementOfSeq
  <2>2. << b[1] >> \in Seq(Octet)
    BY <2>1
  <2> QED BY <2>2 DEF BadData, Message, Reports, ReportTypes
<1>5. Report(b) \in Reports
  BY <1>3, <1>4, ReportOfType DEF Report
<1>6. NoMessage \notin Reports
  BY DEF NoMessage, Message, Reports, ReportTypes
<1> QED BY <1>5, <1>6

(* A message is reported of the bytes that arrived first, whatever arrived *)
(* behind them.                                                            *)
LEMMA BytesBehindDoNotMatter ==
  ASSUME NEW b \in Seq(Octet), NEW more \in Seq(Octet), Taken(b) # 0
  PROVE  /\ Taken(b \o more) = Taken(b) /\ Report(b \o more) = Report(b)
         /\ without(b \o more, Taken(b \o more)) = without(b, Taken(b)) \o more
<1> DEFINE c == b \o more
<1>1. /\ b \in Seq(Nat) /\ more \in Seq(Nat) /\ Len(b) \in Nat /\ Len(more) \in Nat
      /\ Taken(b) \in 0..Len(b) /\ b # << >> /\ 1 \in 1..Len(b)
  <2>1. b # << >>
    BY DEF Taken
  <2> QED BY <2>1, BytesAreNumbers, TakenType, EmptySeq
<1>2. /\ c \in Seq(Nat) /\ Len(c) = Len(b) + Len(more)
      /\ \A i \in 1..Len(b) : c[i] = b[i]
  BY <1>1, Joined
<1> HIDE DEF c
<1>3. c # << >> /\ c[1] = b[1] /\ (Begins(c) <=> Begins(b))
  BY <1>1, <1>2, EmptySeq DEF Begins
<1>4. Taken(c) = Taken(b)
  <2>1. CASE ~Begins(b)
    BY <2>1, <1>1, <1>3 DEF Taken
  <2>2. CASE Begins(b)
    <3>1. Len(b) >= 3 /\ Len(b) >= claimed_length(b) /\ Taken(b) = claimed_length(b)
      BY <2>2, <1>1 DEF Taken
    <3>2. 2 \in 1..Len(b) /\ 3 \in 1..Len(b)
      BY <3>1, <1>1
    <3>3. c[2] = b[2] /\ c[3] = b[3]
      BY <3>2, <1>2
    <3>4. claimed_length(c) = claimed_length(b)
      BY <3>3, <1>3 DEF claimed_length, header_len, signature_len, is_v2
    <3>5. Len(c) >= 3 /\ Len(c) >= claimed_length(b) /\ claimed_length(b) \in Nat
      BY <3>1, <1>1, <1>2, ClaimedLength
    <3> QED BY <3>1, <3>4, <3>5, <2>2, <1>3 DEF Taken
  <2> QED BY <2>1, <2>2
<1>5. Report(c) = Report(b)
  <2>1. Taken(b) \in Nat /\ Taken(b) <= Len(b)
    BY <1>1
  <2>2. SubSeq(c, 1, Taken(b)) = SubSeq(b, 1, Taken(b))
    BY <1>1, <2>1, WithinPrefix DEF c
  <2> QED BY <2>2, <1>3, <1>4 DEF Report
<1>6. without(c, Taken(b)) = without(b, Taken(b)) \o more
  BY <1>1, BehindPart DEF c
<1> QED BY <1>4, <1>5, <1>6 DEF c

(* A MAVLink object with other bytes and another expected length. *)
LEMMA Rebuffered ==
  ASSUME NEW m \in MavlinkType, NEW b \in Seq(Octet), NEW n \in Nat
  PROVE  /\ [m EXCEPT !.buf = b, !.expected = n] \in MavlinkType
         /\ [m EXCEPT !.buf = b, !.expected = n].buf = b
  BY DEF MavlinkType

LEMMA ParsedIs ==
  ASSUME NEW m, NEW message, NEW left, parse_next(m) = Parsed(message, left),
         message = Report(m.buf), left \in MavlinkType,
         left.buf = without(m.buf, Taken(m.buf))
  PROVE  /\ parse_next(m).message = Report(m.buf)
         /\ parse_next(m).mav \in MavlinkType
         /\ parse_next(m).mav.buf = without(m.buf, Taken(m.buf))
<1>1. parse_next(m).message = message /\ parse_next(m).mav = left
  BY DEF Parsed
<1> QED BY <1>1

(* parse_char takes a message off the buffer, or leaves it alone. *)
LEMMA NextIs ==
  ASSUME NEW m \in MavlinkType
  PROVE  /\ parse_next(m).message = Report(m.buf)
         /\ parse_next(m).mav \in MavlinkType
         /\ parse_next(m).mav.buf = without(m.buf, Taken(m.buf))
<1> DEFINE b == m.buf
           rest == without(b, Taken(b))
<1>1. /\ b \in Seq(Octet) /\ Len(b) \in Nat /\ m.expected \in Nat
      /\ rest \in Seq(Octet) /\ Taken(b) \in 0..Len(b)
  <2>1. b \in Seq(Octet) /\ m.expected \in Nat
    BY DEF MavlinkType
  <2> QED BY <2>1, LenProperties, TakenType, WithoutType
<1>2. Taken(b) = 0 => rest = b
  BY <1>1, SubSeqFull DEF without
<1>3. CASE b = << >>
  <2>1. parse_next(m) = Parsed(NoMessage, m)
    BY <1>3 DEF parse_next
  <2>2. Taken(b) = 0
    BY <1>3 DEF Taken
  <2> QED BY <2>1, <2>2, <1>2 DEF Parsed, Report
<1>4. CASE b # << >> /\ ~Begins(b)
  <2>1. parse_next(m) = skip_byte(m)
    BY <1>4 DEF parse_next, Begins
  <2>2. Taken(b) = 1
    BY <1>4 DEF Taken
  <2>3. Tail(b) = rest
    BY <2>2, <1>1, <1>4, TailIsSubSeq DEF without
  <2>4. [m EXCEPT !.buf = Tail(@), !.expected = HEADER_LEN_V1 + 2]
          = [m EXCEPT !.buf = rest, !.expected = HEADER_LEN_V1 + 2]
    BY <2>3, Zenon
  <2>5. /\ [m EXCEPT !.buf = rest, !.expected = HEADER_LEN_V1 + 2] \in MavlinkType
        /\ [m EXCEPT !.buf = rest, !.expected = HEADER_LEN_V1 + 2].buf = rest
    <3>1. HEADER_LEN_V1 + 2 \in Nat
      BY DEF HEADER_LEN_V1
    <3> HIDE DEF rest, b
    <3> QED BY <1>1, <3>1, Rebuffered, Zenon
  <2>6. Report(b) = BadData(<< b[1] >>)
    BY <2>2, <1>4 DEF Report
  <2>7. skip_byte(m)
          = Parsed(Report(b), [m EXCEPT !.buf = rest, !.expected = HEADER_LEN_V1 + 2])
    BY <2>4, <2>6, Zenon DEF skip_byte
  <2>8. parse_next(m)
          = Parsed(Report(b), [m EXCEPT !.buf = rest, !.expected = HEADER_LEN_V1 + 2])
    BY <2>1, <2>7, Zenon
  <2> QED BY <2>5, <2>8, ParsedIs, Zenon
<1>5. CASE Begins(b)
  <2> DEFINE length == IF Len(b) >= 3 THEN claimed_length(b) ELSE m.expected
  <2>1. parse_next(m) = IF length >= header_len(b) + 2 /\ Len(b) >= length
                          THEN take_packet(m, length)
                          ELSE Parsed(NoMessage, [m EXCEPT !.expected = length])
    BY <1>5 DEF parse_next, Begins
  <2>2. /\ length \in Nat
        /\ (length >= header_len(b) + 2 /\ Len(b) >= length)
             <=> (Len(b) >= 3 /\ Len(b) >= claimed_length(b))
    <3>1. header_len(b) \in {6, 10}
      BY DEF header_len, HEADER_LEN_V1, HEADER_LEN_V2
    <3>2. CASE Len(b) >= 3
      <4>1. claimed_length(b) \in Nat /\ header_len(b) + 2 <= claimed_length(b)
        BY <3>2, <1>1, ClaimedLength
      <4>2. length = claimed_length(b)
        BY <3>2
      <4> HIDE DEF length, b
      <4> QED BY <4>1, <4>2, <3>1, <3>2, <1>1
    <3>3. CASE ~(Len(b) >= 3)
      <4>1. length = m.expected
        BY <3>3
      <4> HIDE DEF length, b
      <4> QED BY <4>1, <3>1, <3>3, <1>1
    <3> QED BY <3>2, <3>3
  <2>3. CASE Len(b) >= 3 /\ Len(b) >= claimed_length(b)
    <3> DEFINE packet == SubSeq(b, 1, length)
    <3>1. length = claimed_length(b) /\ Taken(b) = length
      BY <2>3, <1>5 DEF Taken, Begins
    <3>2. parse_next(m) = take_packet(m, length)
      BY <2>1, <2>2, <2>3
    <3>3. Taken(b) # 0
      <4>1. 8 <= claimed_length(b)
        BY <2>3, <1>1, ClaimedLength
      <4> QED BY <4>1, <3>1
    <3>4. Report(b) = ReportOf(packet)
      BY <3>1, <3>3, <1>5 DEF Report
    <3>5. take_packet(m, length)
            = Parsed(ReportOf(packet),
                     [m EXCEPT !.buf = rest, !.expected = header_len(packet) + 2])
      <4>1. [m EXCEPT !.buf = without(@, length), !.expected = header_len(packet) + 2]
              = [m EXCEPT !.buf = rest, !.expected = header_len(packet) + 2]
        BY <3>1 DEF MavlinkType
      <4> QED BY <4>1 DEF take_packet, ReportOf
    <3>6. header_len(packet) + 2 \in Nat
      BY DEF header_len, HEADER_LEN_V1, HEADER_LEN_V2
    <3> HIDE DEF packet, length, rest, b
    <3>7. /\ [m EXCEPT !.buf = rest, !.expected = header_len(packet) + 2] \in MavlinkType
          /\ [m EXCEPT !.buf = rest, !.expected = header_len(packet) + 2].buf = rest
      BY <3>6, <1>1, Rebuffered, Zenon
    <3>8. parse_next(m)
            = Parsed(Report(b), [m EXCEPT !.buf = rest, !.expected = header_len(packet) + 2])
      BY <3>2, <3>4, <3>5, Zenon
    <3> QED BY <3>7, <3>8, ParsedIs, Zenon DEF rest, b
  <2>4. CASE ~(Len(b) >= 3 /\ Len(b) >= claimed_length(b))
    <3>1. Taken(b) = 0
      BY <2>4, <1>5 DEF Taken, Begins
    <3>2. parse_next(m) = Parsed(NoMessage, [m EXCEPT !.expected = length])
      BY <2>1, <2>2, <2>4
    <3> HIDE DEF length
    <3>3. [m EXCEPT !.expected = length] \in MavlinkType
            /\ [m EXCEPT !.expected = length].buf = b
      BY <2>2 DEF MavlinkType
    <3>4. Report(b) = NoMessage /\ rest = b
      BY <3>1, <1>2 DEF Report
    <3>5. parse_next(m) = Parsed(Report(b), [m EXCEPT !.expected = length])
      BY <3>2, <3>4, Zenon
    <3>6. [m EXCEPT !.expected = length].buf = rest
      BY <3>3, <3>4, Zenon
    <3> QED BY <3>3, <3>5, <3>6, ParsedIs, Zenon
  <2> QED BY <2>3, <2>4
<1> QED BY <1>3, <1>4, <1>5

(* A message that is reported is taken off the buffer. *)
LEMMA ReportsShrink ==
  ASSUME NEW m \in MavlinkType, parse_next(m).message # NoMessage
  PROVE  /\ parse_next(m).mav \in MavlinkType
         /\ Len(parse_next(m).mav.buf) \in Nat /\ Len(m.buf) \in Nat
         /\ Len(parse_next(m).mav.buf) < Len(m.buf)
         /\ Taken(m.buf) # 0
         /\ parse_next(m).message \in Reports
<1>1. m.buf \in Seq(Octet)
  BY DEF MavlinkType
<1>2. Taken(m.buf) # 0
  BY NextIs DEF Report
<1>3. Taken(m.buf) \in 0..Len(m.buf) /\ Len(m.buf) \in Nat
  BY <1>1, TakenType, LenProperties
<1>4. Len(without(m.buf, Taken(m.buf))) = Len(m.buf) - Taken(m.buf)
  BY <1>1, <1>3, WithoutType
<1>5. parse_next(m).mav.buf = without(m.buf, Taken(m.buf)) /\ parse_next(m).mav \in MavlinkType
  BY NextIs
<1>6. parse_next(m).message \in Reports
  BY <1>1, <1>2, NextIs, ReportType
<1> QED BY <1>2, <1>3, <1>4, <1>5, <1>6

(* Nothing is taken off a buffer of which nothing is reported. *)
LEMMA SilenceKeeps ==
  ASSUME NEW m \in MavlinkType, parse_next(m).message = NoMessage
  PROVE  /\ parse_next(m).mav \in MavlinkType /\ parse_next(m).mav.buf = m.buf
         /\ Taken(m.buf) = 0
<1>1. m.buf \in Seq(Octet)
  BY DEF MavlinkType
<1>2. Taken(m.buf) = 0
  BY <1>1, NextIs, ReportType
<1>3. without(m.buf, 0) = m.buf
  BY <1>1, SubSeqFull DEF without
<1> QED BY <1>2, <1>3, NextIs

------------------------------------------------------------------------------
(* parse_buffer is a recursion that ends: parse_rest is what it says.      *)

(* A set of numbers that is not empty has a least element. *)
LEMMA LeastNumber ==
  ASSUME NEW I \in SUBSET Nat, I # {}
  PROVE  \E x \in I : \A y \in I : x <= y
<1> DEFINE Smaller == OpToRel(<, Nat)
<1>1. \A x, y \in Nat : << y, x >> \in Smaller <=> y < x
  BY DEF OpToRel
<1>2. IsWellFoundedOn(Smaller, Nat)
  BY NatLessThanWellFounded
<1> HIDE DEF Smaller
<1>3. PICK x \in I : \A y \in I : << y, x >> \notin Smaller
  BY <1>2, WFMin
<1>4. ASSUME NEW y \in I PROVE x <= y
  <2>1. ~(y < x)
    BY <1>1, <1>3
  <2> QED BY <2>1
<1> QED BY <1>4

(* The loop of parse_buffer, with something else for what follows. *)
Looped(f, m) ==
  LET next == parse_next(m)
  IN  IF next.message = NoMessage
        THEN [messages |-> << >>, mav |-> next.mav]
        ELSE LET rest == f[next.mav]
             IN  [rest EXCEPT !.messages = << next.message >> \o @]

(* Only objects with fewer bytes are asked for. *)
LEMMA LoopedDependsOn ==
  ASSUME NEW f, NEW g, NEW m \in MavlinkType,
         \A x \in MavlinkType : Len(x.buf) < Len(m.buf) => f[x] = g[x]
  PROVE  Looped(f, m) = Looped(g, m)
<1> DEFINE next == parse_next(m)
<1>1. CASE next.message = NoMessage
  BY <1>1 DEF Looped
<1>2. CASE next.message # NoMessage
  <2>1. f[next.mav] = g[next.mav]
    BY <1>2, ReportsShrink
  <2> QED BY <2>1, Zenon DEF Looped
<1> QED BY <1>1, <1>2

(* The objects with few bytes, and a function that is right for them. *)
Under(k) == {m \in MavlinkType : Len(m.buf) < k}
Right(k, g) == g = [m \in Under(k) |-> Looped(g, m)]

LEMMA RightOnesAgree ==
  ASSUME NEW k \in Nat, NEW j \in Nat, NEW g, NEW h, Right(k, g), Right(j, h)
  PROVE  \A m \in Under(k) \intersect Under(j) : g[m] = h[m]
<1> DEFINE Both == Under(k) \intersect Under(j)
           Wrong == {n \in Nat : \E m \in Both : Len(m.buf) = n /\ g[m] # h[m]}
<1>1. \A m \in MavlinkType : Len(m.buf) \in Nat
  BY LenProperties DEF MavlinkType
<1>2. Wrong = {}
  <2> SUFFICES ASSUME Wrong # {} PROVE FALSE
    OBVIOUS
  <2>1. PICK n \in Wrong : \A i \in Wrong : n <= i
    <3>1. Wrong \in SUBSET Nat
      OBVIOUS
    <3> HIDE DEF Wrong
    <3> QED BY <3>1, LeastNumber
  <2>2. PICK m \in Both : Len(m.buf) = n /\ g[m] # h[m]
    OBVIOUS
  <2>3. ASSUME NEW x \in MavlinkType, Len(x.buf) < Len(m.buf) PROVE g[x] = h[x]
    <3>1. x \in Both /\ Len(x.buf) \in Nat /\ ~(n <= Len(x.buf))
      BY <1>1, <2>2, <2>3 DEF Under
    <3>2. Len(x.buf) \notin Wrong
      BY <2>1, <3>1
    <3> QED BY <3>1, <3>2
  <2>4. Looped(g, m) = Looped(h, m)
    BY <2>2, <2>3, LoopedDependsOn DEF Under
  <2>5. g[m] = Looped(g, m) /\ h[m] = Looped(h, m)
    <3>1. m \in Under(k) /\ m \in Under(j)
      BY <2>2
    <3> QED BY <3>1, Zenon DEF Right
  <2> QED BY <2>2, <2>4, <2>5
<1>3. ASSUME NEW m \in Both PROVE g[m] = h[m]
  <2>1. Len(m.buf) \in Nat
    BY <1>1 DEF Under
  <2>2. Len(m.buf) \notin Wrong
    BY <1>2
  <2> QED BY <2>1, <2>2
<1> QED BY <1>3

LEMMA RightOneExists == \A k \in Nat : \E g : Right(k, g)
<1> DEFINE Lacking == {k \in Nat : ~ \E g : Right(k, g)}
<1>1. Lacking = {}
  <2> SUFFICES ASSUME Lacking # {} PROVE FALSE
    OBVIOUS
  <2>1. PICK k \in Lacking : \A i \in Lacking : k <= i
    <3>1. Lacking \in SUBSET Nat
      OBVIOUS
    <3> HIDE DEF Lacking
    <3> QED BY <3>1, LeastNumber
  <2>2. k \in Nat /\ ~ \E g : Right(k, g)
    OBVIOUS
  <2>3. \A m \in MavlinkType : Len(m.buf) \in Nat
    BY LenProperties DEF MavlinkType
  <2>4. PICK g : k > 0 => Right(k - 1, g)
    <3>1. CASE k > 0
      <4>1. k - 1 \in Nat /\ ~(k <= k - 1)
        BY <2>2, <3>1
      <4>2. k - 1 \notin Lacking
        BY <2>1, <4>1
      <4> QED BY <4>1, <4>2
    <3> QED BY <3>1
  <2> DEFINE h == [m \in Under(k) |-> Looped(g, m)]
  <2>5. ASSUME NEW m \in Under(k) PROVE Looped(g, m) = Looped(h, m)
    <3>1. m \in MavlinkType /\ Len(m.buf) \in Nat /\ Len(m.buf) < k
      BY <2>3 DEF Under
    <3>2. k > 0
      BY <2>2, <3>1
    <3>3. ASSUME NEW x \in MavlinkType, Len(x.buf) < Len(m.buf) PROVE g[x] = h[x]
      <4>1. x \in Under(k) /\ x \in Under(k - 1)
        BY <2>2, <2>3, <3>1, <3>3 DEF Under
      <4>2. g[x] = Looped(g, x)
        BY <2>4, <3>2, <4>1, Zenon DEF Right
      <4> QED BY <4>1, <4>2
    <3> HIDE DEF h
    <3> QED BY <3>1, <3>3, LoopedDependsOn
  <2>6. Right(k, h)
    BY <2>5, Zenon DEF Right
  <2> QED BY <2>2, <2>6
<1> QED BY <1>1

(* The loop of parse_buffer ends for every buffer, since each message takes *)
(* a byte off it at least: there is a function that satisfies the recursive *)
(* definition, so that parse_rest is one.                                  *)
THEOREM ParsingEnds ==
  ASSUME NEW m \in MavlinkType
  PROVE  parse_rest[m] = Looped(parse_rest, m)
<1> DEFINE chosen(k) == CHOOSE g : Right(k, g)
           size(x) == Len(x.buf)
           F == [x \in MavlinkType |-> chosen(size(x) + 1)[x]]
<1>1. \A x \in MavlinkType : size(x) \in Nat
  BY LenProperties DEF MavlinkType
<1>2. \A k \in Nat : Right(k, chosen(k))
  BY RightOneExists, Zenon
<1> HIDE DEF chosen
<1>3. ASSUME NEW x \in MavlinkType PROVE F[x] = Looped(F, x)
  <2> DEFINE n == size(x) + 1
  <2>1. n \in Nat /\ x \in Under(n)
    BY <1>1 DEF Under
  <2>2. F[x] = Looped(chosen(n), x)
    <3>1. chosen(n)[x] = Looped(chosen(n), x)
      BY <2>1, <1>2, Zenon DEF Right
    <3> QED BY <3>1
  <2>3. ASSUME NEW y \in MavlinkType, Len(y.buf) < Len(x.buf)
        PROVE  F[y] = chosen(n)[y]
    <3>1. /\ size(y) + 1 \in Nat /\ y \in Under(size(y) + 1) /\ y \in Under(n)
      BY <1>1, <2>1, <2>3 DEF Under
    <3>2. chosen(size(y) + 1)[y] = chosen(n)[y]
      BY <3>1, <2>1, <1>2, RightOnesAgree
    <3> QED BY <3>2
  <2> HIDE DEF F, n
  <2>4. Looped(F, x) = Looped(chosen(n), x)
    BY <2>3, LoopedDependsOn
  <2> QED BY <2>2, <2>4
<1>4. F = [x \in MavlinkType |-> Looped(F, x)]
  BY <1>3, Zenon
<1> HIDE DEF F
<1>5. parse_rest = [x \in MavlinkType |-> Looped(parse_rest, x)]
  BY <1>4 DEF parse_rest, Looped
<1> QED BY <1>5, Zenon

Results == [messages : Seq(Reports), mav : MavlinkType]

LEMMA LoopedStops ==
  ASSUME NEW m \in MavlinkType, parse_next(m).message = NoMessage
  PROVE  /\ parse_rest[m] \in Results
         /\ parse_rest[m].messages = << >> /\ parse_rest[m].mav.buf = m.buf
<1>1. parse_rest[m] = [messages |-> << >>, mav |-> parse_next(m).mav]
  BY ParsingEnds DEF Looped
<1>2. parse_next(m).mav \in MavlinkType /\ parse_next(m).mav.buf = m.buf
  BY SilenceKeeps
<1>3. << >> \in Seq(Reports)
  BY EmptySeq
<1> QED BY <1>1, <1>2, <1>3 DEF Results

LEMMA LoopedGoesOn ==
  ASSUME NEW m \in MavlinkType, parse_next(m).message # NoMessage,
         parse_rest[parse_next(m).mav] \in Results
  PROVE  /\ parse_rest[m] \in Results
         /\ parse_rest[m].messages
              = << parse_next(m).message >> \o parse_rest[parse_next(m).mav].messages
         /\ parse_rest[m].mav = parse_rest[parse_next(m).mav].mav
<1> DEFINE message == parse_next(m).message
           rest == parse_rest[parse_next(m).mav]
           joined == << message >> \o rest.messages
<1>1. parse_rest[m] = [rest EXCEPT !.messages = joined]
  <2>1. parse_rest[m] = [rest EXCEPT !.messages = << message >> \o @]
    BY ParsingEnds, Zenon DEF Looped
  <2> QED BY <2>1
<1>2. joined \in Seq(Reports)
  <2>1. message \in Reports
    BY ReportsShrink
  <2>2. << message >> \in Seq(Reports)
    BY <2>1
  <2>3. rest.messages \in Seq(Reports)
    BY DEF Results
  <2> QED BY <2>2, <2>3, ConcatProperties
<1> HIDE DEF joined
<1>3. /\ [rest EXCEPT !.messages = joined] \in Results
      /\ [rest EXCEPT !.messages = joined].messages = joined
      /\ [rest EXCEPT !.messages = joined].mav = rest.mav
  BY <1>2 DEF Results
<1> QED BY <1>1, <1>3 DEF joined

(* parse_buffer returns messages, and an object. *)
LEMMA ResultType == \A m \in MavlinkType : parse_rest[m] \in Results
<1> DEFINE Wrong == {n \in Nat : \E m \in MavlinkType :
                                   Len(m.buf) = n /\ parse_rest[m] \notin Results}
<1>1. \A m \in MavlinkType : Len(m.buf) \in Nat
  BY LenProperties DEF MavlinkType
<1>2. Wrong = {}
  <2> SUFFICES ASSUME Wrong # {} PROVE FALSE
    OBVIOUS
  <2>1. PICK n \in Wrong : \A i \in Wrong : n <= i
    <3>1. Wrong \in SUBSET Nat
      OBVIOUS
    <3> HIDE DEF Wrong
    <3> QED BY <3>1, LeastNumber
  <2>2. PICK m \in MavlinkType : Len(m.buf) = n /\ parse_rest[m] \notin Results
    OBVIOUS
  <2> DEFINE next == parse_next(m)
  <2>3. next.message # NoMessage
    BY <2>2, LoopedStops
  <2>4. next.mav \in MavlinkType /\ Len(next.mav.buf) \in Nat /\ ~(n <= Len(next.mav.buf))
    BY <1>1, <2>2, <2>3, ReportsShrink
  <2>5. parse_rest[next.mav] \in Results
    BY <2>1, <2>4
  <2> QED BY <2>2, <2>3, <2>5, LoopedGoesOn
<1> QED BY <1>1, <1>2

(* Objects with the same buffer report the same. *)
LEMMA OnlyTheBufferMatters ==
  \A m, x \in MavlinkType : m.buf = x.buf =>
    /\ parse_rest[m].messages = parse_rest[x].messages
    /\ parse_rest[m].mav.buf = parse_rest[x].mav.buf
<1> DEFINE Same(m, x) == /\ parse_rest[m].messages = parse_rest[x].messages
                         /\ parse_rest[m].mav.buf = parse_rest[x].mav.buf
           Wrong == {n \in Nat : \E m, x \in MavlinkType :
                                   Len(m.buf) = n /\ m.buf = x.buf /\ ~Same(m, x)}
<1>1. \A m \in MavlinkType : Len(m.buf) \in Nat
  BY LenProperties DEF MavlinkType
<1> HIDE DEF Same
<1>2. Wrong = {}
  <2> SUFFICES ASSUME Wrong # {} PROVE FALSE
    OBVIOUS
  <2>1. PICK n \in Wrong : \A i \in Wrong : n <= i
    <3>1. Wrong \in SUBSET Nat
      OBVIOUS
    <3> HIDE DEF Wrong
    <3> QED BY <3>1, LeastNumber
  <2>2. PICK m \in MavlinkType, x \in MavlinkType :
          Len(m.buf) = n /\ m.buf = x.buf /\ ~Same(m, x)
    OBVIOUS
  <2> DEFINE a == parse_next(m)
             b == parse_next(x)
  <2>3. a.message = b.message /\ a.mav.buf = b.mav.buf
    BY <2>2, NextIs
  <2>4. CASE a.message = NoMessage
    <3>1. parse_rest[m].messages = << >> /\ parse_rest[m].mav.buf = m.buf
      BY <2>4, LoopedStops
    <3>2. parse_rest[x].messages = << >> /\ parse_rest[x].mav.buf = x.buf
      BY <2>3, <2>4, LoopedStops
    <3> QED BY <2>2, <3>1, <3>2 DEF Same
  <2>5. CASE a.message # NoMessage
    <3>1. a.mav \in MavlinkType /\ Len(a.mav.buf) \in Nat /\ ~(n <= Len(a.mav.buf))
      BY <1>1, <2>2, <2>5, ReportsShrink
    <3>2. b.mav \in MavlinkType
      BY NextIs
    <3>3. Same(a.mav, b.mav)
      BY <2>1, <2>3, <3>1, <3>2
    <3>4. /\ parse_rest[m].messages = << a.message >> \o parse_rest[a.mav].messages
          /\ parse_rest[m].mav = parse_rest[a.mav].mav
      BY <2>5, <3>1, ResultType, LoopedGoesOn
    <3>5. /\ parse_rest[x].messages = << b.message >> \o parse_rest[b.mav].messages
          /\ parse_rest[x].mav = parse_rest[b.mav].mav
      BY <2>3, <2>5, <3>2, ResultType, LoopedGoesOn
    <3>6. Same(m, x)
      BY <2>3, <3>3, <3>4, <3>5 DEF Same
    <3> QED BY <2>2, <3>6
  <2> QED BY <2>4, <2>5
<1>3. ASSUME NEW m \in MavlinkType, NEW x \in MavlinkType, m.buf = x.buf
      PROVE  Same(m, x)
  <2>1. Len(m.buf) \in Nat /\ Len(m.buf) \notin Wrong
    BY <1>1, <1>2
  <2> QED BY <1>3, <2>1
<1> QED BY <1>3 DEF Same

(* What is left is all that is known of the bytes before: how they are cut *)
(* into buffers does not matter, and neither does the expected length.     *)
CutAnywhere(whole, first, second, more) ==
  /\ whole.buf = first.buf \o more
  /\ second.buf = parse_rest[first].mav.buf \o more

SameResult(whole, first, second) ==
  /\ parse_rest[whole].messages = parse_rest[first].messages \o parse_rest[second].messages
  /\ parse_rest[whole].mav.buf = parse_rest[second].mav.buf

THEOREM CutsDoNotMatter ==
  ASSUME NEW more \in Seq(Octet)
  PROVE  \A whole, first, second \in MavlinkType :
           CutAnywhere(whole, first, second, more) => SameResult(whole, first, second)
<1> DEFINE Wrong == {n \in Nat : \E whole, first, second \in MavlinkType :
                                   /\ Len(first.buf) = n
                                   /\ CutAnywhere(whole, first, second, more)
                                   /\ ~SameResult(whole, first, second)}
<1>1. \A m \in MavlinkType : Len(m.buf) \in Nat /\ m.buf \in Seq(Octet)
  BY LenProperties DEF MavlinkType
<1>2. \A m \in MavlinkType : /\ parse_rest[m].messages \in Seq(Reports)
                             /\ parse_rest[m].mav \in MavlinkType
  BY ResultType DEF Results
<1>3. Wrong = {}
  <2> SUFFICES ASSUME Wrong # {} PROVE FALSE
    OBVIOUS
  <2>1. PICK n \in Wrong : \A i \in Wrong : n <= i
    <3>1. Wrong \in SUBSET Nat
      OBVIOUS
    <3> HIDE DEF Wrong
    <3> QED BY <3>1, LeastNumber
  <2>2. PICK whole \in MavlinkType, first \in MavlinkType, second \in MavlinkType :
          /\ Len(first.buf) = n /\ CutAnywhere(whole, first, second, more)
          /\ ~SameResult(whole, first, second)
    OBVIOUS
  <2> DEFINE a == parse_next(first)
             b == parse_next(whole)
  <2>3. CASE a.message = NoMessage
    <3>1. parse_rest[first].messages = << >> /\ parse_rest[first].mav.buf = first.buf
      BY <2>3, LoopedStops
    <3>2. second.buf = whole.buf
      BY <2>2, <3>1 DEF CutAnywhere
    <3>3. /\ parse_rest[whole].messages = parse_rest[second].messages
          /\ parse_rest[whole].mav.buf = parse_rest[second].mav.buf
      BY <3>2, OnlyTheBufferMatters
    <3>4. << >> \o parse_rest[second].messages = parse_rest[second].messages
      BY <1>2, ConcatEmptySeq
    <3> QED BY <2>2, <3>1, <3>3, <3>4 DEF SameResult
  <2>4. CASE a.message # NoMessage
    <3>1. /\ a.mav \in MavlinkType /\ Len(a.mav.buf) \in Nat /\ ~(n <= Len(a.mav.buf))
          /\ Taken(first.buf) # 0 /\ a.message \in Reports
      BY <1>1, <2>2, <2>4, ReportsShrink
    <3>2. /\ a.message = b.message /\ b.mav \in MavlinkType
          /\ b.mav.buf = a.mav.buf \o more
      <4>1. /\ a.message = Report(first.buf)
            /\ a.mav.buf = without(first.buf, Taken(first.buf))
        BY NextIs
      <4>2. /\ b.message = Report(first.buf \o more) /\ b.mav \in MavlinkType
            /\ b.mav.buf = without(first.buf \o more, Taken(first.buf \o more))
        BY <2>2, NextIs DEF CutAnywhere
      <4>3. /\ Report(first.buf \o more) = Report(first.buf)
            /\ without(first.buf \o more, Taken(first.buf \o more))
                 = without(first.buf, Taken(first.buf)) \o more
        BY <1>1, <3>1, BytesBehindDoNotMatter
      <4> QED BY <4>1, <4>2, <4>3
    <3>3. /\ parse_rest[first].messages = << a.message >> \o parse_rest[a.mav].messages
          /\ parse_rest[first].mav = parse_rest[a.mav].mav
      BY <2>4, <3>1, ResultType, LoopedGoesOn
    <3>4. /\ parse_rest[whole].messages = << a.message >> \o parse_rest[b.mav].messages
          /\ parse_rest[whole].mav = parse_rest[b.mav].mav
      BY <2>4, <3>2, ResultType, LoopedGoesOn
    <3>5. CutAnywhere(b.mav, a.mav, second, more)
      BY <2>2, <3>2, <3>3 DEF CutAnywhere
    <3>6. SameResult(b.mav, a.mav, second)
      BY <2>1, <3>1, <3>2, <3>5
    <3>7. << a.message >> \o (parse_rest[a.mav].messages \o parse_rest[second].messages)
            = (<< a.message >> \o parse_rest[a.mav].messages) \o parse_rest[second].messages
      <4>1. << a.message >> \in Seq(Reports)
        BY <3>1
      <4>2. parse_rest[a.mav].messages \in Seq(Reports)
        BY <1>2, <3>1
      <4>3. parse_rest[second].messages \in Seq(Reports)
        BY <1>2
      <4> DEFINE x == << a.message >>
                 y == parse_rest[a.mav].messages
                 z == parse_rest[second].messages
      <4> HIDE DEF x, y, z
      <4>4. (x \o y) \o z = x \o (y \o z)
        <5>1. x \in Seq(Reports) /\ y \in Seq(Reports) /\ z \in Seq(Reports)
          BY <4>1, <4>2, <4>3 DEF x, y, z
        <5> QED BY <5>1, ConcatAssociative
      <4> QED BY <4>4, Zenon DEF x, y, z
    <3>8. SameResult(whole, first, second)
      BY <3>3, <3>4, <3>6, <3>7, Zenon DEF SameResult
    <3> QED BY <2>2, <3>8
  <2> QED BY <2>3, <2>4
<1>4. ASSUME NEW whole \in MavlinkType, NEW first \in MavlinkType,
             NEW second \in MavlinkType, CutAnywhere(whole, first, second, more)
      PROVE  SameResult(whole, first, second)
  <2>1. Len(first.buf) \in Nat /\ Len(first.buf) \notin Wrong
    BY <1>1, <1>3
  <2> QED BY <1>4, <2>1
<1> QED BY <1>4

------------------------------------------------------------------------------
(* The operation's parser is where one that got all the bytes at once      *)
(* would be.                                                               *)
AtOnce(bytes) == parse_buffer(NewMavlink(SYSTEM_ID, COMPONENT_ID), bytes)

ParserInv ==
  /\ mav \in MavlinkType /\ toHost \in Seq(Octet) /\ fed \in Seq(Octet)
  /\ heard = AtOnce(fed).messages
  /\ mav.buf = AtOnce(fed).mav.buf

LEMMA NewType ==
  /\ NewMavlink(SYSTEM_ID, COMPONENT_ID) \in MavlinkType
  /\ NewMavlink(SYSTEM_ID, COMPONENT_ID).buf = << >>
<1>1. 0 \in Octet /\ HEADER_LEN_V1 + 2 \in Nat
  BY DEF Octet, HEADER_LEN_V1
<1>2. << SYSTEM_ID, COMPONENT_ID >> \in [1..2 -> Octet]
  BY DEF SYSTEM_ID, COMPONENT_ID, Octet
<1>3. << >> \in Seq(Octet)
  BY EmptySeq
<1> QED BY <1>1, <1>2, <1>3 DEF NewMavlink, MavlinkType

(* The object that AtOnce begins with. *)
Given(bytes) == [NewMavlink(SYSTEM_ID, COMPONENT_ID) EXCEPT !.buf = @ \o bytes]

(* An object that receives more bytes. *)
LEMMA MoreBytes ==
  ASSUME NEW m \in MavlinkType, NEW bytes \in Seq(Octet)
  PROVE  /\ [m EXCEPT !.buf = @ \o bytes] \in MavlinkType
         /\ [m EXCEPT !.buf = @ \o bytes].buf = m.buf \o bytes
         /\ parse_buffer(m, bytes) = parse_rest[[m EXCEPT !.buf = @ \o bytes]]
<1> DEFINE joined == m.buf \o bytes
<1>1. m.buf \in Seq(Octet)
  BY DEF MavlinkType
<1>2. joined \in Seq(Octet)
  BY <1>1, ConcatProperties
<1>3. [m EXCEPT !.buf = @ \o bytes] = [m EXCEPT !.buf = joined]
  BY Zenon
<1> HIDE DEF joined
<1>4. [m EXCEPT !.buf = joined] \in MavlinkType /\ [m EXCEPT !.buf = joined].buf = joined
  BY <1>2 DEF MavlinkType
<1> QED BY <1>3, <1>4 DEF parse_buffer, joined

LEMMA GivenType ==
  ASSUME NEW bytes \in Seq(Octet)
  PROVE  /\ Given(bytes) \in MavlinkType /\ Given(bytes).buf = bytes
         /\ AtOnce(bytes) = parse_rest[Given(bytes)]
<1>1. << >> \o bytes = bytes
  BY ConcatEmptySeq
<1> QED BY <1>1, NewType, MoreBytes DEF Given, AtOnce

LEMMA ParserInitially == Init => ParserInv
<1> SUFFICES ASSUME Init PROVE ParserInv
  OBVIOUS
<1>1. mav = NewMavlink(SYSTEM_ID, COMPONENT_ID) /\ fed = << >> /\ heard = << >>
  BY DEF Init
<1>2. << >> \in Seq(Octet)
  BY EmptySeq
<1>3. toHost \in Seq(Octet)
  BY <1>2, MavlinkOperationAssumption DEF Init
<1>4. Given(<< >>) \in MavlinkType /\ Given(<< >>).buf = << >>
        /\ AtOnce(<< >>) = parse_rest[Given(<< >>)]
  BY <1>2, GivenType
<1>5. parse_next(Given(<< >>)).message = NoMessage
  BY <1>4 DEF parse_next, Parsed
<1>6. AtOnce(<< >>).messages = << >> /\ AtOnce(<< >>).mav.buf = << >>
  BY <1>4, <1>5, LoopedStops
<1> QED BY <1>1, <1>2, <1>3, <1>6, NewType DEF ParserInv

(* A chunk is parsed where the one before it left off. *)
LEMMA ReceiveParses == ASSUME ParserInv, Receive PROVE ParserInv'
<1>1. PICK n \in (Chunks \union {Len(toHost)}) \intersect (1..Len(toHost)) :
        LET chunk == SubSeq(toHost, 1, n)
            parsed == parse_buffer(mav, chunk)
        IN  /\ toHost' = without(toHost, n)
            /\ fed' = fed \o chunk
            /\ mav' = [mav EXCEPT !.buf = parsed.mav.buf,
                                  !.expected = parsed.mav.expected]
            /\ heard' = heard \o parsed.messages
  BY DEF Receive
<1> DEFINE chunk == SubSeq(toHost, 1, n)
           parsed == parse_buffer(mav, chunk)
           second == [mav EXCEPT !.buf = @ \o chunk]
<1>2. /\ mav \in MavlinkType /\ toHost \in Seq(Octet) /\ fed \in Seq(Octet)
      /\ heard = AtOnce(fed).messages /\ mav.buf = AtOnce(fed).mav.buf
  BY DEF ParserInv
<1>3. n \in 1..Len(toHost) /\ Len(toHost) \in Nat
  BY <1>2, LenProperties
<1>4. chunk \in Seq(Octet)
  <2>1. n \in 0..Len(toHost)
    BY <1>3
  <2> QED BY <1>2, <2>1, FrontType
<1>5. /\ toHost' = without(toHost, n) /\ fed' = fed \o chunk
      /\ mav' = [mav EXCEPT !.buf = parsed.mav.buf, !.expected = parsed.mav.expected]
      /\ heard' = heard \o parsed.messages
  BY <1>1
<1> HIDE DEF chunk
<1>6. fed \o chunk \in Seq(Octet)
  BY <1>2, <1>4, ConcatProperties
<1>7. second \in MavlinkType /\ second.buf = mav.buf \o chunk /\ parsed = parse_rest[second]
  BY <1>2, <1>4, MoreBytes
<1> HIDE DEF second, parsed
<1>8. CutAnywhere(Given(fed \o chunk), Given(fed), second, chunk)
  BY <1>2, <1>6, <1>7, GivenType DEF CutAnywhere
<1>9. SameResult(Given(fed \o chunk), Given(fed), second)
  BY <1>2, <1>4, <1>6, <1>7, <1>8, GivenType, CutsDoNotMatter
<1>10. /\ AtOnce(fed \o chunk).messages = heard \o parsed.messages
       /\ AtOnce(fed \o chunk).mav.buf = parsed.mav.buf
  BY <1>2, <1>6, <1>7, <1>9, GivenType DEF SameResult
<1>11. parsed.mav \in MavlinkType
  BY <1>7, ResultType DEF Results
<1>12. mav' \in MavlinkType /\ mav'.buf = parsed.mav.buf
  <2>1. parsed.mav.buf \in Seq(Octet) /\ parsed.mav.expected \in Nat
    BY <1>11 DEF MavlinkType
  <2> DEFINE b == parsed.mav.buf
             length == parsed.mav.expected
  <2> HIDE DEF b, length
  <2>2. /\ [mav EXCEPT !.buf = b, !.expected = length] \in MavlinkType
        /\ [mav EXCEPT !.buf = b, !.expected = length].buf = b
    <3>1. mav \in MavlinkType /\ b \in Seq(Octet) /\ length \in Nat
      BY <1>2, <2>1 DEF b, length
    <3> QED BY ONLY <3>1, Rebuffered
  <2>3. mav' = [mav EXCEPT !.buf = b, !.expected = length]
    BY <1>5 DEF b, length
  <2> QED BY <2>2, <2>3 DEF b
<1>13. toHost' \in Seq(Octet)
  <2>1. n \in 0..Len(toHost)
    BY <1>3
  <2> QED BY <1>2, <1>5, <2>1, WithoutType
<1> QED BY <1>5, <1>6, <1>10, <1>12, <1>13 DEF ParserInv

(* Sending counts the packet, and leaves the parser alone. *)
LEMMA EncodingParses ==
  ASSUME ParserInv, mav' \in {mav, encoded(mav)}, UNCHANGED << fed, heard >>,
         toHost' \in Seq(Octet)
  PROVE  ParserInv'
<1>1. mav \in MavlinkType /\ mav.seq \in Octet
  BY DEF ParserInv, MavlinkType
<1>2. (mav.seq + 1) % 256 \in Octet
  BY <1>1, NumbersWrap
<1>3. encoded(mav) \in MavlinkType /\ encoded(mav).buf = mav.buf
  <2> DEFINE seq == (mav.seq + 1) % 256
  <2>1. encoded(mav) = [mav EXCEPT !.seq = seq]
    BY Zenon DEF encoded
  <2> HIDE DEF seq
  <2>2. seq \in Octet
    BY <1>2 DEF seq
  <2>3. [mav EXCEPT !.seq = seq] \in MavlinkType /\ [mav EXCEPT !.seq = seq].buf = mav.buf
    BY <1>1, <2>2 DEF MavlinkType
  <2> QED BY <2>1, <2>3
<1>4. mav' \in MavlinkType /\ mav'.buf = mav.buf
  BY <1>1, <1>3
<1>5. AtOnce(fed)' = AtOnce(fed)
  BY DEF AtOnce
<1> QED BY <1>4, <1>5 DEF ParserInv

(* What a device says is bytes, damaged or not. *)
LEMMA TalkIsBytes ==
  ASSUME ParserInv, Talk \/ TalkDamaged
  PROVE  toHost' \in Seq(Octet) /\ UNCHANGED << mav, fed, heard >>
<1>1. toHost \in Seq(Octet)
  BY DEF ParserInv
<1>2. \A packet \in Packets : packet \in Seq(Octet)
  BY MavlinkOperationAssumption
<1>3. ASSUME NEW packet, NEW bytes \in Seq(Octet), Say(packet, bytes)
      PROVE  toHost' \in Seq(Octet) /\ UNCHANGED << mav, fed, heard >>
  <2>1. toHost' = toHost \o bytes /\ UNCHANGED << mav, fed, heard >>
    BY <1>3 DEF Say, hostVars
  <2> QED BY <1>1, <2>1, ConcatProperties
<1>4. CASE Talk
  BY <1>2, <1>3, <1>4 DEF Talk
<1>5. CASE TalkDamaged
  <2>1. PICK packet \in Packets :
          \E i \in DamagedAt \intersect (1..Len(packet)), damaged \in {<< >>, << MARKER_V1 >>} :
            Say(packet, SubSeq(packet, 1, i - 1) \o damaged \o without(packet, i))
    BY <1>5 DEF TalkDamaged
  <2>2. PICK i \in DamagedAt \intersect (1..Len(packet)), damaged \in {<< >>, << MARKER_V1 >>} :
          Say(packet, SubSeq(packet, 1, i - 1) \o damaged \o without(packet, i))
    BY <2>1
  <2> DEFINE before == SubSeq(packet, 1, i - 1)
             after == without(packet, i)
  <2>3. packet \in Seq(Octet) /\ i \in 1..Len(packet) /\ Len(packet) \in Nat
    BY <1>2, LenProperties
  <2>4. before \in Seq(Octet)
    <3>1. i - 1 \in 0..Len(packet)
      BY <2>3
    <3> QED BY <2>3, <3>1, FrontType
  <2>5. after \in Seq(Octet)
    <3>1. i \in 0..Len(packet)
      BY <2>3
    <3> QED BY <2>3, <3>1, WithoutType
  <2>6. damaged \in Seq(Octet)
    <3>1. MARKER_V1 \in Octet
      BY DEF MARKER_V1, Octet
    <3>2. << MARKER_V1 >> \in Seq(Octet)
      BY <3>1
    <3> QED BY <3>2, EmptySeq
  <2>7. before \o damaged \o after \in Seq(Octet)
    <3> HIDE DEF before, after
    <3>1. before \o damaged \in Seq(Octet)
      BY <2>4, <2>6, ConcatProperties
    <3> QED BY <2>5, <3>1, ConcatProperties
  <2> QED BY <1>3, <2>2, <2>7
<1> QED BY <1>4, <1>5

LEMMA NextParses == ASSUME ParserInv, [Next]_vars PROVE ParserInv'
<1>1. toHost \in Seq(Octet)
  BY DEF ParserInv
<1>2. CASE Receive
  BY <1>2, ReceiveParses
<1>3. CASE Talk \/ TalkDamaged
  BY <1>3, TalkIsBytes, EncodingParses
<1>4. CASE \/ Connect \/ NoHeartbeat \/ SendCommand \/ Reboot \/ RebootBroken
           \/ Raise \/ Cancel \/ Execute \/ Lose \/ UNCHANGED vars
  <2>1. mav' \in {mav, encoded(mav)} /\ UNCHANGED << fed, heard, toHost >>
    BY <1>4 DEF Connect, NoHeartbeat, SendCommand, Reboot, RebootBroken, Raise, Cancel,
                Execute, Lose, SendMessage, hostVars, devVars, vars
  <2> QED BY <1>1, <2>1, EncodingParses
<1> QED BY <1>2, <1>3, <1>4 DEF Next, Host, Terminated

(* However receive() cuts the stream, the loop over parse_buffer in        *)
(* _wait_for_heartbeat has heard, at any time, what a single parse_buffer  *)
(* of all its bytes would have returned: the parser keeps the bytes of an  *)
(* unfinished packet and nothing else, for every checksum and every stream. *)
THEOREM ChunksNeverMatter == Spec => []ChunksDoNotMatter
<1>1. ParserInv => ChunksDoNotMatter
  BY DEF ParserInv, ChunksDoNotMatter, AtOnce
<1> QED
  BY <1>1, ParserInitially, NextParses, PTL DEF Spec

------------------------------------------------------------------------------
(* FlattenSeq is a recursion too: the first i sequences in a row.          *)
InRow(f, s, i) == IF i = 1 THEN s[i] ELSE f[i - 1] \o s[i]
IsRow(f, s, n) == f = [i \in 1..n |-> InRow(f, s, i)]
Row(s, n) == CHOOSE f : IsRow(f, s, n)

LEMMA RowExists == ASSUME NEW s, NEW n \in Nat PROVE IsRow(Row(s, n), s, n)
<1> DEFINE Lacking == {k \in Nat : ~ \E f : IsRow(f, s, k)}
<1>1. Lacking = {}
  <2> SUFFICES ASSUME Lacking # {} PROVE FALSE
    OBVIOUS
  <2>1. PICK k \in Lacking : \A i \in Lacking : k <= i
    <3>1. Lacking \in SUBSET Nat
      OBVIOUS
    <3> HIDE DEF Lacking
    <3> QED BY <3>1, LeastNumber
  <2>2. k \in Nat /\ ~ \E f : IsRow(f, s, k)
    OBVIOUS
  <2>3. PICK f : k > 0 => IsRow(f, s, k - 1)
    <3>1. CASE k > 0
      <4>1. k - 1 \in Nat /\ ~(k <= k - 1)
        BY <2>2, <3>1
      <4>2. k - 1 \notin Lacking
        BY <2>1, <4>1
      <4> QED BY <4>1, <4>2
    <3> QED BY <3>1
  <2> DEFINE h == [i \in 1..k |-> InRow(f, s, i)]
  <2>4. ASSUME NEW i \in 1..k PROVE InRow(f, s, i) = InRow(h, s, i)
    <3>1. CASE i = 1
      BY <3>1 DEF InRow
    <3>2. CASE i # 1
      <4>1. k > 0 /\ i - 1 \in 1..(k - 1) /\ i - 1 \in 1..k
        BY <2>2, <3>2
      <4>2. f[i - 1] = InRow(f, s, i - 1)
        BY <2>3, <4>1, Zenon DEF IsRow
      <4>3. h[i - 1] = InRow(f, s, i - 1)
        BY <4>1
      <4> HIDE DEF h
      <4> QED BY <4>2, <4>3 DEF InRow
    <3> QED BY <3>1, <3>2
  <2>5. IsRow(h, s, k)
    BY <2>4, Zenon DEF IsRow
  <2> QED BY <2>2, <2>5
<1>2. \E f : IsRow(f, s, n)
  BY <1>1
<1> QED BY <1>2, Zenon DEF Row

LEMMA RowIs ==
  ASSUME NEW s, NEW n \in Nat, NEW i \in 1..n
  PROVE  Row(s, n)[i] = IF i = 1 THEN s[1] ELSE Row(s, n)[i - 1] \o s[i]
<1>1. IsRow(Row(s, n), s, n)
  BY RowExists
<1>2. Row(s, n)[i] = InRow(Row(s, n), s, i)
  BY <1>1, Zenon DEF IsRow
<1> QED BY <1>2 DEF InRow

(* What follows does not matter. *)
AgreeUpTo(n, f, g) == \A i \in 1..n : f[i] = g[i]

LEMMA RowsAgree ==
  ASSUME NEW s, NEW t, NEW n \in Nat, NEW k \in Nat, n <= k, AgreeUpTo(n, s, t)
  PROVE  AgreeUpTo(n, Row(s, n), Row(t, k))
<1> DEFINE Wrong == {i \in 1..n : Row(s, n)[i] # Row(t, k)[i]}
<1>1. Wrong = {}
  <2> SUFFICES ASSUME Wrong # {} PROVE FALSE
    OBVIOUS
  <2>1. PICK i \in Wrong : \A j \in Wrong : i <= j
    <3>1. Wrong \in SUBSET Nat
      OBVIOUS
    <3> HIDE DEF Wrong
    <3> QED BY <3>1, LeastNumber
  <2>2. i \in 1..n /\ i \in 1..k /\ Row(s, n)[i] # Row(t, k)[i]
    OBVIOUS
  <2>3. Row(s, n)[i] = IF i = 1 THEN s[1] ELSE Row(s, n)[i - 1] \o s[i]
    BY <2>2, RowIs
  <2>4. Row(t, k)[i] = IF i = 1 THEN t[1] ELSE Row(t, k)[i - 1] \o t[i]
    BY <2>2, RowIs
  <2>5. CASE i = 1
    BY <2>2, <2>3, <2>4, <2>5 DEF AgreeUpTo
  <2>6. CASE i # 1
    <3>1. i - 1 \in 1..n /\ ~(i <= i - 1)
      BY <2>2, <2>6
    <3>2. Row(s, n)[i - 1] = Row(t, k)[i - 1]
      <4>1. i - 1 \notin Wrong
        BY <2>1, <3>1
      <4> QED BY <3>1, <4>1
    <3>3. s[i] = t[i]
      BY <2>2 DEF AgreeUpTo
    <3> QED BY <2>2, <2>3, <2>4, <2>6, <3>2, <3>3
  <2> QED BY <2>5, <2>6
<1> QED BY <1>1 DEF AgreeUpTo

LEMMA FlattenIs ==
  ASSUME NEW s
  PROVE  FlattenSeq(s) = IF Len(s) = 0 THEN s ELSE Row(s, Len(s))[Len(s)]
  BY Zenon DEF FlattenSeq, Row, IsRow, InRow

(* One more sequence comes behind the others. *)
LEMMA FlattenAppend ==
  ASSUME NEW S, NEW s \in Seq(Seq(S)), NEW p \in Seq(S)
  PROVE  FlattenSeq(Append(s, p)) = FlattenSeq(s) \o p
<1> DEFINE t == Append(s, p)
           n == Len(s)
<1>1. /\ n \in Nat /\ Len(t) = n + 1 /\ t[n + 1] = p
      /\ \A i \in 1..n : s[i] = t[i]
  BY AppendProperties, LenProperties
<1> HIDE DEF t, n
<1>2. FlattenSeq(t) = Row(t, n + 1)[n + 1]
  BY <1>1, FlattenIs
<1>3. Row(t, n + 1)[n + 1]
        = IF n + 1 = 1 THEN t[1] ELSE Row(t, n + 1)[(n + 1) - 1] \o t[n + 1]
  <2>1. n + 1 \in Nat /\ n + 1 \in 1..(n + 1)
    BY <1>1
  <2> QED BY <2>1, RowIs
<1>4. CASE n = 0
  <2>1. s = << >>
    BY <1>4, EmptySeq DEF n
  <2>2. FlattenSeq(s) = << >>
    BY <2>1, FlattenIs
  <2>3. << >> \o p = p
    BY ConcatEmptySeq
  <2>4. FlattenSeq(t) = p
    BY <1>1, <1>2, <1>3, <1>4
  <2> QED BY <2>2, <2>3, <2>4 DEF t
<1>5. CASE n # 0
  <2>1. /\ FlattenSeq(s) = Row(s, n)[n]
        /\ n \in 1..n /\ n <= n + 1 /\ n + 1 \in Nat /\ (n + 1) - 1 = n /\ n + 1 # 1
    BY <1>1, <1>5, FlattenIs DEF n
  <2>2. Row(s, n)[n] = Row(t, n + 1)[n]
    <3>1. AgreeUpTo(n, s, t)
      BY <1>1 DEF AgreeUpTo
    <3>2. AgreeUpTo(n, Row(s, n), Row(t, n + 1))
      <4>1. n \in Nat /\ n + 1 \in Nat /\ n <= n + 1
        BY <1>1, <2>1
      <4> QED BY <3>1, <4>1, RowsAgree, Zenon
    <3> QED BY <2>1, <3>2 DEF AgreeUpTo
  <2>3. FlattenSeq(t) = Row(t, n + 1)[n] \o p
    BY <1>1, <1>2, <1>3, <2>1
  <2> QED BY <2>1, <2>2, <2>3 DEF t
<1> QED BY <1>4, <1>5

------------------------------------------------------------------------------
(* A whole packet is reported as it is, and nothing of it is left. *)
LEMMA PacketBytes == \A p \in Packets : p \in Seq(Octet) /\ IsPacket(p)
  BY MavlinkOperationAssumption, FirmwareAssumption

LEMMA PacketIsReported ==
  ASSUME NEW p \in Packets
  PROVE  /\ AtOnce(p).messages = << ReportOf(p) >> /\ AtOnce(p).mav.buf = << >>
         /\ ReportOf(p) \in Reports
<1> DEFINE m == Given(p)
           next == parse_next(m)
<1>1. /\ p \in Seq(Octet) /\ Len(p) \in Nat /\ Len(p) >= 3
      /\ p[1] \in {MARKER_V1, MARKER_V2} /\ p[2] \in Nat
  BY PacketBytes, BytesAreNumbers DEF IsPacket
<1>2. m \in MavlinkType /\ m.buf = p /\ AtOnce(p) = parse_rest[m]
  BY <1>1, GivenType
<1> HIDE DEF m
<1>3. claimed_length(p) = Len(p)
  <2>1. header_len(p) \in {6, 10} /\ signature_len(p) \in {0, 13}
    BY DEF header_len, signature_len, HEADER_LEN_V1, HEADER_LEN_V2, SIGNATURE_BLOCK_LEN
  <2>2. Len(p) = header_len(p) + p[2] + 2 + signature_len(p)
    BY PacketBytes DEF IsPacket
  <2> QED BY <1>1, <2>1, <2>2 DEF claimed_length
<1>4. Begins(p) /\ Taken(p) = Len(p) /\ Taken(p) # 0
  <2>1. p # << >>
    BY <1>1, EmptySeq
  <2>2. Begins(p)
    BY <1>1, <2>1 DEF Begins
  <2> QED BY <1>1, <1>3, <2>1, <2>2 DEF Taken
<1>5. Report(p) = ReportOf(p)
  <2>1. SubSeq(p, 1, Len(p)) = p
    BY <1>1, SubSeqFull
  <2> QED BY <1>4, <2>1 DEF Report
<1>6. Report(p) \in Reports /\ Report(p) # NoMessage
  BY <1>1, <1>4, ReportType
<1>7. without(p, Taken(p)) = << >>
  <2>1. Len(p) + 1 \in Int /\ Len(p) \in Int /\ Len(p) < Len(p) + 1
    BY <1>1
  <2> QED BY <1>4, <2>1, SubSeqEmpty DEF without
<1>8. next.message = ReportOf(p) /\ next.mav \in MavlinkType /\ next.mav.buf = << >>
  BY <1>2, <1>5, <1>7, NextIs
<1>9. parse_next(next.mav).message = NoMessage
  <2>1. Report(<< >>) = NoMessage
    BY DEF Report, Taken
  <2> QED BY <1>8, <2>1, NextIs
<1>10. parse_rest[next.mav].messages = << >> /\ parse_rest[next.mav].mav.buf = << >>
  BY <1>8, <1>9, LoopedStops
<1>11. /\ parse_rest[m].messages = << next.message >> \o parse_rest[next.mav].messages
       /\ parse_rest[m].mav = parse_rest[next.mav].mav
  BY <1>2, <1>5, <1>6, <1>8, ResultType, LoopedGoesOn
<1>12. << ReportOf(p) >> \o << >> = << ReportOf(p) >>
  <2>1. << ReportOf(p) >> \in Seq(Reports)
    BY <1>5, <1>6
  <2> QED BY <2>1, ConcatEmptySeq
<1> HIDE DEF next
<1> QED BY <1>2, <1>5, <1>6, <1>8, <1>10, <1>11, <1>12

(* Whole packets are reported as they are, one by one. *)
AsSent(s) ==
  /\ FlattenSeq(s) \in Seq(Octet)
  /\ AtOnce(FlattenSeq(s)).mav.buf = << >>
  /\ Len(AtOnce(FlattenSeq(s)).messages) = Len(s)
  /\ \A k \in 1..Len(s) : AtOnce(FlattenSeq(s)).messages[k] = ReportOf(s[k])

LEMMA NothingIsReported == AsSent(<< >>)
<1>1. FlattenSeq(<< >>) = << >> /\ << >> \in Seq(Octet)
  BY FlattenIs, EmptySeq
<1>2. /\ Given(<< >>) \in MavlinkType /\ Given(<< >>).buf = << >>
      /\ AtOnce(<< >>) = parse_rest[Given(<< >>)]
  BY <1>1, GivenType
<1>3. parse_next(Given(<< >>)).message = NoMessage
  BY <1>2, NextIs DEF Report, Taken
<1>4. AtOnce(<< >>).messages = << >> /\ AtOnce(<< >>).mav.buf = << >>
  BY <1>2, <1>3, LoopedStops
<1>5. Len(<< >>) = 0 /\ 1..0 = {}
  BY EmptySeq
<1> HIDE DEF AtOnce
<1>6. AtOnce(FlattenSeq(<< >>)) = AtOnce(<< >>)
  BY <1>1, Zenon
<1> QED BY <1>1, <1>4, <1>5, <1>6 DEF AsSent

LEMMA OneMoreIsReported ==
  ASSUME NEW s \in Seq(Packets), NEW p \in Packets, AsSent(s)
  PROVE  AsSent(Append(s, p))
<1> DEFINE bytes == FlattenSeq(s)
           first == AtOnce(bytes).messages
<1>1. p \in Seq(Octet) /\ bytes \in Seq(Octet)
  BY PacketBytes DEF AsSent
<1>2. FlattenSeq(Append(s, p)) = bytes \o p
  <2>1. s \in Seq(Seq(Octet))
    BY MavlinkOperationAssumption, SeqMonotonic
  <2> QED BY <1>1, <2>1, FlattenAppend
<1>3. bytes \o p \in Seq(Octet)
  BY <1>1, ConcatProperties
<1>4. /\ Given(bytes) \in MavlinkType /\ AtOnce(bytes) = parse_rest[Given(bytes)]
      /\ Given(bytes).buf = bytes
  BY <1>1, GivenType
<1>5. /\ Given(p) \in MavlinkType /\ AtOnce(p) = parse_rest[Given(p)] /\ Given(p).buf = p
  BY <1>1, GivenType
<1>6. /\ Given(bytes \o p) \in MavlinkType
      /\ AtOnce(bytes \o p) = parse_rest[Given(bytes \o p)]
      /\ Given(bytes \o p).buf = bytes \o p
  BY <1>3, GivenType
<1>7. CutAnywhere(Given(bytes \o p), Given(bytes), Given(p), p)
  <2>1. AtOnce(bytes).mav.buf = << >>
    BY DEF AsSent
  <2>2. << >> \o p = p
    BY <1>1, ConcatEmptySeq
  <2> QED BY <1>4, <1>5, <1>6, <2>1, <2>2 DEF CutAnywhere
<1>8. SameResult(Given(bytes \o p), Given(bytes), Given(p))
  BY <1>1, <1>4, <1>5, <1>6, <1>7, CutsDoNotMatter
<1>9. /\ AtOnce(bytes \o p).messages = first \o << ReportOf(p) >>
      /\ AtOnce(bytes \o p).mav.buf = << >>
  BY <1>4, <1>5, <1>6, <1>8, PacketIsReported DEF SameResult
<1>10. first \in Seq(Reports) /\ << ReportOf(p) >> \in Seq(Reports)
  <2>1. first \in Seq(Reports)
    BY <1>4, ResultType DEF Results
  <2>2. ReportOf(p) \in Reports
    BY PacketIsReported
  <2> QED BY <2>1, <2>2
<1>11. /\ Len(first) = Len(s) /\ Len(s) \in Nat
       /\ \A k \in 1..Len(s) : first[k] = ReportOf(s[k])
  BY LenProperties DEF AsSent
<1> HIDE DEF first
<1> DEFINE all == first \o << ReportOf(p) >>
<1>12. /\ Len(all) = Len(s) + 1
       /\ \A k \in 1..(Len(s) + 1) : all[k] = IF k <= Len(s) THEN first[k] ELSE ReportOf(p)
  <2> DEFINE last == << ReportOf(p) >>
  <2>1. Len(last) = 1 /\ last[1] = ReportOf(p) /\ last \in Seq(Reports)
    BY <1>10
  <2> HIDE DEF last
  <2>2. /\ Len(first \o last) = Len(first) + Len(last)
        /\ \A k \in 1..(Len(first) + Len(last)) :
             (first \o last)[k] = IF k <= Len(first) THEN first[k] ELSE last[k - Len(first)]
    BY <1>10, <2>1, ConcatProperties
  <2>3. ASSUME NEW k \in 1..(Len(s) + 1)
        PROVE  (first \o last)[k] = IF k <= Len(s) THEN first[k] ELSE ReportOf(p)
    <3>1. k <= Len(s) \/ k - Len(first) = 1
      BY <1>11
    <3> QED BY <1>11, <2>1, <2>2, <3>1
  <2>4. Len(first \o last) = Len(s) + 1
    BY <1>11, <2>1, <2>2
  <2> QED BY <2>3, <2>4 DEF last
<1> HIDE DEF all
<1>13. /\ Len(Append(s, p)) = Len(s) + 1 /\ Append(s, p)[Len(s) + 1] = p
       /\ \A k \in 1..Len(s) : Append(s, p)[k] = s[k]
  BY AppendProperties
<1>14. ASSUME NEW k \in 1..(Len(s) + 1) PROVE all[k] = ReportOf(Append(s, p)[k])
  <2>1. CASE k <= Len(s)
    <3>1. k \in 1..Len(s)
      BY <1>11, <2>1
    <3> QED BY <1>11, <1>12, <1>13, <2>1, <3>1
  <2>2. CASE ~(k <= Len(s))
    <3>1. k = Len(s) + 1
      BY <1>11, <2>2
    <3> QED BY <1>12, <1>13, <2>2, <3>1
  <2> QED BY <2>1, <2>2
<1>15. AtOnce(FlattenSeq(Append(s, p))).messages = all
  BY <1>2, <1>9 DEF all
<1> QED BY <1>2, <1>3, <1>9, <1>12, <1>13, <1>14, <1>15 DEF AsSent

LEMMA PacketsAreReported == \A s \in Seq(Packets) : AsSent(s)
<1> DEFINE Wrong == {n \in Nat : \E s \in Seq(Packets) : Len(s) = n /\ ~AsSent(s)}
<1>1. Wrong = {}
  <2> SUFFICES ASSUME Wrong # {} PROVE FALSE
    OBVIOUS
  <2>1. PICK n \in Wrong : \A i \in Wrong : n <= i
    <3>1. Wrong \in SUBSET Nat
      OBVIOUS
    <3> HIDE DEF Wrong
    <3> QED BY <3>1, LeastNumber
  <2>2. PICK s \in Seq(Packets) : Len(s) = n /\ ~AsSent(s)
    OBVIOUS
  <2>3. s # << >>
    BY <2>2, NothingIsReported
  <2>4. PICK front \in Seq(Packets), p \in Packets : s = Append(front, p)
    BY <2>3, SequenceEmptyOrAppend
  <2>5. Len(front) \in Nat /\ n = Len(front) + 1
    BY <2>2, <2>4, AppendProperties, LenProperties
  <2>6. Len(front) \notin Wrong
    BY <2>1, <2>5
  <2>7. AsSent(front)
    BY <2>5, <2>6
  <2> QED BY <2>2, <2>4, <2>7, OneMoreIsReported
<1>2. ASSUME NEW s \in Seq(Packets) PROVE AsSent(s)
  <2>1. Len(s) \in Nat /\ Len(s) \notin Wrong
    BY <1>1, LenProperties
  <2> QED BY <2>1
<1> QED BY <1>2

------------------------------------------------------------------------------
(* While the operation listens it has heard no heartbeat, and what was     *)
(* sent are packets.                                                       *)
ListenInv ==
  /\ sent \in Seq(Packets)
  /\ Listens => \A i \in 1..Len(heard) : heard[i].type # "HEARTBEAT"

LEMMA ListenInitially == Init => ListenInv
<1> SUFFICES ASSUME Init PROVE ListenInv
  OBVIOUS
<1>1. sent = << >> /\ heard = << >>
  BY DEF Init
<1>2. sent \in Seq(Packets) /\ Len(heard) = 0
  BY <1>1, EmptySeq
<1> QED BY <1>2 DEF ListenInv

(* A chunk that holds no heartbeat lets the operation listen on. *)
LEMMA ReceiveListens == ASSUME ParserInv, ListenInv, Receive PROVE ListenInv'
<1>1. PICK n \in (Chunks \union {Len(toHost)}) \intersect (1..Len(toHost)) :
        LET parsed == parse_buffer(mav, SubSeq(toHost, 1, n))
        IN  /\ heard' = heard \o parsed.messages
            /\ IF HasHeartbeat(parsed.messages)
                 THEN pc' = "command" /\ mode' = "mavlink" /\ lock' = FALSE
                 ELSE UNCHANGED << pc, mode, lock >>
  BY DEF Receive
<1> DEFINE new == parse_buffer(mav, SubSeq(toHost, 1, n)).messages
<1>2. /\ heard' = heard \o new /\ (HasHeartbeat(new) => pc' = "command")
  BY <1>1
<1>3. pc = "listening" /\ sent' = sent
  BY DEF Receive, devVars
<1>4. heard \in Seq(Reports) /\ new \in Seq(Reports)
  <2>1. mav \in MavlinkType /\ fed \in Seq(Octet) /\ heard = AtOnce(fed).messages
    BY DEF ParserInv
  <2>2. heard \in Seq(Reports)
    BY <2>1, GivenType, ResultType DEF Results
  <2>3. SubSeq(toHost, 1, n) \in Seq(Octet)
    <3>1. toHost \in Seq(Octet) /\ n \in 0..Len(toHost)
      BY LenProperties DEF ParserInv
    <3> QED BY <3>1, FrontType
  <2>4. new \in Seq(Reports)
    BY <2>1, <2>3, MoreBytes, ResultType DEF Results
  <2> QED BY <2>2, <2>4
<1> HIDE DEF new
<1>5. ASSUME Listens', NEW i \in 1..Len(heard') PROVE heard'[i].type # "HEARTBEAT"
  <2>1. ~HasHeartbeat(new)
    BY <1>2, <1>5 DEF Listens
  <2>2. \A k \in 1..Len(new) : new[k].type # "HEARTBEAT"
    BY <2>1 DEF HasHeartbeat
  <2>3. \A k \in 1..Len(heard) : heard[k].type # "HEARTBEAT"
    BY <1>3 DEF ListenInv, Listens
  <2>4. /\ Len(heard) \in Nat /\ Len(new) \in Nat /\ Len(heard') = Len(heard) + Len(new)
        /\ heard'[i] = IF i <= Len(heard) THEN heard[i] ELSE new[i - Len(heard)]
    <3>1. /\ Len(heard \o new) = Len(heard) + Len(new)
          /\ \A k \in 1..(Len(heard) + Len(new)) : (heard \o new)[k]
               = IF k <= Len(heard) THEN heard[k] ELSE new[k - Len(heard)]
      BY <1>4, ConcatProperties
    <3>2. Len(heard) \in Nat /\ Len(new) \in Nat
      BY <1>4, LenProperties
    <3>3. i \in 1..(Len(heard) + Len(new))
      BY <1>2, <1>5, <3>1
    <3> QED BY <1>2, <3>1, <3>2, <3>3
  <2>5. CASE i <= Len(heard)
    <3>1. i \in 1..Len(heard)
      BY <1>5, <2>4, <2>5
    <3> QED BY <2>3, <2>4, <2>5, <3>1
  <2>6. CASE ~(i <= Len(heard))
    <3>1. i - Len(heard) \in 1..Len(new)
      BY <1>5, <2>4, <2>6
    <3> QED BY <2>2, <2>4, <2>6, <3>1
  <2> QED BY <2>5, <2>6
<1> QED BY <1>3, <1>5 DEF ListenInv

LEMMA NextListens == ASSUME ParserInv, ListenInv, [Next]_vars PROVE ListenInv'
<1>1. CASE Receive
  BY <1>1, ReceiveListens
<1>2. CASE Talk \/ TalkDamaged
  <2>1. PICK packet \in Packets : sent' = Append(sent, packet) /\ UNCHANGED << pc, heard >>
    BY <1>2 DEF Talk, TalkDamaged, Say, hostVars
  <2>2. sent' \in Seq(Packets)
    BY <2>1, AppendProperties DEF ListenInv
  <2> QED BY <2>1, <2>2 DEF ListenInv, Listens
<1>3. CASE \/ Connect \/ NoHeartbeat \/ SendCommand \/ Reboot \/ RebootBroken
           \/ Raise \/ Cancel \/ Execute \/ Lose \/ UNCHANGED vars
  <2>1. UNCHANGED << heard, sent >> /\ (Listens' => Listens)
    BY <1>3 DEF Connect, NoHeartbeat, SendCommand, Reboot, RebootBroken, Raise, Cancel,
                Execute, Lose, Finish, Listens, hostVars, devVars, vars
  <2> QED BY <2>1 DEF ListenInv
<1> QED BY <1>1, <1>2, <1>3 DEF Next, Host, Terminated

(* A packet that is reported keeps its bytes; a heartbeat is reported as   *)
(* one.                                                                    *)
LEMMA ReportedBytes == \A p : ReportOf(p).bytes = p
<1> TAKE p
<1> DEFINE id == message_id(p)
<1>1. PARAM_SET \in KnownIds
  BY DEF KnownIds
<1> HIDE DEF id
<1>2. CASE id \notin KnownIds
  BY <1>1, <1>2 DEF ReportOf, decode, BadData, Message, id
<1>3. CASE id = PARAM_SET
  BY <1>1, <1>3 DEF ReportOf, decode, BadData, Message, id
<1>4. CASE id \in KnownIds \ {PARAM_SET}
  BY <1>4 DEF ReportOf, decode, BadData, Message, id
<1> QED BY <1>2, <1>3, <1>4

LEMMA ReportedHeartbeat == \A p \in Heartbeats : ReportOf(p).type = "HEARTBEAT"
<1> TAKE p \in Heartbeats
<1>1. message_id(p) = HEARTBEAT /\ crc_matches(p) /\ (is_v2(p) => p[3] \div 2 = 0)
  BY FirmwareAssumption DEF IsHeartbeat
<1>2. HEARTBEAT \in KnownIds \ {PARAM_SET} /\ HEARTBEAT # PARAM_SET
  BY DEF KnownIds, HEARTBEAT, PARAM_SET
<1>3. decode(p) = Message(type_name(HEARTBEAT), p)
  BY <1>1, <1>2 DEF decode
<1>4. type_name(HEARTBEAT) = "HEARTBEAT"
  BY DEF type_name, HEARTBEAT, PARAM_SET, COMMAND_LONG, COMMAND_ACK
<1>5. ReportOf(p) = decode(p)
  BY <1>1 DEF ReportOf
<1> QED BY <1>3, <1>4, <1>5 DEF Message

(* However they are cut, of whole packets parse_buffer reports each as it  *)
(* was sent, in order, and nothing else; and an operation that was sent a  *)
(* heartbeat does not go on listening.                                     *)
THEOREM PacketsAreHeardAsSent == Spec => []HeardAsSent
<1>1. ASSUME ParserInv, ListenInv PROVE HeardAsSent
  <2> SUFFICES ASSUME pc = "listening", fed = FlattenSeq(sent)
               PROVE  /\ Len(heard) = Len(sent)
                      /\ \A k \in 1..Len(sent) :
                           heard[k].bytes = sent[k] /\ sent[k] \notin Heartbeats
    BY DEF HeardAsSent
  <2>1. AsSent(sent) /\ heard = AtOnce(FlattenSeq(sent)).messages
    BY <1>1, PacketsAreReported DEF ParserInv, ListenInv
  <2>2. Len(heard) = Len(sent) /\ \A k \in 1..Len(sent) : heard[k] = ReportOf(sent[k])
    BY <2>1 DEF AsSent
  <2>3. ASSUME NEW k \in 1..Len(sent)
        PROVE  heard[k].bytes = sent[k] /\ sent[k] \notin Heartbeats
    <3>1. heard[k] = ReportOf(sent[k]) /\ heard[k].type # "HEARTBEAT"
      BY <1>1, <2>2 DEF ListenInv, Listens
    <3> QED BY <3>1, ReportedBytes, ReportedHeartbeat
  <2> QED BY <2>2, <2>3
<1>2. Spec => []ParserInv
  BY ParserInitially, NextParses, PTL DEF Spec
<1>3. Spec => []ListenInv
  BY <1>2, ListenInitially, NextListens, PTL DEF Spec
<1> QED
  BY <1>1, <1>2, <1>3, PTL

------------------------------------------------------------------------------
(* The parser loses no byte. *)
LEMMA FlattenNothing == FlattenSeq(<< >>) = << >>
  BY FlattenIs, EmptySeq

(* An induction over the second of two sequences of sequences. *)
LEMMA FlattenConcat ==
  ASSUME NEW S, NEW s \in Seq(Seq(S)), FlattenSeq(s) \in Seq(S)
  PROVE  \A t \in Seq(Seq(S)) : /\ FlattenSeq(t) \in Seq(S)
                                /\ FlattenSeq(s \o t) = FlattenSeq(s) \o FlattenSeq(t)
<1> DEFINE Fine(t) == /\ FlattenSeq(t) \in Seq(S)
                      /\ FlattenSeq(s \o t) = FlattenSeq(s) \o FlattenSeq(t)
           Wrong == {n \in Nat : \E t \in Seq(Seq(S)) : Len(t) = n /\ ~Fine(t)}
<1>1. Fine(<< >>)
  <2>1. s \o << >> = s /\ FlattenSeq(s) \o << >> = FlattenSeq(s) /\ << >> \in Seq(S)
    BY ConcatEmptySeq, EmptySeq
  <2> QED BY <2>1, FlattenNothing
<1>2. ASSUME NEW t \in Seq(Seq(S)), NEW p \in Seq(S), Fine(t) PROVE Fine(Append(t, p))
  <2>1. FlattenSeq(Append(t, p)) = FlattenSeq(t) \o p
    BY FlattenAppend
  <2>2. s \o Append(t, p) = Append(s \o t, p) /\ s \o t \in Seq(Seq(S))
    <3>1. Append(t, p) = t \o << p >> /\ << p >> \in Seq(Seq(S)) /\ s \o t \in Seq(Seq(S))
      BY AppendIsConcat, ConcatProperties
    <3>2. Append(s \o t, p) = (s \o t) \o << p >>
      BY <3>1, AppendIsConcat
    <3>3. (s \o t) \o << p >> = s \o (t \o << p >>)
      <4> DEFINE one == << p >>
      <4> HIDE DEF one
      <4>1. s \in Seq(Seq(S)) /\ t \in Seq(Seq(S)) /\ one \in Seq(Seq(S))
        BY <3>1 DEF one
      <4>2. (s \o t) \o one = s \o (t \o one)
        BY ONLY <4>1, ConcatAssociative
      <4> QED BY <4>2 DEF one
    <3> QED BY <3>1, <3>2, <3>3
  <2>3. FlattenSeq(Append(s \o t, p)) = FlattenSeq(s \o t) \o p
    BY <2>2, FlattenAppend
  <2>4. (FlattenSeq(s) \o FlattenSeq(t)) \o p = FlattenSeq(s) \o (FlattenSeq(t) \o p)
    BY <1>2, ConcatAssociative
  <2>5. FlattenSeq(t) \o p \in Seq(S)
    BY <1>2, ConcatProperties
  <2> QED BY <1>2, <2>1, <2>2, <2>3, <2>4, <2>5
<1> HIDE DEF Fine
<1>3. Wrong = {}
  <2> SUFFICES ASSUME Wrong # {} PROVE FALSE
    OBVIOUS
  <2>1. PICK n \in Wrong : \A i \in Wrong : n <= i
    <3>1. Wrong \in SUBSET Nat
      OBVIOUS
    <3> HIDE DEF Wrong
    <3> QED BY <3>1, LeastNumber
  <2>2. PICK t \in Seq(Seq(S)) : Len(t) = n /\ ~Fine(t)
    OBVIOUS
  <2>3. t # << >>
    BY <1>1, <2>2
  <2>4. PICK front \in Seq(Seq(S)), p \in Seq(S) : t = Append(front, p)
    BY <2>3, SequenceEmptyOrAppend
  <2>5. Len(front) \in Nat /\ n = Len(front) + 1
    BY <2>2, <2>4, AppendProperties, LenProperties
  <2>6. Fine(front)
    <3>1. Len(front) \notin Wrong
      <4>1. Len(front) \in Nat /\ n \in Nat /\ ~(n <= Len(front))
        BY <2>5
      <4> HIDE DEF Wrong
      <4> QED BY <2>1, <4>1
    <3> QED BY <2>5, <3>1
  <2> QED BY <1>2, <2>2, <2>4, <2>6
<1>4. ASSUME NEW t \in Seq(Seq(S)) PROVE Fine(t)
  <2>1. Len(t) \in Nat /\ Len(t) \notin Wrong
    BY <1>3, LenProperties
  <2> QED BY <2>1
<1> QED BY <1>4 DEF Fine

(* The first of the sequences in a row. *)
LEMMA FlattenFirst ==
  ASSUME NEW S, NEW p \in Seq(S), NEW t \in Seq(Seq(S))
  PROVE  FlattenSeq(<< p >> \o t) = p \o FlattenSeq(t) /\ FlattenSeq(t) \in Seq(S)
<1>1. FlattenSeq(<< p >>) = p
  <2>1. << >> \in Seq(Seq(S)) /\ Append(<< >>, p) = << p >> /\ << >> \o p = p
    BY EmptySeq, ConcatEmptySeq
  <2>2. FlattenSeq(Append(<< >>, p)) = FlattenSeq(<< >>) \o p
    BY <2>1, FlattenAppend
  <2> QED BY <2>1, <2>2, FlattenNothing
<1>2. << p >> \in Seq(Seq(S))
  OBVIOUS
<1> DEFINE s == << p >>
<1> HIDE DEF s
<1>3. s \in Seq(Seq(S)) /\ FlattenSeq(s) = p
  BY <1>1, <1>2 DEF s
<1>4. FlattenSeq(t) \in Seq(S) /\ FlattenSeq(s \o t) = FlattenSeq(s) \o FlattenSeq(t)
  BY <1>3, FlattenConcat
<1> QED BY <1>3, <1>4 DEF s

LEMMA BytesOfFirst ==
  ASSUME NEW message \in Reports, NEW messages \in Seq(Reports)
  PROVE  /\ BytesOf(messages) \in Seq(Seq(Octet))
         /\ BytesOf(<< message >> \o messages) = << message.bytes >> \o BytesOf(messages)
<1> DEFINE all == << message >> \o messages
           rest == BytesOf(messages)
           joined == << message.bytes >> \o rest
<1>1. Len(messages) \in Nat /\ \A i \in 1..Len(messages) : messages[i] \in Reports
  BY LenProperties, ElementOfSeq
<1>2. \A r \in Reports : r.bytes \in Seq(Octet)
  BY DEF Reports
<1>3. rest \in Seq(Seq(Octet)) /\ Len(rest) = Len(messages)
        /\ \A i \in 1..Len(messages) : rest[i] = messages[i].bytes
  BY <1>1, <1>2 DEF BytesOf
<1> HIDE DEF rest
<1>4. /\ Len(all) = 1 + Len(messages)
      /\ all[1] = message /\ \A i \in 2..(1 + Len(messages)) : all[i] = messages[i - 1]
  <2> DEFINE first == << message >>
  <2>1. first \in Seq(Reports) /\ Len(first) = 1 /\ first[1] = message
    OBVIOUS
  <2> HIDE DEF first
  <2>2. /\ Len(first \o messages) = Len(first) + Len(messages)
        /\ \A i \in 1..(Len(first) + Len(messages)) : (first \o messages)[i]
             = IF i <= Len(first) THEN first[i] ELSE messages[i - Len(first)]
    BY <2>1, ConcatProperties
  <2>3. /\ Len(first \o messages) = 1 + Len(messages) /\ (first \o messages)[1] = message
        /\ \A i \in 2..(1 + Len(messages)) : (first \o messages)[i] = messages[i - 1]
    BY <1>1, <2>1, <2>2
  <2> QED BY <2>3 DEF first
<1> HIDE DEF all
<1>5. /\ joined \in Seq(Seq(Octet)) /\ Len(joined) = 1 + Len(messages)
      /\ joined[1] = message.bytes
      /\ \A i \in 2..(1 + Len(messages)) : joined[i] = rest[i - 1]
  <2> DEFINE first == << message.bytes >>
  <2>1. first \in Seq(Seq(Octet)) /\ Len(first) = 1 /\ first[1] = message.bytes
    <3>1. message.bytes \in Seq(Octet)
      BY <1>2
    <3> QED BY <3>1
  <2> HIDE DEF first
  <2>2. /\ first \o rest \in Seq(Seq(Octet))
        /\ Len(first \o rest) = Len(first) + Len(rest)
        /\ \A i \in 1..(Len(first) + Len(rest)) : (first \o rest)[i]
             = IF i <= Len(first) THEN first[i] ELSE rest[i - Len(first)]
    <3>1. first \in Seq(Seq(Octet)) /\ rest \in Seq(Seq(Octet))
      BY <1>3, <2>1
    <3> QED BY ONLY <3>1, ConcatProperties
  <2>3. /\ Len(first \o rest) = 1 + Len(messages) /\ (first \o rest)[1] = message.bytes
        /\ \A i \in 2..(1 + Len(messages)) : (first \o rest)[i] = rest[i - 1]
    BY <1>1, <1>3, <2>1, <2>2
  <2> QED BY <2>2, <2>3 DEF first
<1> HIDE DEF joined
<1>6. ASSUME NEW i \in 1..(1 + Len(messages)) PROVE all[i].bytes = joined[i]
  <2>1. CASE i = 1
    BY <1>4, <1>5, <2>1
  <2>2. CASE i # 1
    <3>1. i \in 2..(1 + Len(messages)) /\ i - 1 \in 1..Len(messages)
      BY <1>1, <2>2
    <3> QED BY <1>3, <1>4, <1>5, <3>1
  <2> QED BY <2>1, <2>2
<1>7. BytesOf(all) = [i \in 1..(1 + Len(messages)) |-> joined[i]]
  BY <1>4, <1>6 DEF BytesOf
<1>8. joined = [i \in 1..(1 + Len(messages)) |-> joined[i]]
  <2>1. joined \in [1..Len(joined) -> Seq(Octet)]
    BY <1>5, LenProperties
  <2> QED BY <1>5, <2>1
<1>9. BytesOf(all) = joined
  BY <1>7, <1>8
<1> QED BY <1>3, <1>9 DEF all, joined, rest

(* What parse_char reports is what it takes off the buffer. *)
LEMMA ReportedIsTaken ==
  ASSUME NEW b \in Seq(Octet), Taken(b) # 0
  PROVE  Report(b).bytes \o without(b, Taken(b)) = b
<1> DEFINE k == Taken(b)
<1>1. /\ k \in 1..Len(b) /\ Len(b) \in Nat /\ b # << >> /\ 1 \in 1..Len(b)
  <2>1. b # << >>
    BY DEF Taken
  <2> QED BY <2>1, TakenType, EmptySeq
<1>2. Report(b).bytes = SubSeq(b, 1, k)
  <2>1. CASE Begins(b)
    BY <2>1, ReportedBytes DEF Report
  <2>2. CASE ~Begins(b)
    <3>1. k = 1 /\ Report(b).bytes = << b[1] >>
      BY <1>1, <2>2 DEF Taken, Report, BadData, Message
    <3>2. SubSeq(b, 1, 1) = << b[1] >> \o SubSeq(b, 2, 1)
      <4>1. 1 \in 1..Len(b) /\ 1 \in 1..1
        BY <1>1
      <4>2. SubSeq(b, 1, 1) = << b[1] >> \o SubSeq(b, 1 + 1, 1)
        BY <4>1, <1>1, SubSeqRecursiveFirst
      <4> QED BY <4>2
    <3>3. SubSeq(b, 2, 1) = << >>
      BY SubSeqEmpty
    <3>4. << b[1] >> \o << >> = << b[1] >>
      <4>1. << b[1] >> \in Seq(Octet)
        <5>1. b[1] \in Octet
          BY <1>1, ElementOfSeq
        <5> QED BY <5>1
      <4> QED BY <4>1, ConcatEmptySeq
    <3> QED BY <3>1, <3>2, <3>3, <3>4
  <2> QED BY <2>1, <2>2
<1>3. SubSeq(b, 1, k) \o SubSeq(b, k + 1, Len(b)) = SubSeq(b, 1, Len(b))
  <2>1. 1 \in 1..(Len(b) + 1) /\ k \in (1 - 1)..Len(b) /\ Len(b) \in k..Len(b)
    BY <1>1
  <2> HIDE DEF k
  <2> QED BY <2>1, ConcatAdjacentSubSeq
<1>4. SubSeq(b, 1, Len(b)) = b
  BY SubSeqFull
<1> QED BY <1>2, <1>3, <1>4 DEF without

LEMMA ParsingKeepsBytes ==
  \A m \in MavlinkType :
    FlattenSeq(BytesOf(parse_rest[m].messages)) \o parse_rest[m].mav.buf = m.buf
<1> DEFINE Kept(m) ==
             FlattenSeq(BytesOf(parse_rest[m].messages)) \o parse_rest[m].mav.buf = m.buf
           Wrong == {n \in Nat : \E m \in MavlinkType : Len(m.buf) = n /\ ~Kept(m)}
<1>1. \A m \in MavlinkType : Len(m.buf) \in Nat /\ m.buf \in Seq(Octet)
  BY LenProperties DEF MavlinkType
<1>2. ASSUME NEW m \in MavlinkType, parse_next(m).message = NoMessage PROVE Kept(m)
  <2>1. parse_rest[m].messages = << >> /\ parse_rest[m].mav.buf = m.buf
    BY <1>2, LoopedStops
  <2>2. BytesOf(<< >>) = << >>
    BY EmptySeq DEF BytesOf
  <2>3. << >> \o m.buf = m.buf
    BY <1>1, ConcatEmptySeq
  <2> QED BY <2>1, <2>2, <2>3, FlattenNothing
<1>3. ASSUME NEW m \in MavlinkType, parse_next(m).message # NoMessage,
             Kept(parse_next(m).mav)
      PROVE  Kept(m)
  <2> DEFINE next == parse_next(m)
             messages == parse_rest[next.mav].messages
             left == parse_rest[next.mav].mav.buf
             flat == FlattenSeq(BytesOf(messages))
             bytes == next.message.bytes
  <2>1. /\ next.mav \in MavlinkType /\ next.message \in Reports /\ Taken(m.buf) # 0
    BY <1>3, ReportsShrink
  <2>2. messages \in Seq(Reports) /\ left \in Seq(Octet) /\ bytes \in Seq(Octet)
    BY <2>1, ResultType DEF Results, Reports, MavlinkType
  <2>3. /\ parse_rest[m].messages = << next.message >> \o messages
        /\ parse_rest[m].mav.buf = left
    BY <1>3, <2>1, ResultType, LoopedGoesOn
  <2>4. bytes \o next.mav.buf = m.buf
    BY <1>1, <2>1, NextIs, ReportedIsTaken
  <2>5. flat \o left = next.mav.buf
    BY <1>3
  <2> HIDE DEF next, messages, left
  <2>6. /\ BytesOf(messages) \in Seq(Seq(Octet))
        /\ BytesOf(<< next.message >> \o messages) = << bytes >> \o BytesOf(messages)
    BY <2>1, <2>2, BytesOfFirst
  <2>7. /\ FlattenSeq(<< bytes >> \o BytesOf(messages)) = bytes \o flat
        /\ flat \in Seq(Octet)
    BY <2>2, <2>6, FlattenFirst
  <2> HIDE DEF bytes, flat
  <2>8. (bytes \o flat) \o left = bytes \o (flat \o left)
    BY <2>2, <2>7, ConcatAssociative
  <2>9. FlattenSeq(BytesOf(parse_rest[m].messages)) = bytes \o flat
    BY <2>3, <2>6, <2>7, Zenon
  <2> QED BY <2>3, <2>4, <2>5, <2>8, <2>9
<1> HIDE DEF Kept
<1>4. Wrong = {}
  <2> SUFFICES ASSUME Wrong # {} PROVE FALSE
    OBVIOUS
  <2>1. PICK n \in Wrong : \A i \in Wrong : n <= i
    <3>1. Wrong \in SUBSET Nat
      OBVIOUS
    <3> HIDE DEF Wrong
    <3> QED BY <3>1, LeastNumber
  <2>2. PICK m \in MavlinkType : Len(m.buf) = n /\ ~Kept(m)
    OBVIOUS
  <2> DEFINE next == parse_next(m)
  <2>3. next.message # NoMessage
    BY <1>2, <2>2
  <2>4. next.mav \in MavlinkType /\ Len(next.mav.buf) \in Nat /\ ~(n <= Len(next.mav.buf))
    BY <1>1, <2>2, <2>3, ReportsShrink
  <2>5. Kept(next.mav)
    BY <2>1, <2>4
  <2> QED BY <1>3, <2>2, <2>3, <2>5
<1>5. ASSUME NEW m \in MavlinkType PROVE Kept(m)
  <2>1. Len(m.buf) \in Nat /\ Len(m.buf) \notin Wrong
    BY <1>1, <1>4
  <2> QED BY <2>1
<1> QED BY <1>5 DEF Kept

(* Whatever is on the link, damaged or not, the messages that parse_char   *)
(* reports (BAD_DATA among them) and the bytes that it still holds are the *)
(* bytes that were received: resynchronising skips nothing silently.       *)
THEOREM NoByteIsEverLost == Spec => []NoByteIsLost
<1>1. ASSUME ParserInv PROVE NoByteIsLost
  <2>1. /\ Given(fed) \in MavlinkType /\ Given(fed).buf = fed
        /\ AtOnce(fed) = parse_rest[Given(fed)]
    BY <1>1, GivenType DEF ParserInv
  <2>2. heard = AtOnce(fed).messages /\ mav.buf = AtOnce(fed).mav.buf
    BY <1>1 DEF ParserInv
  <2>3. FlattenSeq(BytesOf(AtOnce(fed).messages)) \o AtOnce(fed).mav.buf = fed
    BY <2>1, ParsingKeepsBytes
  <2> QED BY <2>2, <2>3 DEF NoByteIsLost
<1> QED
  BY <1>1, ParserInitially, NextParses, PTL DEF Spec

(* What _wait_for_heartbeat hears is exactly what is in the bytes that it  *)
(* received: no message depends on how they were cut, no byte is skipped   *)
(* silently, and whole packets are reported as they were sent.             *)
THEOREM ParsingIsAlwaysExact == Spec => []ParsingIsExact
<1>1. ChunksDoNotMatter /\ NoByteIsLost /\ HeardAsSent => ParsingIsExact
  BY DEF ParsingIsExact
<1> QED
  BY <1>1, ChunksNeverMatter, NoByteIsEverLost, PacketsAreHeardAsSent, PTL
==============================================================================
