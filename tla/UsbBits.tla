------------------------------ MODULE UsbBits ------------------------------
(***************************************************************************)
(* The wire side of the driver: the transmitter (usbSendAndReti) and the   *)
(* receiver loop of usbdrvasm16.inc, and usbCrc16 of usbdrvasm.S. A packet *)
(* is sent bit by bit, the levels of the line are then sampled bit by bit. *)
(* Timing (cycles, leap cycles, the search for the sync pattern) is left   *)
(* out: each bit is sampled once.                                          *)
(*                                                                         *)
(* A data bit 0 toggles the line, a 1 keeps it. After six ones the sender  *)
(* adds a 0 that the receiver takes out again.                             *)
(*                                                                         *)
(* A byte or a register is the set of the numbers of its bits that are 1.  *)
(***************************************************************************)
EXTENDS Integers, Sequences, FiniteSets

CONSTANTS
  Pids,        \* packet identifiers: a nibble and its complement
  Bytes,       \* values of data bytes
  MaxData,     \* data bytes of a packet
  BufSize,     \* USB_BUFSIZE
  History      \* values x2 may hold when the transmitter starts

ASSUME BitsAssumption ==
  /\ Pids \cup Bytes \cup History \subseteq SUBSET (0..7)
  /\ \A pid \in Pids, k \in 0..3 : k + 4 \in pid <=> k \notin pid
  /\ MaxData \in Nat /\ BufSize \in Nat

VARIABLES
  payload,     \* what usbCrc16Append is called for
  body,        \* pid, payload and CRC
  at,          \* "send", "receive", "done" or "overflow"
  line,        \* levels sent so far: "J", "K", "SE0"
  sent,        \* bits sent, without those that were added
  x2,          \* transmitter: the last bits
  shift, x3, last,   \* receiver: last bits, bits to invert, last level
  bit, sample, \* receiver: number of the bit, of the level
  cnt, stored  \* receiver: room for bytes, those stored

bitsVars == <<payload, body, at, line, sent, x2, shift, x3, last, bit, sample,
              cnt, stored>>

Toggle(level) == IF level = "J" THEN "K" ELSE "J"

Right(byte) == {k - 1 : k \in byte \ {0}}
Xor(a, b) == (a \ b) \cup (b \ a)

-----------------------------------------------------------------------------
(* usbCrc16: the remainder is kept inverted, so a one is shifted in and    *)
(* the polynomial applied when a zero falls out.                           *)

Poly == {0, 13, 15}  \* 0xa001

\* Mutant: the polynomial is applied when a one falls out.
CrcShiftPlain(crc) ==
  IF 0 \notin crc THEN {15} \cup Right(crc) ELSE Xor({15} \cup Right(crc), Poly)

CrcShift(crc) ==
  IF 0 \in crc THEN {15} \cup Right(crc) ELSE Xor({15} \cup Right(crc), Poly)

CrcByte(crc) ==
  LET bits[n \in 0..8] == IF n = 0 THEN crc ELSE CrcShift(bits[n - 1])
  IN  bits[8]

usbCrc16(bytes) ==
  LET crc[n \in 0..Len(bytes)] ==
        IF n = 0 THEN {} ELSE CrcByte(Xor(crc[n - 1], bytes[n]))
  IN  crc[Len(bytes)]

usbCrc16Append(bytes) ==
  LET crc == usbCrc16(bytes) IN
  bytes \o <<{k \in 0..7 : k \in crc}, {k \in 0..7 : k + 8 \in crc}>>

-----------------------------------------------------------------------------

BitsInit ==
  /\ payload \in UNION {[1..n -> Bytes] : n \in 0..MaxData}
  /\ \E pid \in Pids : body = <<pid>> \o usbCrc16Append(payload)
  /\ at = "send" /\ line = <<>> /\ sent = 0
  /\ x2 \in History
  /\ shift = {} /\ x3 = {4} /\ last = "K" /\ bit = 0 /\ sample = 1
  /\ cnt = BufSize /\ stored = <<>>

(* The line is idle, then the sync byte 0x80 is sent, seven zeros and a    *)
(* one: "need not init x2 (bitstuff history) because sync starts with 0".  *)
Outgoing == <<{7}>> \o body
Level == IF line = <<>> THEN "J" ELSE line[Len(line)]
NextBit == sent % 8 \in Outgoing[(sent \div 8) + 1]

\* Mutant: it takes seven ones in a row.
SixOnesSeven(history) == 1..7 \subseteq history

SixOnes(history) == 2..7 \subseteq history

(* x2 is looked at when a bit has been sent. *)
Stuffs == sent > 0 /\ SixOnes(x2)

ReceiverIdle == UNCHANGED <<shift, x3, last, bit, sample, cnt, stored>>

(* txBitLoop, for the bits 6 and 7 as for the others: the bit goes out and *)
(* into the history.                                                       *)
SendBit ==
  /\ at = "send" /\ ~Stuffs /\ sent < 8 * Len(Outgoing)
  /\ line' = Append(line, IF NextBit THEN Level ELSE Toggle(Level))
  /\ x2' = Right(x2) \cup (IF NextBit THEN {7} ELSE {})
  /\ sent' = sent + 1
  /\ UNCHANGED <<payload, body, at>> /\ ReceiverIdle

(* bitstuffN, bitstuff6, bitstuff7, also after the last bit of a packet.   *)
StuffBit ==
  /\ at = "send" /\ Stuffs
  /\ line' = Append(line, Toggle(Level))
  /\ x2' = {}
  /\ UNCHANGED <<payload, body, at, sent>> /\ ReceiverIdle

(* SE0 for two bits, then the line is idle. A packet of the host may end   *)
(* anywhere, when it gives up or a hub cuts it; that it ends just before a *)
(* stuffed bit that is due is left out.                                    *)
EndOfPacket ==
  /\ at = "send" /\ ~Stuffs /\ sent >= 8
  /\ line' = line \o <<"SE0", "SE0">>
  /\ at' = "receive"
  /\ UNCHANGED <<payload, body, sent, x2>> /\ ReceiverIdle

-----------------------------------------------------------------------------
(* The receiver. *)

TransmitterIdle == UNCHANGED <<payload, body, line, sent, x2>>

(* The receiver has found the two K that end the sync pattern. *)
LevelAt(n) == IF n + 8 <= Len(line) THEN line[n + 8] ELSE "J"
First == stored = <<>> /\ bit = 0

(* eor, subi, ror: a one is a level equal to the last one. The first bit   *)
(* of a packet is its level (bst, bld), the inverse of its value.          *)
Shifted ==
  Right(shift) \cup
    (IF LevelAt(sample) = (IF First THEN "J" ELSE last) THEN {7} ELSE {})

(* Six ones: the bit behind them is taken out, and the last of them is     *)
(* made a zero in the history, to be inverted again.                       *)
Unstuffs == SixOnes(Shifted)

(* SE0 is looked for at the odd bits, and at a bit taken out, up to bit 5. *)
SeesEnd ==
  \/ bit \in {1, 3, 5} /\ LevelAt(sample) = "SE0"
  \/ bit <= 5 /\ Unstuffs /\ LevelAt(sample + 1) = "SE0"

\* Mutant: the mark of an odd bit is moved as often as that of an even one.
MarkOfEven(k) == IF k = 7 THEN 7 ELSE 6

(* Where an inverted bit is marked in x3. "will be shifted right 6 times   *)
(* for bit 0", "will be shifted right 4 times for bit 1".                  *)
Mark(k) == CASE k \in {0, 2, 4, 6} -> 6 [] k \in {1, 3, 5} -> 5 [] OTHER -> 7

(* "topmost two bits reserved for 6 and 7", then lsr x3, lsr x3, in each   *)
(* turn of rxBitLoop. The first bit of a packet is taken before the loop.  *)
Marks ==
  LET set == IF Unstuffs THEN {Mark(bit)} ELSE {} IN
  IF bit \in {0, 2, 4} /\ ~First THEN Right(Right((x3 \ {6, 7}) \cup set))
  ELSE x3 \cup set

\* Mutant: there is room for one byte more.
NoRoomLate == cnt < 0

NoRoom == cnt = 0

(* rxBitLoop and rxByteLoop for one bit. At bit 7 the byte is stored.      *)
ReceiveBit ==
  /\ at = "receive" /\ ~SeesEnd /\ ~(bit = 6 /\ NoRoom)
  /\ shift' = IF Unstuffs THEN Shifted \ {7} ELSE Shifted
  /\ last' = LevelAt(IF Unstuffs THEN sample + 1 ELSE sample)
  /\ sample' = sample + (IF Unstuffs THEN 2 ELSE 1)
  /\ bit' = (bit + 1) % 8
  /\ cnt' = IF bit = 6 THEN cnt - 1 ELSE cnt
  /\ IF bit = 7
     THEN x3' = Xor(Marks, shift') /\ stored' = Append(stored, x3')
     ELSE x3' = Marks /\ UNCHANGED stored
  /\ UNCHANGED at /\ TransmitterIdle

Leave(how) ==
  /\ at = "receive" /\ at' = how
  /\ UNCHANGED <<shift, x3, last, bit, sample, cnt, stored>> /\ TransmitterIdle

se0 == SeesEnd /\ Leave("done")

overflow == ~SeesEnd /\ bit = 6 /\ NoRoom /\ Leave("overflow")

BitsNext == SendBit \/ StuffBit \/ EndOfPacket \/ ReceiveBit \/ se0 \/ overflow

BitsSpec == BitsInit /\ [][BitsNext]_bitsVars

-----------------------------------------------------------------------------
(* Properties. *)

(* A packet that arrives whole is received as it was sent. One that is cut *)
(* is received as far as it has whole bytes, or ends in overflow and is    *)
(* ignored: no byte is ever made up of a part of one.                      *)
RoundTrip ==
  /\ at = "done" => \E n \in 0..Len(body) : stored = SubSeq(body, 1, n)
  /\ at # "send" /\ sent = 8 * Len(Outgoing) /\ Len(body) <= BufSize
       => at # "overflow" /\ (at = "done" => stored = body)

(* Nothing is written behind the half of usbRxBuf a packet is received in. *)
InBuffer == Len(stored) <= BufSize

(* The line toggles at least every seventh bit, for the host to keep in    *)
(* step.                                                                   *)
Toggles ==
  LET levels == <<"J">> \o line IN
  \A i \in 1..(Len(levels) - 7) : \E j \in 1..7 : levels[i + j] # levels[i]

(* usbCrc16 returns what the faster version of it, whose pseudo code is in *)
(* usbdrvasm.S, would: that one goes byte by byte with the parity.         *)
Table(x) ==
  Xor(Xor({k + 6 : k \in x}, {k + 7 : k \in x}),
      IF Cardinality(x) % 2 = 1 THEN {0, 14, 15} ELSE {})

Fast(bytes) ==
  LET crc[n \in 0..Len(bytes)] ==
        IF n = 0 THEN 0..15
        ELSE Xor(Table(Xor({k \in crc[n - 1] : k < 8}, bytes[n])),
                 {k - 8 : k \in {l \in crc[n - 1] : l >= 8}})
  IN  (0..15) \ crc[Len(bytes)]

CrcAgrees == usbCrc16(payload) = Fast(payload)
=============================================================================
