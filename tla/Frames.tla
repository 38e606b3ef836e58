-------------------------------- MODULE Frames --------------------------------
(***************************************************************************)
(* The frames of the communication layer on a line that flips bits, with   *)
(* other bytes behind the frame in the receiver's buffer.  A byte and a    *)
(* word are the set of their bits that are 1, bit 0 the lowest.            *)
(***************************************************************************)
EXTENDS Integers, SequencesExt

CONSTANTS
  FramePayloads,    \* payloads: sequences of bytes
  FrameTypes,       \* types: bytes
  FrameMaxPayload,  \* ZHIO_FRAME_MAX_PAYLOAD
  FrameFlips        \* bound of a run: bits the line flips

ASSUME FramesAssumption ==
  /\ FramePayloads \subseteq Seq(SUBSET (0..7))
  /\ FrameTypes \subseteq SUBSET (0..7)
  /\ FrameMaxPayload \in Nat /\ FrameMaxPayload + 9 < 2^16 /\ FrameFlips \in Nat

VARIABLE link  \* the frame on its way: what was sent, the bytes, and what was decoded

Bits(n, width) == {i \in 0..(width - 1) : (n \div 2^i) % 2 = 1}
Value(byte) == CHOOSE n \in 0..255 : Bits(n, 8) = byte

SOF == Bits(170, 8)
EOF == Bits(85, 8)

(* As Poly, a polynomial that only rotates the word.                       *)
PolyRotates == {31}

(* The polynomial EDB88320, reflected.                                     *)
Poly == {5, 8, 9, 15, 19, 20, 21, 23, 24, 26, 27, 29, 30, 31}

(* comm_crc32, a byte at a time and a bit of it at a time.                 *)
CrcBit(crc) ==
  LET shifted == {i - 1 : i \in crc \ {0}}
  IN  IF 0 \in crc THEN SymDiff(shifted, Poly) ELSE shifted

CrcByte(crc, byte) ==
  LET after[bits \in 0..8] == IF bits = 0 THEN SymDiff(crc, byte) ELSE CrcBit(after[bits - 1])
  IN  after[8]

(* As Crc32, a parity of the bytes.                                        *)
Crc32Parity(bytes) == FoldLeft(SymDiff, {}, bytes)

Crc32(bytes) ==
  LET after[n \in 0..Len(bytes)] == IF n = 0 THEN 0..31 ELSE CrcByte(after[n - 1], bytes[n])
  IN  (0..31) \ after[Len(bytes)]

(* The little-endian bytes of a word.                                      *)
Bytes(word, n) == [k \in 1..n |-> {i \in 0..7 : i + 8 * (k - 1) \in word}]

Encode(type, payload) ==
  LET checked == Bytes(Bits(Len(payload), 16), 2) \o <<type>> \o payload
  IN  <<SOF>> \o checked \o Bytes(Crc32(checked), 4) \o <<EOF>>

NoFrame == [rc |-> "INVAL", type |-> {}, payload |-> <<>>]

(* comm_frame_decode: the frame is at the front of the buffer, whatever    *)
(* comes behind it.                                                        *)
Decode(buf) ==
  LET length == Value(buf[2]) + 256 * Value(buf[3])
      total  == length + 9
  IN  IF Len(buf) < 8 \/ buf[1] # SOF THEN NoFrame
      ELSE IF length > FrameMaxPayload \/ Len(buf) < total \/ buf[total] # EOF THEN NoFrame
      ELSE [rc      |-> IF Bytes(Crc32(SubSeq(buf, 2, 4 + length)), 4)
                             = SubSeq(buf, 5 + length, 8 + length)
                          THEN "OK" ELSE "UNKNOWN",
            type    |-> buf[4],
            payload |-> SubSeq(buf, 5, 4 + length)]

-----------------------------------------------------------------------------
FramesStart ==
  link = [pc |-> "idle", type |-> {}, payload |-> <<>>, wire |-> <<>>, flips |-> {}, got |-> NoFrame]

FrameSend(type, payload) ==
  /\ link.pc = "idle"
  /\ Len(payload) <= FrameMaxPayload
  /\ link' = [link EXCEPT !.pc = "line", !.type = type, !.payload = payload,
                          !.wire = Encode(type, payload)]

LineFlips(i, bit) ==
  /\ link.pc = "line"
  /\ Cardinality(link.flips) < FrameFlips
  /\ link' = [link EXCEPT !.wire[i] = SymDiff(@, {bit}), !.flips = @ \cup {<<i, bit>>}]

(* The buffer holds the frame, its first bytes, or more than the frame.    *)
FrameReceive(buf) ==
  /\ link.pc = "line"
  /\ link' = [link EXCEPT !.pc = "done", !.wire = buf, !.got = Decode(buf)]

FramesNext ==
  \/ \E type \in FrameTypes, payload \in FramePayloads : FrameSend(type, payload)
  \/ \E i \in DOMAIN link.wire, bit \in 0..7 : <<i, bit>> \notin link.flips /\ LineFlips(i, bit)
  \/ FrameReceive(link.wire)
  \/ FrameReceive(Front(link.wire))
  \/ FrameReceive(link.wire \o <<EOF, SOF, EOF, EOF>>)

FramesSpec == FramesStart /\ [][FramesNext]_link

-----------------------------------------------------------------------------
Accepted == link.pc = "done" /\ link.got.rc = "OK"
AsSent == link.got.type = link.type /\ link.got.payload = link.payload

(* The bytes of the length arrive as they were sent: behind a damaged one  *)
(* the decoder looks for another frame.                                    *)
LengthIntact == \A f \in link.flips : f[1] \notin {2, 3}

(* All damage is within four neighbouring bytes.                           *)
OneBurst == \A f, g \in link.flips : f[1] - g[1] \in -3..3

(* A frame that arrives whole and undamaged is accepted, whatever comes    *)
(* behind it; and what is accepted is what was sent, wherever the buffer   *)
(* ends and however many bits were flipped in one burst behind or before   *)
(* the length: in the type, the payload, the checksum or across them       *)
(* (comm_frame_encode, comm_frame_decode, comm_crc32).                     *)
FramesSurvive ==
  /\ link.pc = "done" /\ link.flips = {} /\ Len(link.wire) >= Len(link.payload) + 9 => Accepted
  /\ Accepted /\ LengthIntact /\ OneBurst => AsSent

(* The same of bits flipped far apart, as many as the run flips            *)
(* (comm_crc32).                                                           *)
ScatteredFlipsSeen == Accepted /\ LengthIntact => AsSent
=============================================================================
