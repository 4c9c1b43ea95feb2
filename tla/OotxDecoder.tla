---------------------------- MODULE OotxDecoder ----------------------------
(***************************************************************************)
(* ootx_pump_bit (ootx_decoder.c): the decoder of the data a lighthouse    *)
(* sends one bit per rotation.  A frame is a preamble of zeros and a one,  *)
(* then words of two bytes, each followed by a sync bit: the payload's     *)
(* length, the payload padded to whole words, and a CRC of four bytes.     *)
(* A bit is 0, 1 or Unknown, the code's -1 for a rotation nobody saw.      *)
(*                                                                         *)
(* Here the decoder is fed any sequence of bits; OotxLink feeds it frames. *)
(* Bytes have ByteBits bits and the buffer BufBytes bytes: 8 and 64 in the *)
(* code.  The statistics and the log callbacks are left out.               *)
(***************************************************************************)
EXTENDS Integers, Sequences

CONSTANTS
  ByteBits,          \* bits of a byte; a word is two bytes
  BufBytes,          \* OOTX_MAX_BUFF_SIZE
  IgnoreSyncErrors,  \* ignore_sync_bit_error
  CrcMatches(_, _)   \* whether a payload has the CRC found behind it

ASSUME DecoderAssumption ==
  /\ ByteBits \in Nat /\ ByteBits >= 1
  /\ BufBytes \in Nat /\ BufBytes >= 8
  /\ IgnoreSyncErrors \in BOOLEAN

WordBits == 2 * ByteBits
Zeros    == WordBits + 1     \* of the preamble
Unknown  == -1
Bit      == {0, 1}
BitPos   == 0 .. ByteBits - 1
Byte     == [BitPos -> Bit]  \* its bits, the highest first
ZeroByte == [i \in BitPos |-> 0]
Offsets  == 0 .. BufBytes - 1

VARIABLES
  zeros,          \* how many zeros end the preamble register, up to Zeros
  bitsProcessed,  \* bits since the last sync slot or preamble
  found,          \* found_preamble
  buf,            \* buffer
  bufOffset,      \* buf_offset: the byte being written
  bitsWritten,    \* bits_written: of that byte
  packet          \* the packet handed to the callback in the last step

decoderVars == <<zeros, bitsProcessed, found, buf, bufOffset, bitsWritten, packet>>

NoPacket == <<>>

Init ==
  /\ zeros = 0 /\ bitsProcessed = 0 /\ found = FALSE
  /\ buf = [o \in Offsets |-> ZeroByte]
  /\ bufOffset = 0 /\ bitsWritten = 0
  /\ packet = NoPacket
-----------------------------------------------------------------------------
\* ootx_detect_preamble's guess for an unknown bit.  The register has been
\* shifted when its 17 low bits are tested, so 16 zeros are enough for a one.
Guess(d) ==
  IF d # Unknown THEN d
  ELSE IF found THEN 1
  ELSE IF zeros >= Zeros - 1 THEN 1 ELSE 0

EndsPreamble(d) == Guess(d) = 1 /\ zeros = Zeros

ShiftRegister(d) ==
  zeros' = IF Guess(d) = 1 THEN 0 ELSE IF zeros = Zeros THEN Zeros ELSE zeros + 1

\* *(ctx->payload_size) = 0
LengthCleared(b) == [b EXCEPT ![0] = ZeroByte, ![1] = ZeroByte]

\* Mutant of ResetBuffer: the position in the buffer is kept.
ResetBufferKeepsOffset(b) ==
  /\ bufOffset' = bufOffset /\ bitsWritten' = 0
  /\ buf' = LengthCleared(b)

\* ootx_reset_buffer, up to found_preamble.
ResetBuffer(b) ==
  /\ bufOffset' = 0 /\ bitsWritten' = 0
  /\ buf' = LengthCleared(b)

\* Mutant of Preamble: the count of bits goes on across the preamble.
PreambleKeepsCount(d) ==
  /\ EndsPreamble(d)
  /\ ShiftRegister(d)
  /\ ResetBuffer(buf)
  /\ found' = TRUE
  /\ bitsProcessed' = IF bitsProcessed >= WordBits THEN 0 ELSE bitsProcessed + 1
  /\ packet' = NoPacket

\* The stream can start over at any time.
Preamble(d) ==
  /\ EndsPreamble(d)
  /\ ShiftRegister(d)
  /\ ResetBuffer(buf)
  /\ found' = TRUE /\ bitsProcessed' = 0
  /\ packet' = NoPacket

SyncSlot == bitsProcessed + 1 > WordBits

\* Every 17th bit is dropped; a zero there ends the frame.
SyncBit(d) ==
  /\ ~EndsPreamble(d) /\ SyncSlot
  /\ ShiftRegister(d)
  /\ bitsProcessed' = 0
  /\ packet' = NoPacket
  /\ IF d = 0 /\ ~IgnoreSyncErrors
       THEN ResetBuffer(buf) /\ found' = FALSE
       ELSE UNCHANGED <<buf, bufOffset, bitsWritten, found>>

\* A data bit before any preamble.
SkippedBit(d) ==
  /\ ~EndsPreamble(d) /\ ~SyncSlot /\ ~found
  /\ ShiftRegister(d)
  /\ bitsProcessed' = bitsProcessed + 1
  /\ packet' = NoPacket
  /\ UNCHANGED <<buf, bufOffset, bitsWritten, found>>
-----------------------------------------------------------------------------
\* Mutant of Written: an unknown bit is written as a zero.
WrittenZero(d) ==
  [buf EXCEPT ![bufOffset][bitsWritten] = IF d = Unknown THEN 0 ELSE d]

\* ootx_write_to_buffer: an unknown bit leaves the old value.
Written(d) ==
  IF d = Unknown THEN buf ELSE [buf EXCEPT ![bufOffset][bitsWritten] = d]

ByteDone == bitsWritten + 1 > ByteBits - 1

\* ootx_inc_buffer_offset: the buffer wraps when its last byte is written.
OffsetAfter == IF ~ByteDone THEN bufOffset
               ELSE IF bufOffset + 1 >= BufBytes THEN 0 ELSE bufOffset + 1

Wraps == ByteDone /\ bufOffset + 1 >= BufBytes

ByteValue(b) ==
  LET v[k \in 0 .. ByteBits] == IF k = 0 THEN 0 ELSE 2 * v[k - 1] + b[k - 1]
  IN  v[ByteBits]

\* payload_size is little endian; the padded length keeps its 16 bits.
Length(b) == ByteValue(b[0]) + (2^ByteBits) * ByteValue(b[1])
Padded(b) == (Length(b) + (Length(b) % 2)) % (2^WordBits)

Complete(b) == OffsetAfter >= Padded(b) + 6

\* A length of all ones is padded to zero, and the payload then reaches beyond
\* the buffer: what the code reads there is no part of any frame.
Outside    == [i \in BitPos |-> Unknown]
Payload(b) == [i \in 1 .. Length(b) |-> IF i + 1 < BufBytes THEN b[i + 1] ELSE Outside]
Crc(b)     == [i \in 1 .. 4 |-> b[Padded(b) + i + 1]]

\* Mutant of LastBit: the buffer is not reset after the packet.
LastBitNoReset(d) ==
  /\ ~EndsPreamble(d) /\ ~SyncSlot /\ found
  /\ Complete(Written(d))
  /\ ShiftRegister(d)
  /\ bitsProcessed' = bitsProcessed + 1
  /\ buf' = Written(d) /\ bufOffset' = OffsetAfter
  /\ bitsWritten' = IF ByteDone THEN 0 ELSE bitsWritten + 1
  /\ found' = (found /\ ~Wraps)
  /\ packet' = IF CrcMatches(Payload(Written(d)), Crc(Written(d)))
                 THEN <<Payload(Written(d))>> ELSE NoPacket

\* A data bit that does not complete the packet.
DataBit(d) ==
  /\ ~EndsPreamble(d) /\ ~SyncSlot /\ found
  /\ ~Complete(Written(d))
  /\ ShiftRegister(d)
  /\ bitsProcessed' = bitsProcessed + 1
  /\ buf' = Written(d) /\ bufOffset' = OffsetAfter
  /\ bitsWritten' = IF ByteDone THEN 0 ELSE bitsWritten + 1
  /\ found' = ~Wraps
  /\ packet' = NoPacket

\* The bit that completes it: checked, handed over, and the buffer reset.
LastBit(d) ==
  /\ ~EndsPreamble(d) /\ ~SyncSlot /\ found
  /\ Complete(Written(d))
  /\ ShiftRegister(d)
  /\ bitsProcessed' = bitsProcessed + 1
  /\ ResetBuffer(Written(d)) /\ found' = FALSE
  /\ packet' = IF CrcMatches(Payload(Written(d)), Crc(Written(d)))
                 THEN <<Payload(Written(d))>> ELSE NoPacket

\* ootx_pump_bit
Pump(d) == Preamble(d) \/ SyncBit(d) \/ SkippedBit(d) \/ DataBit(d) \/ LastBit(d)

Next == \E d \in Bit \cup {Unknown} : Pump(d)

Spec == Init /\ [][Next]_decoderVars
-----------------------------------------------------------------------------
(* Properties.                                                             *)

\* Every variable has its type: the byte being written is one of the buffer's.
TypeOK ==
  /\ zeros \in 0 .. Zeros
  /\ bitsProcessed \in 0 .. WordBits
  /\ found \in BOOLEAN
  /\ buf \in [Offsets -> Byte]
  /\ bufOffset \in Offsets /\ bitsWritten \in BitPos

\* Where the next data bit goes, counted in its word.
PlaceInWord == bitsWritten + (IF bufOffset % 2 = 1 THEN ByteBits ELSE 0)

\* While a frame is read, the count of bits that finds the sync slots and the
\* place in the buffer agree, for any bits at all: no sync bit is ever written
\* to the buffer and no data bit dropped as one (ootx_pump_bit keeps the two
\* counts apart, and resets them in different places).
WordsAligned ==
  found => \/ bitsProcessed = PlaceInWord
           \/ bitsProcessed = WordBits /\ PlaceInWord = 0 /\ bufOffset > 0

\* Nothing of an abandoned frame is left where the next one begins: without a
\* preamble there is no place in the buffer but its start, so the length that
\* says when a packet is complete is always read from the current frame.
IdleAtStart == ~found => bufOffset = 0 /\ bitsWritten = 0
=============================================================================
