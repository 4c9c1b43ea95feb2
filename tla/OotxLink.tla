------------------------------ MODULE OotxLink ------------------------------
(***************************************************************************)
(* A lighthouse that repeats one packet, the link to a device, and the     *)
(* decoder.  The link may lose a bit, repeat one, flip one, or hand over   *)
(* Unknown for a rotation that was skipped (survive_default_sync_process), *)
(* MaxFaults times in all.  The packet is any that fits in the decoder's   *)
(* buffer and has the CRC that is sent with it.                            *)
(***************************************************************************)
EXTENDS OotxDecoder

CONSTANTS
  SentPayload,  \* the bytes of the packet
  SentCrc,      \* its CRC
  MaxFrames,    \* how often it is sent
  MaxFaults     \* bound on the faults of the link

SentLength == Len(SentPayload)
Padding    == SentLength % 2

ASSUME LinkAssumption ==
  /\ SentPayload \in Seq(Byte) /\ SentCrc \in Seq(Byte) /\ Len(SentCrc) = 4
  /\ SentLength + Padding < 2^WordBits      \* its length fits in a word
  /\ SentLength + Padding + 6 < BufBytes    \* and the packet in the buffer
  /\ CrcMatches(SentPayload, SentCrc)
  /\ MaxFrames \in Nat /\ MaxFaults \in Nat

VARIABLES
  pos,          \* the bit of the frame to send next
  frame,        \* how many frames were sent before this one
  faults,       \* faults so far
  disturbed,    \* this frame had a bit lost, repeated or flipped
  unknown,      \* the bits of this frame handed over as Unknown
  lastClean,    \* the previous frame had no fault at all
  got           \* packets handed over since the end of the last preamble sent

linkVars == <<pos, frame, faults, disturbed, unknown, lastClean, got>>
allVars  == <<decoderVars, linkVars>>

ByteOf(v) == [i \in BitPos |-> (v \div 2^(ByteBits - 1 - i)) % 2]

SentBytes ==
  <<ByteOf(SentLength % 2^ByteBits), ByteOf(SentLength \div 2^ByteBits)>>
    \o SentPayload \o [k \in 1 .. Padding |-> ZeroByte] \o SentCrc

PreambleLen == Zeros + 1
FrameLen    == PreambleLen + (Len(SentBytes) \div 2) * (WordBits + 1)

FrameBit(k) ==
  LET j    == k - PreambleLen - 1
      word == j \div (WordBits + 1)
      i    == j % (WordBits + 1)
  IN  IF k < PreambleLen THEN 0
      ELSE IF k = PreambleLen \/ i = WordBits THEN 1
      ELSE SentBytes[2 * word + (i \div ByteBits) + 1][i % ByteBits]

LinkInit ==
  /\ Init
  /\ pos = 1 /\ frame = 0 /\ faults = 0
  /\ disturbed = FALSE /\ unknown = {} /\ lastClean = FALSE /\ got = 0

Count(p) == IF p = NoPacket THEN 0 ELSE 1

\* The next bit of the frame, or of the next frame.
Advance(nowDisturbed, nowUnknown) ==
  IF pos = FrameLen
    THEN /\ pos' = 1 /\ frame' = frame + 1
         /\ disturbed' = FALSE /\ unknown' = {} /\ got' = got + Count(packet')
         /\ lastClean' = (~nowDisturbed /\ nowUnknown = {})
    ELSE /\ pos' = pos + 1
         /\ disturbed' = nowDisturbed /\ unknown' = nowUnknown
         /\ got' = IF pos = PreambleLen THEN 0 ELSE got + Count(packet')
         /\ UNCHANGED <<frame, lastClean>>

Sending == frame < MaxFrames
MayFail == Sending /\ faults < MaxFaults

Send ==
  /\ Sending
  /\ Pump(FrameBit(pos))
  /\ Advance(disturbed, unknown)
  /\ UNCHANGED faults

\* A skipped rotation: survive_default_sync_process pumps -1 for it.
Skip ==
  /\ MayFail
  /\ Pump(Unknown)
  /\ Advance(disturbed, unknown \cup {pos})
  /\ faults' = faults + 1

Flip ==
  /\ MayFail
  /\ Pump(1 - FrameBit(pos))
  /\ Advance(TRUE, unknown)
  /\ faults' = faults + 1

Lose ==
  /\ MayFail
  /\ packet' = NoPacket
  /\ Advance(TRUE, unknown)
  /\ faults' = faults + 1
  /\ UNCHANGED <<zeros, bitsProcessed, found, buf, bufOffset, bitsWritten>>

Repeat ==
  /\ MayFail
  /\ Pump(FrameBit(pos))
  /\ disturbed' = TRUE /\ got' = got + Count(packet')
  /\ faults' = faults + 1
  /\ UNCHANGED <<pos, frame, unknown, lastClean>>

LinkNext == Send \/ Skip \/ Flip \/ Lose \/ Repeat

LinkSpec == LinkInit /\ [][LinkNext]_allVars
-----------------------------------------------------------------------------
(* Properties.                                                             *)

\* All but the last sync bit of the frame has been sent.
FrameRead == pos = FrameLen

\* The packet was handed over once, just now, and is the one that was sent.
Delivered == got = 1 /\ packet = <<SentPayload>>

\* The decoder finds its way back: whatever the link did to earlier frames, a
\* frame that arrives intact is handed over when its last bit is read ("data
\* stream can start over at any time", "once we have a complete ootx packet,
\* send it out in the callback", ootx_pump_bit).
CleanFrameDelivered ==
  FrameRead /\ ~disturbed /\ unknown = {} => Delivered

\* A frame is handed over at most once, and when no bit was lost, repeated or
\* flipped in it, only when its last data bit has been read.
DeliveredOnce ==
  /\ got <= 1
  /\ packet # NoPacket /\ ~disturbed /\ pos > PreambleLen => FrameRead

\* The bits no guess can stand for: the zero right before the end of the
\* preamble, and the ones of the length, which is cleared for each frame.
Essential ==
  {PreambleLen - 1} \cup
  {k \in PreambleLen + 1 .. PreambleLen + WordBits : FrameBit(k) = 1}

\* "Purposefully leave the value as is" (ootx_write_to_buffer): after a clean
\* frame, skipped rotations do not cost the next one, since an unknown bit
\* keeps the value the same place had before.
SkipsFilledIn ==
  FrameRead /\ ~disturbed /\ lastClean /\ unknown \cap Essential = {} => Delivered

=============================================================================
