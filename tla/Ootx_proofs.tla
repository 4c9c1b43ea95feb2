---------------------------- MODULE Ootx_proofs ----------------------------
(***************************************************************************)
(* Proofs about OotxDecoder, for every size of bytes and buffer, every     *)
(* CRC, and any sequence of bits; and about OotxLink, for every packet     *)
(* that fits and any number of frames and faults.                          *)
(***************************************************************************)
EXTENDS OotxLink, FiniteSetTheorems, FunctionTheorems, SequenceTheorems, WellFoundedInduction, TLAPS

\* The inductive invariant: where the decoder is in its word depends on its
\* being at the start of the buffer whenever it has no preamble.
IInv == TypeOK /\ WordsAligned /\ IdleAtStart

\* The sizes, as plain numbers.
LEMMA Sizes ==
  /\ ByteBits \in Nat /\ ByteBits >= 1 /\ BufBytes \in Nat /\ BufBytes >= 8
  /\ WordBits \in Nat /\ WordBits = 2 * ByteBits /\ WordBits >= 2
  /\ Zeros \in Nat /\ Zeros = WordBits + 1
BY DecoderAssumption DEF WordBits, Zeros

\* The buffer stays a buffer when its length is cleared or a bit written.
LEMMA BufferTyped ==
  ASSUME NEW b \in [Offsets -> Byte]
  PROVE  LengthCleared(b) \in [Offsets -> Byte]
<1>1. ZeroByte \in Byte
  BY DEF ZeroByte, Byte, Bit
<1> QED BY <1>1 DEF LengthCleared

\* A bit written into the buffer leaves bytes.
LEMMA WrittenTyped ==
  ASSUME TypeOK, NEW d \in Bit \cup {Unknown}
  PROVE  Written(d) \in [Offsets -> Byte]
<1>1. CASE d = Unknown
  BY <1>1 DEF Written, TypeOK
<1>2. CASE d # Unknown
  <2>1. d \in Bit
    BY <1>2
  <2>2. [buf[bufOffset] EXCEPT ![bitsWritten] = d] \in Byte
    BY <2>1 DEF TypeOK, Byte
  <2>3. [buf EXCEPT ![bufOffset] = [buf[bufOffset] EXCEPT ![bitsWritten] = d]]
          \in [Offsets -> Byte]
    BY <2>2 DEF TypeOK
  <2> QED BY <1>2, <2>3 DEF Written
<1> QED BY <1>1, <1>2

\* The preamble register stays in its range.
LEMMA RegisterTyped ==
  ASSUME TypeOK, NEW d \in Bit \cup {Unknown}, ShiftRegister(d)
  PROVE  zeros' \in 0 .. Zeros
BY Sizes DEF TypeOK, ShiftRegister

\* Where a bit written leaves the decoder.
LEMMA NextPlace ==
  ASSUME TypeOK, bitsWritten' = IF ByteDone THEN 0 ELSE bitsWritten + 1
  PROVE  /\ OffsetAfter \in Offsets /\ bitsWritten' \in BitPos
         /\ Wraps => OffsetAfter = 0 /\ bitsWritten' = 0
         /\ ~Wraps /\ ByteDone => OffsetAfter = bufOffset + 1 /\ bitsWritten' = 0
                                    /\ bitsWritten = ByteBits - 1
         /\ ~ByteDone => OffsetAfter = bufOffset /\ bitsWritten' = bitsWritten + 1
BY Sizes DEF TypeOK, OffsetAfter, Wraps, ByteDone, Offsets, BitPos

\* The parity of a byte's number changes from one byte to the next.
LEMMA ParityFlips ==
  ASSUME NEW n \in Nat
  PROVE  /\ n % 2 \in {0, 1}
         /\ n % 2 = 1 <=> (n + 1) % 2 = 0
OBVIOUS

\* No bit breaks the invariant.
LEMMA PumpKeeps ==
  ASSUME IInv, NEW d \in Bit \cup {Unknown}, Pump(d)
  PROVE  IInv'
<1>a. TypeOK /\ WordsAligned /\ IdleAtStart
  BY DEF IInv
<1>b. 0 \in Offsets /\ 0 \in BitPos /\ 0 \in 0 .. WordBits
  BY Sizes DEF Offsets, BitPos
<1>c. /\ bufOffset \in Nat /\ bitsWritten \in Nat /\ bitsProcessed \in Nat
      /\ bitsProcessed <= WordBits /\ bitsWritten < ByteBits
  BY <1>a, Sizes DEF TypeOK, Offsets, BitPos
<1>1. CASE Preamble(d)
  <2>1. /\ bufOffset' = 0 /\ bitsWritten' = 0 /\ buf' = LengthCleared(buf)
        /\ found' = TRUE /\ bitsProcessed' = 0 /\ ShiftRegister(d)
    BY <1>1 DEF Preamble, ResetBuffer
  <2>2. TypeOK'
    BY <1>a, <1>b, <2>1, BufferTyped, RegisterTyped DEF TypeOK
  <2>3. WordsAligned' /\ IdleAtStart'
    BY <2>1 DEF WordsAligned, PlaceInWord, IdleAtStart
  <2> QED BY <2>2, <2>3 DEF IInv
<1>2. CASE SyncBit(d)
  <2>1. /\ bitsProcessed' = 0 /\ ShiftRegister(d) /\ bitsProcessed = WordBits
    BY <1>2, <1>c, Sizes DEF SyncBit, SyncSlot
  <2>2. CASE d = 0 /\ ~IgnoreSyncErrors
    <3>1. /\ bufOffset' = 0 /\ bitsWritten' = 0 /\ buf' = LengthCleared(buf)
          /\ found' = FALSE
      BY <1>2, <2>2 DEF SyncBit, ResetBuffer
    <3>2. TypeOK'
      BY <1>a, <1>b, <2>1, <3>1, BufferTyped, RegisterTyped DEF TypeOK
    <3> QED BY <3>1, <3>2 DEF IInv, WordsAligned, IdleAtStart
  <2>3. CASE ~(d = 0 /\ ~IgnoreSyncErrors)
    <3>1. UNCHANGED <<buf, bufOffset, bitsWritten, found>>
      BY <1>2, <2>3 DEF SyncBit
    <3>2. TypeOK'
      BY <1>a, <1>b, <2>1, <3>1, RegisterTyped DEF TypeOK
    <3>3. found => PlaceInWord = 0
      BY <1>a, <1>c, <2>1, Sizes DEF WordsAligned, PlaceInWord
    <3>4. WordsAligned' /\ IdleAtStart'
      BY <1>a, <2>1, <3>1, <3>3 DEF WordsAligned, PlaceInWord, IdleAtStart
    <3> QED BY <3>2, <3>4 DEF IInv
  <2> QED BY <2>2, <2>3
<1>3. CASE SkippedBit(d)
  <2>1. /\ bitsProcessed' = bitsProcessed + 1 /\ ShiftRegister(d) /\ ~found
        /\ UNCHANGED <<buf, bufOffset, bitsWritten, found>>
        /\ bitsProcessed' \in 0 .. WordBits
    BY <1>3, <1>c, Sizes DEF SkippedBit, SyncSlot
  <2>2. TypeOK'
    BY <1>a, <2>1, RegisterTyped DEF TypeOK
  <2> QED BY <1>a, <2>1, <2>2 DEF IInv, WordsAligned, IdleAtStart
<1>4. CASE DataBit(d)
  <2>1. /\ bitsProcessed' = bitsProcessed + 1 /\ ShiftRegister(d) /\ found
        /\ buf' = Written(d) /\ bufOffset' = OffsetAfter
        /\ bitsWritten' = IF ByteDone THEN 0 ELSE bitsWritten + 1
        /\ found' = ~Wraps
        /\ bitsProcessed' \in 0 .. WordBits /\ bitsProcessed < WordBits
    BY <1>4, <1>c, Sizes DEF DataBit, SyncSlot
  <2>2. TypeOK'
    BY <1>a, <2>1, WrittenTyped, NextPlace, RegisterTyped DEF TypeOK
  <2>3. IdleAtStart'
    BY <1>a, <2>1, NextPlace DEF IdleAtStart
  <2>4. bitsProcessed = PlaceInWord
    BY <1>a, <1>c, <2>1, Sizes DEF WordsAligned
  <2>5. WordsAligned'
    <3>1. CASE Wraps
      BY <2>1, <3>1 DEF WordsAligned
    <3>2. CASE ~Wraps /\ ByteDone
      <4>1. /\ bufOffset' = bufOffset + 1 /\ bitsWritten' = 0
            /\ bitsWritten = ByteBits - 1
        BY <1>a, <2>1, <3>2, NextPlace
      <4>2. CASE bufOffset % 2 = 1
        <5>1. bufOffset' % 2 = 0
          BY <1>c, <4>1, <4>2, ParityFlips
        <5>2. PlaceInWord' = 0
          BY <4>1, <5>1 DEF PlaceInWord
        <5>3. bitsProcessed' = WordBits /\ bufOffset' > 0
          BY <1>c, <2>1, <2>4, <4>1, <4>2, Sizes DEF PlaceInWord
        <5> QED BY <5>2, <5>3 DEF WordsAligned, WordBits
      <4>3. CASE bufOffset % 2 # 1
        <5>1. bufOffset' % 2 = 1
          BY <1>c, <4>1, <4>3, ParityFlips
        <5>2. PlaceInWord' = ByteBits
          BY <4>1, <5>1, Sizes DEF PlaceInWord
        <5>3. bitsProcessed' = ByteBits
          BY <1>c, <2>1, <2>4, <4>1, <4>3, Sizes DEF PlaceInWord
        <5> QED BY <5>2, <5>3 DEF WordsAligned
      <4> QED BY <4>2, <4>3
    <3>3. CASE ~ByteDone
      <4>1. bufOffset' = bufOffset /\ bitsWritten' = bitsWritten + 1
        BY <1>a, <2>1, <3>3, NextPlace
      <4>2. PlaceInWord' = PlaceInWord + 1
        BY <1>c, <4>1, Sizes DEF PlaceInWord
      <4> QED BY <2>1, <2>4, <4>2 DEF WordsAligned
    <3>4. Wraps \/ (~Wraps /\ ByteDone) \/ ~ByteDone
      OBVIOUS
    <3> QED BY <3>1, <3>2, <3>3, <3>4
  <2> QED BY <2>2, <2>3, <2>5 DEF IInv
<1>5. CASE LastBit(d)
  <2>1. /\ bitsProcessed' = bitsProcessed + 1 /\ ShiftRegister(d) /\ found' = FALSE
        /\ bufOffset' = 0 /\ bitsWritten' = 0 /\ buf' = LengthCleared(Written(d))
        /\ bitsProcessed' \in 0 .. WordBits
    BY <1>5, <1>c, Sizes DEF LastBit, SyncSlot, ResetBuffer
  <2>2. TypeOK'
    BY <1>a, <1>b, <2>1, WrittenTyped, BufferTyped, RegisterTyped DEF TypeOK
  <2> QED BY <2>1, <2>2 DEF IInv, WordsAligned, IdleAtStart
<1> QED BY <1>1, <1>2, <1>3, <1>4, <1>5 DEF Pump

\* The decoder starts at the start of its buffer, without a preamble.
LEMMA InitIInv == Init => IInv
<1> SUFFICES ASSUME Init PROVE IInv
  OBVIOUS
<1>1. ZeroByte \in Byte /\ 0 \in Offsets /\ 0 \in BitPos /\ 0 \in 0 .. WordBits
      /\ 0 \in 0 .. Zeros
  BY Sizes DEF ZeroByte, Byte, Bit, Offsets, BitPos
<1>2. TypeOK
  BY <1>1 DEF Init, TypeOK
<1> QED BY <1>2 DEF Init, IInv, WordsAligned, IdleAtStart

\* The invariant, for any bits.
LEMMA StepIInv == IInv /\ [Next]_decoderVars => IInv'
<1> SUFFICES ASSUME IInv, [Next]_decoderVars PROVE IInv'
  OBVIOUS
<1>1. CASE Next
  BY <1>1, PumpKeeps DEF Next
<1>2. CASE UNCHANGED decoderVars
  BY <1>2 DEF decoderVars, IInv, TypeOK, WordsAligned, PlaceInWord, IdleAtStart
<1> QED BY <1>1, <1>2

\* Types: ootx_pump_bit writes inside its buffer whatever it is fed.
THEOREM DecoderTyped == Spec => []TypeOK
<1>1. IInv => TypeOK
  BY DEF IInv
<1> QED BY <1>1, InitIInv, StepIInv, PTL DEF Spec

\* Sync bits and data bits are never taken for one another.
THEOREM AlignedAlways == Spec => []WordsAligned
<1>1. IInv => WordsAligned
  BY DEF IInv
<1> QED BY <1>1, InitIInv, StepIInv, PTL DEF Spec

\* A frame is always read from the start of the buffer.
THEOREM FramesStartAtZero == Spec => []IdleAtStart
<1>1. IInv => IdleAtStart
  BY DEF IInv
<1> QED BY <1>1, InitIInv, StepIInv, PTL DEF Spec
-----------------------------------------------------------------------------
(* Numbers.                                                                *)

\* Every set of numbers that is not empty has a least one.
LEMMA LeastNumber ==
  ASSUME NEW S \in SUBSET Nat, S # {}
  PROVE  \E n \in S : \A m \in S : n <= m
<1>1. PICK n \in S : \A m \in S : ~(<<m, n>> \in OpToRel(<, Nat))
  BY NatLessThanWellFounded, WFMin
<1>2. \A m \in S : <<m, n>> \in OpToRel(<, Nat) <=> m < n
  BY DEF OpToRel
<1>3. ASSUME NEW m \in S PROVE n <= m
  <2>1. m \in Nat /\ n \in Nat /\ ~(m < n)
    BY <1>1, <1>2
  <2> QED BY <2>1
<1> QED BY <1>3

\* Powers of two, from the number of subsets of an interval: of those of 1 .. n + 1
\* half have n + 1.
LEMMA PowerNext ==
  ASSUME NEW n \in Nat
  PROVE  2^n \in Nat /\ 2^n > 0 /\ 2^(n + 1) = 2 * 2^n
<1> DEFINE A == SUBSET (1 .. n)
           B == {T \cup {n + 1} : T \in A}
           f == [T \in A |-> T \cup {n + 1}]
<1>1. \A m \in Nat : IsFiniteSet(SUBSET (1 .. m)) /\ Cardinality(SUBSET (1 .. m)) = 2^m
  <2> TAKE m \in Nat
  <2>1. IsFiniteSet(1 .. m) /\ Cardinality(1 .. m) = m
    BY FS_Interval
  <2> QED BY <2>1, FS_SUBSET
<1>2. 2^n \in Nat /\ 2^n > 0
  <2>1. A # {} 
    OBVIOUS
  <2> HIDE DEF A
  <2>2. IsFiniteSet(A) /\ Cardinality(A) = 2^n
    BY <1>1 DEF A
  <2> QED BY <2>1, <2>2, FS_CardinalityType, FS_EmptySet
<1>3. f \in Bijection(A, B)
  <2>1. \A T \in A : n + 1 \notin T
    OBVIOUS
  <2>2. f \in Surjection(A, B)
    BY Fun_SurjectionProperties DEF Surjection
  <2>3. ASSUME NEW T \in A, NEW U \in A, T \cup {n + 1} = U \cup {n + 1} PROVE T = U
    BY <2>1, <2>3
  <2>4. f \in Injection(A, B)
    <3>1. f \in [A -> B] /\ \A T \in A : f[T] = T \cup {n + 1}
      OBVIOUS
    <3> HIDE DEF f, A, B
    <3> QED BY <2>3, <3>1 DEF Injection, IsInjective
  <2> QED BY <2>2, <2>4 DEF Bijection
<1>4. IsFiniteSet(B) /\ Cardinality(B) = 2^n
  <2>1. IsFiniteSet(A) /\ Cardinality(A) = 2^n
    BY <1>1
  <2>2. ExistsBijection(A, B)
    BY <1>3 DEF ExistsBijection
  <2> HIDE DEF A, B
  <2> QED BY <2>1, <2>2, FS_Bijection
<1>5. A \cap B = {}
  OBVIOUS
<1>6. SUBSET (1 .. n + 1) = A \cup B
  <2>1. ASSUME NEW T \in SUBSET (1 .. n + 1) PROVE T \in A \cup B
    <3>1. T \ {n + 1} \in A
      OBVIOUS
    <3>2. CASE n + 1 \in T
      <4>1. T = (T \ {n + 1}) \cup {n + 1}
        BY <3>2
      <4> QED BY <3>1, <4>1
    <3>3. CASE n + 1 \notin T
      <4>1. T = T \ {n + 1}
        BY <3>3
      <4> QED BY <3>1, <4>1
    <3> QED BY <3>2, <3>3
  <2>2. 1 .. n \subseteq 1 .. n + 1 /\ n + 1 \in 1 .. n + 1
    OBVIOUS
  <2> QED BY <2>1, <2>2
<1>7. Cardinality(A \cup B) = 2^n + 2^n
  <2>1. IsFiniteSet(A) /\ Cardinality(A) = 2^n
    BY <1>1
  <2>2. Cardinality(A \cap B) = 0
    BY <1>5, FS_EmptySet
  <2> HIDE DEF A, B
  <2> QED BY <1>2, <1>4, <2>1, <2>2, FS_Union
<1>8. Cardinality(A \cup B) = 2^(n + 1)
  <2>1. n + 1 \in Nat
    OBVIOUS
  <2>2. Cardinality(SUBSET (1 .. n + 1)) = 2^(n + 1)
    BY <1>1, <2>1
  <2> HIDE DEF A, B
  <2> QED BY <1>6, <2>2
<1> QED BY <1>2, <1>7, <1>8

\* Powers of two multiply, by the least exponent for which they would not.
LEMMA PowerSum ==
  ASSUME NEW m \in Nat, NEW n \in Nat
  PROVE  2^(m + n) = 2^m * 2^n
<1> DEFINE S == {k \in Nat : 2^(m + k) # 2^m * 2^k}
<1> SUFFICES S = {}
  OBVIOUS
<1> SUFFICES ASSUME S # {} PROVE FALSE
  OBVIOUS
<1>1. PICK k \in S : \A j \in S : k <= j
  BY LeastNumber
<1>2. CASE k = 0
  <2>1. 2^0 = 1 /\ m + 0 = m /\ 2^m \in Nat
    BY PowerNext
  <2> QED BY <1>2, <2>1
<1>3. CASE k # 0
  <2> DEFINE j == k - 1
  <2>1. j \in Nat /\ k = j + 1 /\ m + k = (m + j) + 1
    BY <1>3
  <2>2. 2^(m + j) = 2^m * 2^j
    BY <1>1, <2>1
  <2>3. 2^((m + j) + 1) = 2 * 2^(m + j) /\ 2^(j + 1) = 2 * 2^j
    BY <2>1, PowerNext
  <2>4. 2^m \in Nat /\ 2^j \in Nat
    BY <2>1, PowerNext
  <2>5. \A a, b \in Nat : 2 * (a * b) = a * (2 * b)
    OBVIOUS
  <2> HIDE DEF j
  <2> QED BY <2>1, <2>2, <2>3, <2>4, <2>5
<1> QED BY <1>2, <1>3

\* Division is unique.
LEMMA Divided ==
  ASSUME NEW n \in Nat, NEW d \in Nat, d > 0
  PROVE  /\ n \div d \in Nat /\ n % d \in 0 .. d - 1
         /\ n = d * (n \div d) + (n % d)
         /\ \A q, r \in Nat : r < d /\ n = d * q + r => n \div d = q /\ n % d = r
OBVIOUS

\* The bits of half a number are those of the number but the last.
LEMMA Halved ==
  ASSUME NEW n \in Nat, NEW p \in Nat, p > 0
  PROVE  n \div p = 2 * (n \div (2 * p)) + ((n \div p) % 2)
<1> DEFINE q == n \div p
           r == n % p
           h == q \div 2
           e == q % 2
<1>1. q \in Nat /\ r \in Nat /\ r < p /\ n = p * q + r
  BY Divided
<1> HIDE DEF q, r
<1>2. h \in Nat /\ e \in {0, 1} /\ q = 2 * h + e
  BY <1>1
<1> HIDE DEF h, e
<1>3. p * q = 2 * (p * h) + p * e
  BY <1>1, <1>2
<1>4. (2 * p) * h = 2 * (p * h)
  BY <1>2
<1>5. p * e \in Nat /\ p * e <= p
  BY <1>2
<1>6. p * h \in Nat /\ (2 * p) * h \in Nat
  BY <1>2
<1>7. n = (2 * p) * h + (p * e + r) /\ p * e + r < 2 * p /\ p * e + r \in Nat
  BY <1>1, <1>3, <1>4, <1>5, <1>6
<1>8. n \div (2 * p) = h
  BY <1>2, <1>7, Divided
<1> QED BY <1>2, <1>8 DEF q, h, e
-----------------------------------------------------------------------------
(* Bytes and the packet.                                                   *)

\* What the sum over the bits of a byte comes to.
Sums(v, b) ==
  \A k \in 0 .. ByteBits : v[k] = IF k = 0 THEN 0 ELSE 2 * v[k - 1] + b[k - 1]

\* The bits of a byte have one value.
LEMMA SumsUnique ==
  ASSUME NEW b, NEW v, NEW w, Sums(v, b), Sums(w, b)
  PROVE  v[ByteBits] = w[ByteBits]
<1> DEFINE S == {k \in 0 .. ByteBits : v[k] # w[k]}
<1>1. CASE S = {}
  BY <1>1, Sizes
<1>2. CASE S # {}
  <2>1. S \in SUBSET Nat
    OBVIOUS
  <2>2. PICK k \in S : \A j \in S : k <= j
    BY <1>2, <2>1, LeastNumber
  <2>3. k # 0
    BY Sizes DEF Sums
  <2>4. k - 1 \in 0 .. ByteBits /\ k - 1 \notin S
    BY <2>2, <2>3, Sizes
  <2>5. v[k - 1] = w[k - 1]
    BY <2>4
  <2> QED BY <2>3, <2>5 DEF Sums
<1> QED BY <1>1, <1>2

\* Every byte has a value.
LEMMA SumsExist ==
  ASSUME NEW b \in Byte
  PROVE  \E v \in [0 .. ByteBits -> Nat] : Sums(v, b)
<1> DEFINE upto(n, v) ==
             \A k \in 0 .. ByteBits : k <= n =>
               v[k] = IF k = 0 THEN 0 ELSE 2 * v[k - 1] + b[k - 1]
           S == {n \in Nat : n <= ByteBits /\ ~ \E v \in [0 .. ByteBits -> Nat] : upto(n, v)}
<1>1. CASE ByteBits \notin S
  <2>1. PICK v \in [0 .. ByteBits -> Nat] : upto(ByteBits, v)
    BY <1>1, Sizes
  <2> QED BY <2>1, Sizes DEF Sums
<1>2. CASE ByteBits \in S
  <2>1. PICK n \in S : \A m \in S : n <= m
    BY <1>2, LeastNumber
  <2>2. n # 0
    <3> DEFINE v == [k \in 0 .. ByteBits |-> 0]
    <3>1. v \in [0 .. ByteBits -> Nat] /\ upto(0, v)
      OBVIOUS
    <3> QED BY <3>1
  <2>a. n \in Nat /\ n <= ByteBits
    OBVIOUS
  <2>3. n - 1 \in Nat /\ n - 1 <= ByteBits /\ n - 1 \notin S
    <3> HIDE DEF S
    <3> QED BY <2>1, <2>2, <2>a, Sizes
  <2>4. PICK v \in [0 .. ByteBits -> Nat] : upto(n - 1, v)
    BY <2>3
  <2> DEFINE w == [v EXCEPT ![n] = 2 * v[n - 1] + b[n - 1]]
  <2>5. v[n - 1] \in Nat /\ b[n - 1] \in Nat /\ n \in 0 .. ByteBits
    <3>1. n - 1 \in 0 .. ByteBits /\ n \in 0 .. ByteBits /\ n - 1 \in BitPos
      BY <2>a, <2>3, Sizes DEF BitPos
    <3>2. b[n - 1] \in Bit
      BY <3>1 DEF Byte
    <3> QED BY <2>4, <3>1, <3>2 DEF Bit
  <2>6. w \in [0 .. ByteBits -> Nat]
    BY <2>5
  <2>7. upto(n, w)
    <3>1. ASSUME NEW k \in 0 .. ByteBits, k <= n, k # n
          PROVE  w[k] = IF k = 0 THEN 0 ELSE 2 * w[k - 1] + b[k - 1]
      <4>1. w[k] = v[k] /\ (k # 0 => w[k - 1] = v[k - 1]) /\ k <= n - 1
        BY <3>1, <2>5
      <4> QED BY <2>4, <4>1
    <3>2. w[n] = 2 * w[n - 1] + b[n - 1]
      BY <2>5, <2>2, <2>3
    <3> QED BY <2>2, <3>1, <3>2
  <2> QED BY <2>6, <2>7
<1> QED BY <1>1, <1>2

\* ByteValue is the sum, in Nat, and the inverse of ByteOf.
LEMMA ByteValueIs ==
  ASSUME NEW b \in Byte
  PROVE  /\ ByteValue(b) \in Nat
         /\ \A v : Sums(v, b) => ByteValue(b) = v[ByteBits]
<1> DEFINE F(v) == [k \in 0 .. ByteBits |-> IF k = 0 THEN 0 ELSE 2 * v[k - 1] + b[k - 1]]
           f == CHOOSE v : v = F(v)
<1>1. PICK v \in [0 .. ByteBits -> Nat] : Sums(v, b)
  BY SumsExist
<1>2. v = F(v)
  BY <1>1 DEF Sums
<1>3. f = F(f)
  BY <1>2
<1>4. ByteValue(b) = f[ByteBits]
  BY DEF ByteValue
<1>5. Sums(f, b)
  <2> HIDE DEF f
  <2>1. \A k \in 0 .. ByteBits : F(f)[k] = IF k = 0 THEN 0 ELSE 2 * f[k - 1] + b[k - 1]
    OBVIOUS
  <2> HIDE DEF F
  <2> QED BY <1>3, <2>1 DEF Sums
<1>6. v[ByteBits] \in Nat
  BY Sizes
<1> HIDE DEF f, F
<1> QED BY <1>1, <1>4, <1>5, <1>6, SumsUnique

\* A byte of the bits of n has the value n.
LEMMA ValueOfByteOf ==
  ASSUME NEW n \in Nat, n < 2^ByteBits
  PROVE  ByteOf(n) \in Byte /\ ByteValue(ByteOf(n)) = n
<1> DEFINE b == ByteOf(n)
           v == [k \in 0 .. ByteBits |-> n \div 2^(ByteBits - k)]
<1>1. \A i \in BitPos : 2^(ByteBits - 1 - i) \in Nat /\ 2^(ByteBits - 1 - i) > 0
  BY Sizes, PowerNext DEF BitPos
<1>2. b \in Byte
  <2>1. ASSUME NEW i \in BitPos PROVE (n \div 2^(ByteBits - 1 - i)) % 2 \in Bit
    <3>1. n \div 2^(ByteBits - 1 - i) \in Nat
      BY <1>1, Divided
    <3> QED BY <3>1 DEF Bit
  <2> QED BY <2>1 DEF ByteOf, Byte
<1>3. Sums(v, b)
  <2>1. v[0] = 0
    <3>1. 2^ByteBits \in Nat /\ 2^ByteBits > 0 /\ n = 2^ByteBits * 0 + n
      BY Sizes, PowerNext
    <3>2. n \div 2^ByteBits = 0
      BY <3>1, Divided
    <3> QED BY <3>2, Sizes
  <2>2. ASSUME NEW k \in 0 .. ByteBits, k # 0 PROVE v[k] = 2 * v[k - 1] + b[k - 1]
    <3> DEFINE m == ByteBits - k
    <3>1. m \in Nat /\ k - 1 \in BitPos /\ ByteBits - (k - 1) = m + 1 /\ ByteBits - 1 - (k - 1) = m
      BY <2>2, Sizes DEF BitPos
    <3>2. 2^m \in Nat /\ 2^m > 0 /\ 2^(m + 1) = 2 * 2^m
      BY <3>1, PowerNext
    <3>3. b[k - 1] = (n \div 2^m) % 2
      BY <3>1 DEF ByteOf
    <3>4. v[k] = n \div 2^m /\ v[k - 1] = n \div 2^(m + 1)
      BY <3>1, Sizes DEF BitPos
    <3> HIDE DEF m, b, v
    <3>5. n \div 2^m = 2 * (n \div (2 * 2^m)) + ((n \div 2^m) % 2)
      BY <3>2, Halved
    <3> QED BY <3>2, <3>3, <3>4, <3>5
  <2> HIDE DEF v, b
  <2> QED BY <2>1, <2>2 DEF Sums
<1>4. v[ByteBits] = n
  <2>1. 2^0 = 1 /\ ByteBits - ByteBits = 0 /\ n \div 1 = n
    BY Sizes
  <2> QED BY <2>1, Sizes
<1> QED BY <1>2, <1>3, <1>4, ByteValueIs

N == Len(SentBytes)

\* Two sequences of bytes, one behind the other.
LEMMA Joined ==
  ASSUME NEW s \in Seq(Byte), NEW t \in Seq(Byte)
  PROVE  /\ Len(s) \in Nat /\ Len(t) \in Nat
         /\ s \o t \in Seq(Byte) /\ Len(s \o t) = Len(s) + Len(t)
         /\ \A i \in 1 .. Len(s) : (s \o t)[i] = s[i]
         /\ \A i \in 1 .. Len(t) : (s \o t)[Len(s) + i] = t[i]
<1>1. Len(s) \in Nat /\ Len(t) \in Nat
  OBVIOUS
<1>2. s \o t \in Seq(Byte) /\ Len(s \o t) = Len(s) + Len(t)
  BY ConcatProperties
<1>3. \A i \in 1 .. Len(s) + Len(t) : (s \o t)[i] = IF i <= Len(s) THEN s[i] ELSE t[i - Len(s)]
  BY ConcatProperties
<1>4. ASSUME NEW i \in 1 .. Len(s) PROVE (s \o t)[i] = s[i]
  BY <1>1, <1>3
<1>5. ASSUME NEW i \in 1 .. Len(t) PROVE (s \o t)[Len(s) + i] = t[i]
  <2>1. Len(s) + i \in 1 .. Len(s) + Len(t) /\ ~(Len(s) + i <= Len(s)) /\ (Len(s) + i) - Len(s) = i
    BY <1>1
  <2> QED BY <1>3, <2>1
<1> QED BY <1>1, <1>2, <1>4, <1>5

\* The packet: its size,
LEMMA PacketSize ==
  /\ SentLength \in Nat /\ Padding \in {0, 1}
  /\ (SentLength + Padding) % 2 = 0 /\ SentLength % 2 = Padding
  /\ SentLength + Padding + 6 < BufBytes
  /\ 2^ByteBits \in Nat /\ 2^ByteBits > 0 /\ SentLength < 2^ByteBits * 2^ByteBits
  /\ 2^WordBits \in Nat /\ 2^WordBits > 0 /\ SentLength + Padding < 2^WordBits
<1> DEFINE p == 2^ByteBits
<1>1. p \in Nat /\ p > 0 /\ 2^WordBits = p * p /\ 2^WordBits \in Nat /\ 2^WordBits > 0
  <2>1. WordBits = ByteBits + ByteBits
    BY Sizes
  <2> QED BY <2>1, Sizes, PowerNext, PowerSum
<1>2. SentLength \in Nat
  BY LinkAssumption DEF SentLength
<1>3. Padding \in {0, 1} /\ (SentLength + Padding) % 2 = 0 /\ SentLength % 2 = Padding
  BY <1>2 DEF Padding
<1> HIDE DEF p
<1>4. SentLength + Padding < 2^WordBits /\ SentLength + Padding + 6 < BufBytes
  BY LinkAssumption
<1>5. SentLength < p * p
  <2> DEFINE q == p * p
  <2>1. SentLength + Padding < q /\ q \in Nat
    BY <1>1, <1>4
  <2> HIDE DEF q
  <2>2. SentLength < q
    BY <1>2, <1>3, <2>1
  <2> QED BY <2>2 DEF q
<1> QED BY <1>1, <1>2, <1>3, <1>4, <1>5 DEF p

\* the two bytes its length is sent in,
LEMMA HeaderBytes ==
  LET lo == SentLength % 2^ByteBits
      hi == SentLength \div 2^ByteBits
  IN  /\ lo \in Nat /\ lo < 2^ByteBits /\ hi \in Nat /\ hi < 2^ByteBits
      /\ SentLength = lo + 2^ByteBits * hi
<1> DEFINE p == 2^ByteBits
           lo == SentLength % p
           hi == SentLength \div p
<1>1. p \in Nat /\ p > 0 /\ SentLength \in Nat /\ SentLength < p * p
  BY PacketSize
<1> HIDE DEF p
<1>2. lo \in Nat /\ lo < p /\ hi \in Nat /\ SentLength = p * hi + lo
  BY <1>1, Divided
<1> HIDE DEF hi, lo
<1>3. hi < p
  <2> SUFFICES ASSUME hi >= p PROVE FALSE
    BY <1>1, <1>2
  <2>1. p * hi >= p * p /\ p * hi \in Nat /\ p * p \in Nat
    BY <1>1, <1>2
  <2> QED BY <1>1, <1>2, <2>1
<1>4. p * hi \in Nat
  BY <1>1, <1>2
<1>5. SentLength = lo + p * hi
  BY <1>2, <1>4
<1> QED BY <1>2, <1>3, <1>5 DEF p, lo, hi

\* and where its parts are.
LEMMA PacketBytes ==
  /\ SentBytes \in Seq(Byte) /\ N \in Nat /\ N = SentLength + Padding + 6
  /\ SentBytes[1] = ByteOf(SentLength % 2^ByteBits)
  /\ SentBytes[2] = ByteOf(SentLength \div 2^ByteBits)
  /\ \A i \in 1 .. SentLength : SentBytes[2 + i] = SentPayload[i]
  /\ \A i \in 1 .. 4 : SentBytes[SentLength + Padding + 2 + i] = SentCrc[i]
<1> DEFINE a == ByteOf(SentLength % 2^ByteBits)
           b == ByteOf(SentLength \div 2^ByteBits)
           head == <<a, b>>
           pad == [k \in 1 .. Padding |-> ZeroByte]
<1>1. a \in Byte /\ b \in Byte
  BY HeaderBytes, ValueOfByteOf
<1> HIDE DEF a, b
<1>2. head \in Seq(Byte) /\ Len(head) = 2 /\ head[1] = a /\ head[2] = b
  BY <1>1
<1>3. pad \in Seq(Byte) /\ Len(pad) = Padding
  <2>1. ZeroByte \in Byte
    BY DEF ZeroByte, Byte, Bit
  <2> QED BY <2>1, PacketSize
<1>4. /\ SentPayload \in Seq(Byte) /\ Len(SentPayload) = SentLength
      /\ SentCrc \in Seq(Byte) /\ Len(SentCrc) = 4
  BY LinkAssumption DEF SentLength
<1>5. SentLength \in Nat /\ Padding \in {0, 1}
  BY PacketSize
<1> DEFINE s1 == head \o SentPayload
           s2 == s1 \o pad
<1>6. SentBytes = s2 \o SentCrc
  BY DEF SentBytes, a, b
<1> HIDE DEF head, pad
<1>7. /\ s1 \in Seq(Byte) /\ Len(s1) = 2 + SentLength
      /\ \A i \in 1 .. 2 : s1[i] = head[i]
      /\ \A i \in 1 .. SentLength : s1[2 + i] = SentPayload[i]
  <2>1. /\ s1 \in Seq(Byte) /\ Len(s1) = Len(head) + Len(SentPayload)
        /\ \A i \in 1 .. Len(head) : s1[i] = head[i]
        /\ \A i \in 1 .. Len(SentPayload) : s1[Len(head) + i] = SentPayload[i]
    BY <1>2, <1>4, Joined
  <2> HIDE DEF s1
  <2> QED BY <1>2, <1>4, <2>1
<1> HIDE DEF s1
<1>8. /\ s2 \in Seq(Byte) /\ Len(s2) = 2 + SentLength + Padding
      /\ \A i \in 1 .. 2 + SentLength : s2[i] = s1[i]
  <2>1. /\ s2 \in Seq(Byte) /\ Len(s2) = Len(s1) + Len(pad)
        /\ \A i \in 1 .. Len(s1) : s2[i] = s1[i]
        /\ \A i \in 1 .. Len(pad) : s2[Len(s1) + i] = pad[i]
    BY <1>3, <1>7, Joined
  <2> HIDE DEF s2
  <2> QED BY <1>3, <1>7, <2>1
<1> HIDE DEF s2
<1>9. /\ SentBytes \in Seq(Byte) /\ N = Len(s2) + 4
      /\ \A i \in 1 .. Len(s2) : SentBytes[i] = s2[i]
      /\ \A i \in 1 .. 4 : SentBytes[Len(s2) + i] = SentCrc[i]
  <2>1. /\ SentBytes \in Seq(Byte) /\ Len(SentBytes) = Len(s2) + Len(SentCrc)
        /\ \A i \in 1 .. Len(s2) : SentBytes[i] = s2[i]
        /\ \A i \in 1 .. Len(SentCrc) : SentBytes[Len(s2) + i] = SentCrc[i]
    BY <1>4, <1>6, <1>8, Joined
  <2> QED BY <1>4, <2>1 DEF N
<1>10. N \in Nat /\ N = SentLength + Padding + 6
  BY <1>5, <1>8, <1>9
<1>11. SentBytes[1] = a /\ SentBytes[2] = b
  <2>1. 1 \in 1 .. Len(s2) /\ 2 \in 1 .. Len(s2) /\ 1 \in 1 .. 2 + SentLength /\ 2 \in 1 .. 2 + SentLength
    BY <1>5, <1>8
  <2> QED BY <1>2, <1>7, <1>8, <1>9, <2>1
<1>12. ASSUME NEW i \in 1 .. SentLength PROVE SentBytes[2 + i] = SentPayload[i]
  <2>1. 2 + i \in 1 .. 2 + SentLength /\ 2 + i \in 1 .. Len(s2)
    BY <1>5, <1>8
  <2> QED BY <1>7, <1>8, <1>9, <2>1
<1>13. Len(s2) = SentLength + Padding + 2
  BY <1>5, <1>8
<1> QED BY <1>9, <1>10, <1>11, <1>12, <1>13 DEF a, b

\* The packet: its length, the payload, the padding and the checksum.
LEMMA PacketNumbers == N \in Nat /\ N >= 6 /\ N = SentLength + Padding + 6 /\ N < BufBytes
<1>1. N \in Nat /\ N = SentLength + Padding + 6
  BY PacketBytes
<1> QED BY <1>1, PacketSize

\* The length is read from the two bytes it is sent in.
LEMMA HeaderRead ==
  ASSUME NEW b \in [Offsets -> Byte], b[0] = SentBytes[1], b[1] = SentBytes[2]
  PROVE  Length(b) = SentLength /\ Padded(b) = SentLength + Padding
<1> DEFINE lo == SentLength % 2^ByteBits
           hi == SentLength \div 2^ByteBits
<1>1. /\ lo \in Nat /\ lo < 2^ByteBits /\ hi \in Nat /\ hi < 2^ByteBits
      /\ SentLength = lo + 2^ByteBits * hi
  BY HeaderBytes
<1>2. ByteValue(b[0]) = lo /\ ByteValue(b[1]) = hi
  BY <1>1, PacketBytes, ValueOfByteOf
<1>3. Length(b) = SentLength
  BY <1>1, <1>2 DEF Length
<1>4. /\ SentLength \in Nat /\ Padding \in {0, 1} /\ SentLength % 2 = Padding
      /\ SentLength + Padding < 2^WordBits /\ 2^WordBits \in Nat
  BY PacketSize
<1>5. (SentLength + Padding) % (2^WordBits) = SentLength + Padding
  BY <1>4
<1> QED BY <1>3, <1>4, <1>5 DEF Padded

\* Whatever is in the buffer, no packet is complete before its CRC.
LEMMA PaddedNat ==
  ASSUME NEW b \in [Offsets -> Byte]
  PROVE  Padded(b) \in Nat
<1>1. 0 \in Offsets /\ 1 \in Offsets
  BY Sizes DEF Offsets
<1>2. ByteValue(b[0]) \in Nat /\ ByteValue(b[1]) \in Nat
  BY <1>1, ByteValueIs
<1>3. 2^ByteBits \in Nat
  BY PacketSize
<1>4. Length(b) \in Nat
  <2> DEFINE x == ByteValue(b[0])
             y == ByteValue(b[1])
             p == 2^ByteBits
  <2> HIDE DEF x, y, p
  <2>1. x + p * y \in Nat
    BY <1>2, <1>3 DEF x, y, p
  <2> QED BY <2>1 DEF Length, x, y, p
<1>5. 2^WordBits \in Nat /\ 2^WordBits > 0
  BY Sizes, PowerNext
<1> QED BY <1>4, <1>5, Divided DEF Padded

\* A buffer that holds the packet gives back the payload and its CRC.
LEMMA PacketRead ==
  ASSUME NEW b \in [Offsets -> Byte], \A o \in 0 .. N - 1 : b[o] = SentBytes[o + 1]
  PROVE  Payload(b) = SentPayload /\ Crc(b) = SentCrc /\ CrcMatches(Payload(b), Crc(b))
<1>a. /\ N \in Nat /\ N = SentLength + Padding + 6 /\ N < BufBytes
      /\ SentLength \in Nat /\ Padding \in {0, 1} /\ BufBytes \in Nat
  BY PacketBytes, PacketSize, Sizes
<1>1. Length(b) = SentLength /\ Padded(b) = SentLength + Padding
  <2>1. b[0] = SentBytes[1] /\ b[1] = SentBytes[2]
    <3>1. 0 \in 0 .. N - 1 /\ 1 \in 0 .. N - 1
      BY <1>a
    <3>2. 0 + 1 = 1 /\ 1 + 1 = 2
      OBVIOUS
    <3> QED BY <3>1, <3>2
  <2> QED BY <2>1, HeaderRead
<1>2. Payload(b) = SentPayload
  <2>1. ASSUME NEW i \in 1 .. SentLength
        PROVE  (IF i + 1 < BufBytes THEN b[i + 1] ELSE Outside) = SentPayload[i]
    <3>1. i + 1 \in 0 .. N - 1 /\ i + 1 < BufBytes /\ (i + 1) + 1 = 2 + i
      BY <1>a
    <3> QED BY <3>1, PacketBytes
  <2>2. SentPayload \in [1 .. SentLength -> Byte]
    BY LinkAssumption DEF SentLength
  <2>3. SentPayload = [i \in 1 .. SentLength |-> SentPayload[i]]
    BY <2>2
  <2> QED BY <1>1, <2>1, <2>3 DEF Payload
<1>3. Crc(b) = SentCrc
  <2>1. ASSUME NEW i \in 1 .. 4 PROVE b[SentLength + Padding + i + 1] = SentCrc[i]
    <3>1. /\ SentLength + Padding + i + 1 \in 0 .. N - 1
          /\ (SentLength + Padding + i + 1) + 1 = SentLength + Padding + 2 + i
      BY <1>a
    <3> QED BY <3>1, PacketBytes
  <2>2. SentCrc \in [1 .. 4 -> Byte]
    <3>1. SentCrc \in Seq(Byte) /\ Len(SentCrc) = 4
      BY LinkAssumption
    <3> QED BY <3>1, LenProperties
  <2>3. SentCrc = [i \in 1 .. 4 |-> SentCrc[i]]
    BY <2>2
  <2> QED BY <1>1, <2>1, <2>3 DEF Crc
<1> QED BY <1>2, <1>3, LinkAssumption
-----------------------------------------------------------------------------
(* Positions in the frame.                                                 *)

\* The word a bit of the frame is in, and its number in that word; the last is
\* the sync bit's.
WordAt(k) == (k - PreambleLen - 1) \div (WordBits + 1)
SlotAt(k) == (k - PreambleLen - 1) % (WordBits + 1)

\* The byte and the bit of it that come next.
ByteAt(k) == 2 * WordAt(k) + (SlotAt(k) \div ByteBits)
BitAt(k)  == SlotAt(k) % ByteBits

BodyPos == PreambleLen + 1 .. FrameLen

\* The frame: a preamble and words with a sync bit each.
LEMMA FrameSize ==
  /\ PreambleLen \in Nat /\ PreambleLen = WordBits + 2
  /\ N \div 2 \in Nat /\ N \div 2 >= 3 /\ N = 2 * (N \div 2)
  /\ FrameLen \in Nat /\ FrameLen = PreambleLen + (N \div 2) * (WordBits + 1)
  /\ FrameLen > PreambleLen + WordBits + 1
<1> DEFINE m == N \div 2
           w == WordBits + 1
<1>1. w \in Nat /\ w >= 3
  BY Sizes
<1>2. m \in Nat /\ m >= 3 /\ N = 2 * m
  BY PacketBytes, PacketSize
<1>3. PreambleLen \in Nat /\ PreambleLen = WordBits + 2
  BY Sizes DEF PreambleLen
<1> HIDE DEF m, w
<1>4. m * w \in Nat /\ m * w > w
  BY <1>1, <1>2
<1>5. FrameLen = PreambleLen + m * w
  BY DEF FrameLen, N, m, w
<1> QED BY <1>2, <1>3, <1>4, <1>5, Sizes DEF m, w

\* The number of a bit in its word is that of a bit of the word's two bytes, or
\* of the sync bit.
LEMMA SlotSplit ==
  ASSUME NEW i \in 0 .. WordBits
  PROVE  /\ i \div ByteBits \in {0, 1, 2} /\ i % ByteBits \in BitPos
         /\ i = ByteBits * (i \div ByteBits) + (i % ByteBits)
         /\ i < WordBits <=> i \div ByteBits # 2
         /\ i = WordBits => i % ByteBits = 0
         /\ i < WordBits => IF (i % ByteBits) + 1 > ByteBits - 1
                              THEN (i + 1) \div ByteBits = (i \div ByteBits) + 1 /\ (i + 1) % ByteBits = 0
                              ELSE (i + 1) \div ByteBits = i \div ByteBits
                                     /\ (i + 1) % ByteBits = (i % ByteBits) + 1
<1> DEFINE q == i \div ByteBits
           r == i % ByteBits
<1>0. i \in Nat /\ ByteBits \in Nat /\ ByteBits > 0 /\ WordBits = 2 * ByteBits /\ i <= WordBits
  BY Sizes
<1>1. q \in Nat /\ r \in 0 .. ByteBits - 1 /\ i = ByteBits * q + r
  BY <1>0, Divided
<1>2. ASSUME NEW a \in Nat, NEW n \in Nat, NEW s \in Nat, s < ByteBits, n = ByteBits * a + s
      PROVE  n \div ByteBits = a /\ n % ByteBits = s
  BY <1>0, <1>2, Divided
<1> HIDE DEF q, r
<1>3. q \in {0, 1, 2}
  <2> SUFFICES ASSUME q >= 3 PROVE FALSE
    BY <1>1
  <2>1. ByteBits * q >= ByteBits * 3
    BY <1>0, <1>1
  <2>2. ByteBits * q \in Nat
    BY <1>0, <1>1
  <2> QED BY <1>0, <1>1, <2>1, <2>2
<1>4. i < WordBits <=> q # 2
  BY <1>0, <1>1, <1>3
<1>5. i = WordBits => r = 0
  BY <1>0, <1>1, <1>3
<1>6. ASSUME i < WordBits, r + 1 > ByteBits - 1
      PROVE  (i + 1) \div ByteBits = q + 1 /\ (i + 1) % ByteBits = 0
  <2>1. i + 1 = ByteBits * (q + 1) + 0
    BY <1>0, <1>1, <1>3, <1>6
  <2> QED BY <1>0, <1>1, <1>2, <2>1
<1>7. ASSUME i < WordBits, ~(r + 1 > ByteBits - 1)
      PROVE  (i + 1) \div ByteBits = q /\ (i + 1) % ByteBits = r + 1
  <2>1. i + 1 = ByteBits * q + (r + 1) /\ r + 1 < ByteBits /\ r + 1 \in Nat
    BY <1>0, <1>1, <1>3, <1>7
  <2> QED BY <1>0, <1>1, <1>2, <2>1
<1> QED BY <1>1, <1>3, <1>4, <1>5, <1>6, <1>7 DEF q, r, BitPos

\* A position behind the preamble, taken apart.
LEMMA Position ==
  ASSUME NEW k \in BodyPos
  PROVE  /\ k - PreambleLen - 1 \in Nat
         /\ WordAt(k) \in 0 .. (N \div 2) - 1 /\ SlotAt(k) \in 0 .. WordBits
         /\ k - PreambleLen - 1 = (WordBits + 1) * WordAt(k) + SlotAt(k)
         /\ k = FrameLen <=> WordAt(k) = (N \div 2) - 1 /\ SlotAt(k) = WordBits
<1> DEFINE m == N \div 2
           w == WordBits + 1
           j == k - PreambleLen - 1
           q == j \div w
           r == j % w
<1>1. /\ w \in Nat /\ w >= 3 /\ m \in Nat /\ m >= 3 /\ PreambleLen \in Nat
      /\ FrameLen = PreambleLen + m * w /\ FrameLen \in Nat
  BY Sizes, FrameSize
<1>2. j \in Nat /\ j < m * w /\ (k = FrameLen <=> j + 1 = m * w)
  <2> DEFINE t == m * w
  <2>1. t \in Nat /\ FrameLen = PreambleLen + t
    BY <1>1
  <2>2. k \in Int /\ k >= PreambleLen + 1 /\ k <= FrameLen
    BY <1>1 DEF BodyPos
  <2> HIDE DEF t, m, w
  <2> QED BY <1>1, <2>1, <2>2 DEF t
<1>3. q \in Nat /\ r \in 0 .. w - 1 /\ j = w * q + r
  BY <1>1, <1>2, Divided
<1> HIDE DEF m, w, j, q, r
<1>4. q < m
  <2> SUFFICES ASSUME q >= m PROVE FALSE
    BY <1>1, <1>3
  <2>1. w * q >= m * w /\ w * q \in Nat /\ m * w \in Nat
    BY <1>1, <1>3
  <2> QED BY <1>1, <1>2, <1>3, <2>1
<1>5. j + 1 = m * w <=> q = m - 1 /\ r = w - 1
  <2>1. CASE q = m - 1
    <3>1. w * q = m * w - w /\ m * w \in Nat
      BY <1>1, <2>1
    <3> QED BY <1>1, <1>2, <1>3, <2>1, <3>1
  <2>2. CASE q # m - 1
    <3>1. q + 1 <= m - 1
      BY <1>1, <1>3, <1>4, <2>2
    <3>2. w * (q + 1) <= w * (m - 1)
      BY <1>1, <1>3, <3>1
    <3>3. w * (q + 1) = w * q + w /\ w * (m - 1) = m * w - w /\ w * q \in Nat /\ m * w \in Nat
      BY <1>1, <1>3
    <3> QED BY <1>1, <1>2, <1>3, <2>2, <3>2, <3>3
  <2> QED BY <2>1, <2>2
<1>6. w - 1 = WordBits /\ WordAt(k) = q /\ SlotAt(k) = r
  BY Sizes DEF w, q, r, j, WordAt, SlotAt
<1>7. k - PreambleLen - 1 = j /\ w = WordBits + 1 /\ m = N \div 2
  BY DEF j, w, m
<1> QED BY <1>1, <1>2, <1>3, <1>4, <1>5, <1>6, <1>7

\* The next position.
LEMMA NextPosition ==
  ASSUME NEW k \in BodyPos, k # FrameLen
  PROVE  /\ k + 1 \in BodyPos
         /\ IF SlotAt(k) = WordBits
              THEN WordAt(k + 1) = WordAt(k) + 1 /\ SlotAt(k + 1) = 0
              ELSE WordAt(k + 1) = WordAt(k) /\ SlotAt(k + 1) = SlotAt(k) + 1
<1> DEFINE w == WordBits + 1
           q == WordAt(k)
           r == SlotAt(k)
           j == k - PreambleLen - 1
<1>1. k + 1 \in BodyPos
  BY FrameSize DEF BodyPos
<1>2. q \in Nat /\ r \in 0 .. WordBits /\ j = w * q + r /\ j \in Nat
  BY Position, FrameSize
<1>3. w \in Nat /\ w > 0 /\ w - 1 = WordBits
  BY Sizes
<1>4. (k + 1) - PreambleLen - 1 = j + 1
  BY FrameSize DEF BodyPos
<1>5. WordAt(k + 1) = (j + 1) \div w /\ SlotAt(k + 1) = (j + 1) % w
  BY <1>4 DEF WordAt, SlotAt
<1> HIDE DEF w, q, r, j
<1>6. CASE r = WordBits
  <2>1. j + 1 = w * (q + 1) + 0
    BY <1>2, <1>3, <1>6
  <2>2. (j + 1) \div w = q + 1 /\ (j + 1) % w = 0
    BY <1>2, <1>3, <2>1, Divided
  <2> QED BY <1>1, <1>5, <1>6, <2>2 DEF q, r
<1>7. CASE r # WordBits
  <2>1. j + 1 = w * q + (r + 1) /\ r + 1 < w /\ r + 1 \in Nat
    BY <1>2, <1>3, <1>7
  <2>2. (j + 1) \div w = q /\ (j + 1) % w = r + 1
    BY <1>2, <1>3, <2>1, Divided
  <2> QED BY <1>1, <1>5, <1>7, <2>2 DEF q, r
<1> QED BY <1>6, <1>7

\* The place of a bit behind the preamble.
LEMMA Place ==
  ASSUME NEW k \in BodyPos
  PROVE  /\ ByteAt(k) \in Nat /\ BitAt(k) \in BitPos
         /\ SlotAt(k) < WordBits => ByteAt(k) \in 0 .. N - 1 
         /\ SlotAt(k) = WordBits /\ k # FrameLen => ByteAt(k) < N
         /\ SlotAt(k) < WordBits => FrameBit(k) = SentBytes[ByteAt(k) + 1][BitAt(k)]
         /\ SlotAt(k) = WordBits => FrameBit(k) = 1
         /\ FrameBit(k) \in Bit
         /\ k # FrameLen /\ SlotAt(k) = WordBits => 
              ByteAt(k + 1) = ByteAt(k) /\ BitAt(k + 1) = BitAt(k)
         /\ SlotAt(k) < WordBits =>
              IF BitAt(k) + 1 > ByteBits - 1
                THEN ByteAt(k + 1) = ByteAt(k) + 1 /\ BitAt(k + 1) = 0
                ELSE ByteAt(k + 1) = ByteAt(k) /\ BitAt(k + 1) = BitAt(k) + 1
<1> DEFINE q == WordAt(k)
           i == SlotAt(k)
           m == N \div 2
<1>1. /\ q \in 0 .. m - 1 /\ i \in 0 .. WordBits /\ m \in Nat /\ N = 2 * m
      /\ (k = FrameLen <=> q = m - 1 /\ i = WordBits)
  BY Position, FrameSize
<1>2. /\ i \div ByteBits \in {0, 1, 2} /\ i % ByteBits \in BitPos
      /\ i < WordBits <=> i \div ByteBits # 2
      /\ i = WordBits => i % ByteBits = 0
  BY <1>1, SlotSplit
<1>3. ByteAt(k) = 2 * q + (i \div ByteBits) /\ BitAt(k) = i % ByteBits
  BY DEF ByteAt, BitAt
<1> HIDE DEF q, i, m
<1>4. ByteAt(k) \in Nat /\ BitAt(k) \in BitPos
  BY <1>1, <1>2, <1>3
<1>5. i < WordBits => ByteAt(k) \in 0 .. N - 1
  BY <1>1, <1>2, <1>3
<1>6. i = WordBits /\ k # FrameLen => ByteAt(k) < N
  BY <1>1, <1>2, <1>3
<1>7. FrameBit(k) = IF i = WordBits THEN 1 ELSE SentBytes[ByteAt(k) + 1][BitAt(k)]
  <2>1. ~(k < PreambleLen) /\ k # PreambleLen
    BY FrameSize DEF BodyPos
  <2> QED BY <2>1 DEF FrameBit, ByteAt, BitAt, WordAt, SlotAt, i
<1>8. FrameBit(k) \in Bit
  <2>1. CASE i = WordBits
    BY <1>7, <2>1 DEF Bit
  <2>2. CASE i # WordBits
    <3>1. ByteAt(k) + 1 \in 1 .. N
      BY <1>1, <1>5, <2>2, Sizes
    <3>2. SentBytes[ByteAt(k) + 1] \in Byte
      BY <3>1, PacketBytes, ElementOfSeq DEF N
    <3> QED BY <1>4, <1>7, <2>2, <3>2 DEF Byte
  <2> QED BY <2>1, <2>2
<1>9. ASSUME k # FrameLen, i = WordBits
      PROVE  ByteAt(k + 1) = ByteAt(k) /\ BitAt(k + 1) = BitAt(k)
  <2>1. WordAt(k + 1) = q + 1 /\ SlotAt(k + 1) = 0
    BY <1>9, NextPosition DEF q, i
  <2>2. 0 \div ByteBits = 0 /\ 0 % ByteBits = 0
    <3>1. 0 = ByteBits * 0 + 0 /\ ByteBits > 0
      BY Sizes
    <3> QED BY <3>1, Sizes, Divided
  <2>3. ByteAt(k + 1) = 2 * (q + 1) + 0 /\ BitAt(k + 1) = 0
    BY <2>1, <2>2 DEF ByteAt, BitAt
  <2> QED BY <1>1, <1>2, <1>3, <1>9, <2>3
<1>10. ASSUME i < WordBits
       PROVE  IF BitAt(k) + 1 > ByteBits - 1
                THEN ByteAt(k + 1) = ByteAt(k) + 1 /\ BitAt(k + 1) = 0
                ELSE ByteAt(k + 1) = ByteAt(k) /\ BitAt(k + 1) = BitAt(k) + 1
  <2>1. k # FrameLen /\ i # WordBits
    BY <1>1, <1>10, Sizes
  <2>2. WordAt(k + 1) = q /\ SlotAt(k + 1) = i + 1
    BY <2>1, NextPosition DEF q, i
  <2>3. ByteAt(k + 1) = 2 * q + ((i + 1) \div ByteBits) /\ BitAt(k + 1) = (i + 1) % ByteBits
    BY <2>2 DEF ByteAt, BitAt
  <2>4. IF (i % ByteBits) + 1 > ByteBits - 1
          THEN (i + 1) \div ByteBits = (i \div ByteBits) + 1 /\ (i + 1) % ByteBits = 0
          ELSE (i + 1) \div ByteBits = i \div ByteBits /\ (i + 1) % ByteBits = (i % ByteBits) + 1
    BY <1>1, <1>10, SlotSplit
  <2> QED BY <1>1, <1>2, <1>3, <2>3, <2>4
<1> QED BY <1>4, <1>5, <1>6, <1>7, <1>8, <1>9, <1>10, Sizes DEF i
-----------------------------------------------------------------------------
(* The link.                                                               *)

\* A frame without a fault so far, and one whose faults the previous makes up.
Clean  == ~disturbed /\ unknown = {}
Filled == ~disturbed /\ lastClean /\ unknown \cap Essential = {}

\* The buffer holds the packet behind its length.
Primed == \A o \in 2 .. N - 1 : buf[o] = SentBytes[o + 1]

\* Whether a bit of the buffer is before another.
Before(o, i, p, r) == o < p \/ (o = p /\ i < r)

\* The bits read are those sent, and of the length no others are set.
ReadSoFar ==
  /\ \A o \in 0 .. N - 1, i \in BitPos :
       Before(o, i, bufOffset, bitsWritten) => buf[o][i] = SentBytes[o + 1][i]
  /\ \A o \in {0, 1}, i \in BitPos :
       ~Before(o, i, bufOffset, bitsWritten) => buf[o][i] = 0

\* The decoder is where the lighthouse is.
InStep(k) ==
  /\ found /\ zeros <= bitsProcessed
  /\ bufOffset = ByteAt(k) /\ bitsWritten = BitAt(k) /\ bitsProcessed = SlotAt(k)

\* It has read the preamble but for its last bit; all of the frame but the last.
Idle(k)  == found = FALSE /\ zeros = k - 1 /\ Primed
AtEnd == found = FALSE /\ zeros <= WordBits /\ bitsProcessed = WordBits /\ Primed

LinkInv ==
  /\ pos \in 1 .. FrameLen /\ disturbed \in BOOLEAN
  /\ Clean /\ pos <= PreambleLen => zeros >= pos - 1
  /\ Filled /\ pos <= PreambleLen => Idle(pos)
  /\ (Clean \/ Filled) /\ pos > PreambleLen /\ pos # FrameLen =>
       InStep(pos) /\ ReadSoFar /\ (lastClean => Primed) /\ got = 0
  /\ (Clean \/ Filled) /\ pos = FrameLen => AtEnd /\ Delivered

\* The first bit behind the preamble, and the last of the frame.
LEMMA FirstPlace ==
  /\ PreambleLen + 1 \in BodyPos /\ PreambleLen + 1 # FrameLen
  /\ ByteAt(PreambleLen + 1) = 0 /\ BitAt(PreambleLen + 1) = 0 /\ SlotAt(PreambleLen + 1) = 0
<1> DEFINE k == PreambleLen + 1
<1>1. k \in BodyPos /\ k # FrameLen /\ k - PreambleLen - 1 = 0
  BY FrameSize, Sizes DEF BodyPos
<1> HIDE DEF k
<1>2. \A d \in Nat : d > 0 => 0 \div d = 0 /\ 0 % d = 0
  <2> SUFFICES ASSUME NEW d \in Nat, d > 0 PROVE 0 \div d = 0 /\ 0 % d = 0
    OBVIOUS
  <2>1. 0 = d * 0 + 0
    OBVIOUS
  <2> QED BY <2>1, Divided
<1>3. WordAt(k) = 0 /\ SlotAt(k) = 0
  BY <1>1, <1>2, Sizes DEF WordAt, SlotAt
<1>4. ByteAt(k) = 0 /\ BitAt(k) = 0
  BY <1>2, <1>3, Sizes DEF ByteAt, BitAt
<1> QED BY <1>1, <1>3, <1>4 DEF k

\* The last bit of the frame ends the last word, and the length is in the first.
LEMMA LastPlace ==
  ASSUME NEW k \in BodyPos
  PROVE  /\ ByteAt(k) <= N
         /\ k = FrameLen <=> ByteAt(k) = N
         /\ k = FrameLen => SlotAt(k) = WordBits
         /\ SlotAt(k) < WordBits /\ ByteAt(k) \in {0, 1} => k <= PreambleLen + WordBits
<1> DEFINE q == WordAt(k)
           i == SlotAt(k)
           m == N \div 2
           h == i \div ByteBits
<1>1. /\ q \in 0 .. m - 1 /\ i \in 0 .. WordBits /\ m \in Nat /\ N = 2 * m
      /\ (k = FrameLen <=> q = m - 1 /\ i = WordBits)
      /\ k - PreambleLen - 1 = (WordBits + 1) * q + i
  BY Position, FrameSize
<1>2. h \in {0, 1, 2} /\ (i < WordBits <=> h # 2)
  BY <1>1, SlotSplit
<1>3. ByteAt(k) = 2 * q + h
  BY DEF ByteAt
<1> HIDE DEF q, i, m, h
<1>4. ByteAt(k) <= N
  BY <1>1, <1>2, <1>3
<1>5. k = FrameLen <=> ByteAt(k) = N
  BY <1>1, <1>2, <1>3, Sizes
<1>6. ASSUME i < WordBits, ByteAt(k) \in {0, 1} PROVE k <= PreambleLen + WordBits
  <2>1. q = 0
    BY <1>1, <1>2, <1>3, <1>6
  <2>2. (WordBits + 1) * q = 0
    BY <2>1, Sizes
  <2> QED BY <1>1, <1>6, <2>2, FrameSize, Sizes DEF BodyPos
<1> QED BY <1>1, <1>4, <1>5, <1>6 DEF i

\* Every bit shifts the register.
LEMMA Shifted ==
  ASSUME NEW d \in Bit \cup {Unknown}, Pump(d)
  PROVE  zeros' = IF Guess(d) = 1 THEN 0 ELSE IF zeros = Zeros THEN Zeros ELSE zeros + 1
BY DEF Pump, Preamble, SyncBit, SkippedBit, DataBit, LastBit, ShiftRegister

\* A zero of the preamble, read by a decoder that waits for one.
LEMMA ZeroRead ==
  ASSUME TypeOK, NEW d \in Bit \cup {Unknown}, found = FALSE, Guess(d) = 0, Pump(d)
  PROVE  found' = FALSE /\ (Primed => Primed')
<1>1. CASE SyncBit(d)
  <2>1. found' = FALSE /\ buf' \in {buf, LengthCleared(buf)}
    BY <1>1 DEF SyncBit, ResetBuffer
  <2>2. ASSUME NEW o \in 2 .. N - 1 PROVE LengthCleared(buf)[o] = buf[o]
    <3>1. o \in Offsets /\ o # 0 /\ o # 1
      BY PacketNumbers, Sizes DEF Offsets
    <3> QED BY <3>1 DEF LengthCleared, TypeOK
  <2> QED BY <2>1, <2>2 DEF Primed
<1>2. CASE SkippedBit(d)
  BY <1>2 DEF SkippedBit, Primed
<1>3. ~Preamble(d)
  BY DEF Preamble, EndsPreamble
<1>4. ~DataBit(d) /\ ~LastBit(d)
  BY DEF DataBit, LastBit
<1> QED BY <1>1, <1>2, <1>3, <1>4 DEF Pump

\* The end of the preamble, whatever the decoder was at.
LEMMA PreambleRead ==
  ASSUME TypeOK, NEW d \in Bit \cup {Unknown}, zeros = Zeros, Guess(d) = 1, Pump(d)
  PROVE  InStep(PreambleLen + 1)' /\ ReadSoFar' /\ (Primed => Primed') /\ packet' = NoPacket
<1>1. Preamble(d)
  BY DEF Pump, EndsPreamble, SyncBit, SkippedBit, DataBit, LastBit
<1>2. /\ zeros' = 0 /\ found' /\ bitsProcessed' = 0 /\ packet' = NoPacket
      /\ bufOffset' = 0 /\ bitsWritten' = 0 /\ buf' = LengthCleared(buf)
  BY <1>1 DEF Preamble, ShiftRegister, ResetBuffer
<1>3. InStep(PreambleLen + 1)'
  BY <1>2, FirstPlace DEF InStep
<1>4. ReadSoFar'
  <2>1. \A o \in Nat, i \in BitPos : ~Before(o, i, 0, 0)
    BY Sizes DEF Before, BitPos
  <2>2. buf'[0] = ZeroByte /\ buf'[1] = ZeroByte
    BY <1>2, Sizes DEF LengthCleared, TypeOK, Offsets
  <2> QED BY <1>2, <2>1, <2>2 DEF ReadSoFar, ZeroByte
<1>5. ASSUME NEW o \in 2 .. N - 1 PROVE buf'[o] = buf[o]
  <2>1. o \in Offsets /\ o # 0 /\ o # 1
    BY PacketNumbers, Sizes DEF Offsets
  <2> QED BY <1>2, <2>1 DEF LengthCleared, TypeOK
<1> QED BY <1>2, <1>3, <1>4, <1>5 DEF Primed

\* Inside a frame zeros cannot look like a preamble.
LEMMA NoPreamble ==
  ASSUME TypeOK, zeros <= bitsProcessed, NEW d
  PROVE  zeros < Zeros /\ ~EndsPreamble(d)
BY Sizes DEF TypeOK, EndsPreamble

\* A sync bit inside the frame.
LEMMA SyncRead ==
  ASSUME TypeOK, NEW k \in BodyPos, k # FrameLen, SlotAt(k) = WordBits,
         InStep(k), ReadSoFar, NEW d \in {1, Unknown}, Pump(d)
  PROVE  InStep(k + 1)' /\ ReadSoFar' /\ (Primed => Primed') /\ packet' = NoPacket
<1>1. ~EndsPreamble(d) /\ SyncSlot /\ found /\ d # 0
  BY NoPreamble, Sizes DEF InStep, SyncSlot, Unknown
<1>2. SyncBit(d)
  BY <1>1 DEF Pump, Preamble, SkippedBit, DataBit, LastBit
<1>3. /\ bitsProcessed' = 0 /\ packet' = NoPacket
      /\ UNCHANGED <<buf, bufOffset, bitsWritten, found>>
  BY <1>1, <1>2 DEF SyncBit
<1>4. zeros' = 0
  BY <1>1, <1>2 DEF SyncBit, ShiftRegister, Guess
<1>5. /\ SlotAt(k + 1) = 0 /\ ByteAt(k + 1) = ByteAt(k) /\ BitAt(k + 1) = BitAt(k)
  BY NextPosition, Place
<1> QED BY <1>1, <1>3, <1>4, <1>5 DEF InStep, ReadSoFar, Primed

\* The last sync bit, read after the packet was handed over.
LEMMA EndRead ==
  ASSUME TypeOK, AtEnd, Pump(1)
  PROVE  found' = FALSE /\ zeros' = 0 /\ Primed'
<1>1. ~EndsPreamble(1) /\ SyncSlot
  BY NoPreamble, Sizes DEF AtEnd, SyncSlot
<1>2. SyncBit(1)
  BY <1>1 DEF Pump, Preamble, SkippedBit, DataBit, LastBit
<1> QED BY <1>2 DEF SyncBit, ShiftRegister, Guess, Unknown, AtEnd, Primed

\* The bits of the buffer in order.
LEMMA NextBefore ==
  ASSUME TypeOK, NEW p \in Nat, NEW r \in Nat,
         IF bitsWritten + 1 > ByteBits - 1 THEN p = bufOffset + 1 /\ r = 0
                                           ELSE p = bufOffset /\ r = bitsWritten + 1
  PROVE  \A o \in Nat, i \in BitPos :
           Before(o, i, p, r) <=>
             Before(o, i, bufOffset, bitsWritten) \/ (o = bufOffset /\ i = bitsWritten)
<1>1. bufOffset \in Nat /\ bitsWritten \in 0 .. ByteBits - 1 /\ ByteBits \in Nat
  BY Sizes DEF TypeOK, Offsets, BitPos
<1> QED BY <1>1 DEF Before, BitPos

\* A data bit of the frame, or the one the last frame left in its place.
LEMMA BitRead ==
  ASSUME TypeOK, NEW k \in BodyPos, SlotAt(k) < WordBits, InStep(k), ReadSoFar,
         NEW d \in Bit \cup {Unknown}, d \in {FrameBit(k), Unknown},
         d = Unknown => Primed /\ (k <= PreambleLen + WordBits => FrameBit(k) = 0)
  PROVE  /\ Written(d) \in [Offsets -> Byte]
         /\ \A o \in 0 .. N - 1, i \in BitPos :
              Before(o, i, ByteAt(k + 1), BitAt(k + 1)) => Written(d)[o][i] = SentBytes[o + 1][i]
         /\ \A o \in {0, 1}, i \in BitPos :
              ~Before(o, i, ByteAt(k + 1), BitAt(k + 1)) => Written(d)[o][i] = 0
         /\ Primed => \A o \in 2 .. N - 1 : Written(d)[o] = SentBytes[o + 1]
<1> DEFINE p == ByteAt(k)
           r == BitAt(k)
           x == SentBytes[p + 1][r]
<1>1. /\ p \in 0 .. N - 1 /\ r \in BitPos /\ FrameBit(k) = x /\ x \in Bit
      /\ bufOffset = p /\ bitsWritten = r
  BY Place DEF InStep
<1>2. Written(d) \in [Offsets -> Byte]
  BY WrittenTyped
<1>3. N \in Nat /\ N >= 6 /\ N < BufBytes
  BY PacketNumbers
<1>4. p \in Offsets /\ \A o \in 0 .. N - 1 : o \in Offsets
  BY <1>1, <1>3, Sizes DEF Offsets
<1>5. \A o \in Offsets, i \in BitPos : ~(o = p /\ i = r) => Written(d)[o][i] = buf[o][i]
  BY <1>1, <1>4 DEF Written, TypeOK, Byte
<1>6. Written(d)[p][r] = x
  <2>1. CASE d # Unknown
    <3>1. d = x
      BY <1>1, <2>1
    <3> QED BY <1>1, <1>4, <2>1, <3>1 DEF Written, TypeOK, Byte
  <2>2. CASE d = Unknown
    <3>1. Written(d) = buf
      BY <2>2 DEF Written
    <3>2. CASE p \in {0, 1}
      <4>1. x = 0
        BY <1>1, <2>2, <3>2, LastPlace
      <4>2. ~Before(p, r, p, r)
        BY <1>1, Sizes DEF Before, BitPos
      <4> QED BY <1>1, <3>1, <3>2, <4>1, <4>2 DEF ReadSoFar
    <3>3. CASE p \notin {0, 1}
      <4>1. p \in 2 .. N - 1
        BY <1>1, <1>3, <3>3
      <4> QED BY <2>2, <3>1, <4>1 DEF Primed
    <3> QED BY <3>2, <3>3
  <2> QED BY <2>1, <2>2
<1>7. \A o \in Nat, i \in BitPos :
        Before(o, i, ByteAt(k + 1), BitAt(k + 1)) <=> Before(o, i, p, r) \/ (o = p /\ i = r)
  <2>1. /\ ByteAt(k + 1) \in Nat /\ BitAt(k + 1) \in Nat
        /\ IF r + 1 > ByteBits - 1 THEN ByteAt(k + 1) = p + 1 /\ BitAt(k + 1) = 0
                                   ELSE ByteAt(k + 1) = p /\ BitAt(k + 1) = r + 1
    BY <1>1, Place, Sizes DEF BitPos
  <2> HIDE DEF p, r
  <2> QED BY <1>1, <2>1, NextBefore
<1> HIDE DEF p, r, x
<1>8. ASSUME NEW o \in 0 .. N - 1, NEW i \in BitPos, Before(o, i, ByteAt(k + 1), BitAt(k + 1))
      PROVE  Written(d)[o][i] = SentBytes[o + 1][i]
  <2>1. o \in Nat /\ o \in Offsets
    BY <1>3, <1>4
  <2>2. CASE o = p /\ i = r
    BY <1>6, <2>2 DEF x
  <2>3. CASE ~(o = p /\ i = r)
    <3>1. Before(o, i, p, r)
      BY <1>7, <1>8, <2>1, <2>3
    <3> QED BY <1>1, <1>5, <2>1, <2>3, <3>1 DEF ReadSoFar
  <2> QED BY <2>2, <2>3
<1>9. ASSUME NEW o \in {0, 1}, NEW i \in BitPos, ~Before(o, i, ByteAt(k + 1), BitAt(k + 1))
      PROVE  Written(d)[o][i] = 0
  <2>1. o \in Nat /\ o \in Offsets
    BY <1>3, <1>4
  <2>2. ~Before(o, i, p, r) /\ ~(o = p /\ i = r)
    BY <1>7, <1>9, <2>1
  <2> QED BY <1>1, <1>5, <2>1, <2>2 DEF ReadSoFar
<1>10. ASSUME Primed, NEW o \in 2 .. N - 1 PROVE Written(d)[o] = SentBytes[o + 1]
  <2>1. o \in 0 .. N - 1 /\ o \in Offsets /\ o + 1 \in 1 .. N
    BY <1>3, <1>4
  <2>2. buf[o] = SentBytes[o + 1]
    BY <1>10 DEF Primed
  <2>3. Written(d)[o] \in Byte /\ buf[o] \in Byte
    BY <1>2, <2>1 DEF TypeOK
  <2>4. ASSUME NEW i \in BitPos PROVE Written(d)[o][i] = buf[o][i]
    <3>1. CASE o = p /\ i = r
      BY <1>6, <2>2, <3>1 DEF x
    <3>2. CASE ~(o = p /\ i = r)
      BY <1>5, <2>1, <3>2
    <3> QED BY <3>1, <3>2
  <2> QED BY <2>2, <2>3, <2>4 DEF Byte
<1> QED BY <1>2, <1>8, <1>9, <1>10

\* When the bytes before a place are read, the packet is complete if they are all.
LEMMA CompleteAtEnd ==
  ASSUME NEW b \in [Offsets -> Byte], NEW p \in 0 .. N,
         \A o \in 0 .. N - 1 : o < p => b[o] = SentBytes[o + 1]
  PROVE  p >= Padded(b) + 6 <=> p = N
<1>1. N \in Nat /\ N >= 6 /\ N = SentLength + Padding + 6 /\ SentLength + Padding \in Nat
  BY PacketNumbers, PacketSize
<1>2. CASE p >= 2
  <2>1. 0 \in 0 .. N - 1 /\ 1 \in 0 .. N - 1 /\ 0 < p /\ 1 < p
    BY <1>1, <1>2
  <2>2. b[0] = SentBytes[0 + 1] /\ b[1] = SentBytes[1 + 1]
    BY <2>1
  <2>3. Padded(b) = SentLength + Padding
    BY <2>2, HeaderRead
  <2> QED BY <1>1, <2>3
<1>3. CASE p < 2
  BY <1>1, <1>3, PaddedNat
<1> QED BY <1>1, <1>2, <1>3

\* A data bit of the frame is read: the last one completes the packet, no other.
LEMMA DataRead ==
  ASSUME TypeOK, NEW k \in BodyPos, SlotAt(k) < WordBits, InStep(k), ReadSoFar,
         NEW d \in Bit \cup {Unknown}, d \in {FrameBit(k), Unknown},
         d = Unknown => Primed /\ (k <= PreambleLen + WordBits => FrameBit(k) = 0),
         Pump(d)
  PROVE  IF k + 1 = FrameLen
           THEN AtEnd' /\ packet' = <<SentPayload>>
           ELSE InStep(k + 1)' /\ ReadSoFar' /\ (Primed => Primed') /\ packet' = NoPacket
<1> DEFINE W == Written(d)
           p == ByteAt(k + 1)
           r == BitAt(k + 1)
<1>1. /\ W \in [Offsets -> Byte]
      /\ \A o \in 0 .. N - 1, i \in BitPos : Before(o, i, p, r) => W[o][i] = SentBytes[o + 1][i]
      /\ \A o \in {0, 1}, i \in BitPos : ~Before(o, i, p, r) => W[o][i] = 0
      /\ Primed => \A o \in 2 .. N - 1 : W[o] = SentBytes[o + 1]
  BY BitRead
<1>2. N \in Nat /\ N >= 6 /\ N < BufBytes
  BY PacketNumbers
<1>3. k # FrameLen /\ k + 1 \in BodyPos /\ SlotAt(k + 1) = SlotAt(k) + 1 /\ SlotAt(k) \in Nat
  <2>1. k # FrameLen
    BY LastPlace, Sizes
  <2> QED BY <2>1, NextPosition, Position, Sizes
<1>4. p \in 0 .. N /\ (k + 1 = FrameLen <=> p = N) /\ (k + 1 = FrameLen => SlotAt(k + 1) = WordBits)
  BY <1>2, <1>3, LastPlace, Place
<1>5. /\ bufOffset \in 0 .. N - 1 /\ bitsWritten \in BitPos
      /\ IF bitsWritten + 1 > ByteBits - 1 THEN p = bufOffset + 1 /\ r = 0
                                           ELSE p = bufOffset /\ r = bitsWritten + 1
  BY Place DEF InStep
<1>6. OffsetAfter = p /\ (IF ByteDone THEN 0 ELSE bitsWritten + 1) = r /\ ~Wraps
  BY <1>2, <1>5, Sizes DEF OffsetAfter, ByteDone, Wraps
<1>7. ~EndsPreamble(d) /\ ~SyncSlot /\ found /\ bitsProcessed = SlotAt(k) /\ zeros <= bitsProcessed
      /\ zeros < Zeros /\ zeros \in Nat
  BY <1>3, NoPreamble, Sizes DEF InStep, SyncSlot, TypeOK
<1>8. DataBit(d) \/ LastBit(d)
  BY <1>7 DEF Pump, Preamble, SyncBit, SkippedBit
<1>9. zeros' \in {0, zeros + 1} /\ bitsProcessed' = bitsProcessed + 1
  BY <1>7, <1>8 DEF DataBit, LastBit, ShiftRegister
<1>10. zeros' <= bitsProcessed' /\ bitsProcessed' = SlotAt(k + 1)
  BY <1>3, <1>7, <1>9
<1> HIDE DEF W, p, r
<1>11. ASSUME NEW o \in 0 .. N - 1, o < p PROVE W[o] = SentBytes[o + 1]
  <2>1. o \in Offsets /\ o + 1 \in 1 .. N
    BY <1>2, Sizes DEF Offsets
  <2>2. W[o] \in Byte /\ SentBytes[o + 1] \in Byte
    BY <1>1, <2>1, PacketBytes, ElementOfSeq DEF N
  <2>3. \A i \in BitPos : W[o][i] = SentBytes[o + 1][i]
    BY <1>1, <1>11 DEF Before
  <2> QED BY <2>2, <2>3 DEF Byte
<1>12. Complete(W) <=> k + 1 = FrameLen
  BY <1>1, <1>4, <1>6, <1>11, CompleteAtEnd DEF Complete
<1>13. CASE k + 1 = FrameLen
  <2>1. LastBit(d)
    BY <1>8, <1>12, <1>13 DEF DataBit, W
  <2>2. /\ found' = FALSE /\ buf' = LengthCleared(W)
        /\ packet' = IF CrcMatches(Payload(W), Crc(W)) THEN <<Payload(W)>> ELSE NoPacket
    BY <2>1 DEF LastBit, ResetBuffer, W
  <2>3. \A o \in 0 .. N - 1 : W[o] = SentBytes[o + 1]
    BY <1>2, <1>4, <1>11, <1>13
  <2>4. packet' = <<SentPayload>>
    BY <1>1, <2>2, <2>3, PacketRead
  <2>5. ASSUME NEW o \in 2 .. N - 1 PROVE buf'[o] = SentBytes[o + 1]
    <3>1. o \in Offsets /\ o # 0 /\ o # 1 /\ o \in 0 .. N - 1
      BY <1>2, Sizes DEF Offsets
    <3> QED BY <1>1, <2>2, <2>3, <3>1 DEF LengthCleared
  <2>6. bitsProcessed' = WordBits
    BY <1>4, <1>10, <1>13
  <2> QED BY <1>10, <1>13, <2>2, <2>4, <2>5, <2>6 DEF AtEnd, Primed
<1>14. CASE k + 1 # FrameLen
  <2>1. DataBit(d)
    BY <1>8, <1>12, <1>14 DEF LastBit, W
  <2>2. /\ buf' = W /\ bufOffset' = p /\ bitsWritten' = r /\ packet' = NoPacket
    BY <1>6, <2>1 DEF DataBit, W
  <2>3. found'
    BY <1>6, <2>1 DEF DataBit
  <2>4. InStep(k + 1)'
    BY <1>10, <2>2, <2>3 DEF InStep, p, r
  <2>5. ReadSoFar'
    BY <1>1, <2>2 DEF ReadSoFar
  <2>6. Primed => Primed'
    BY <1>1, <2>2 DEF Primed
  <2> QED BY <1>14, <2>2, <2>4, <2>5, <2>6
<1> QED BY <1>13, <1>14

\* A frame that is disturbed is owed nothing, and one that begins only that the
\* packet of a clean one before it is still there.
LEMMA Disturbed ==
  ASSUME pos' \in 1 .. FrameLen, disturbed' = TRUE
  PROVE  LinkInv'
BY DEF LinkInv, Clean, Filled

\* A frame begins: the decoder is idle, or it will not be in step.
LEMMA Begins ==
  ASSUME TypeOK', pos' = 1, disturbed' = FALSE, Filled' => Idle(1)'
  PROVE  LinkInv'
<1>1. 1 \in 1 .. FrameLen /\ 1 <= PreambleLen /\ 1 # FrameLen /\ ~(1 > PreambleLen) /\ 1 - 1 = 0
  BY FrameSize, Sizes
<1>2. zeros' >= 0
  BY Sizes DEF TypeOK
<1>3. Filled' => Idle(pos)'
  BY DEF Idle
<1> QED BY <1>1, <1>2, <1>3 DEF LinkInv

\* A bit of the frame that is sent as it is or skipped, but for the last.
LEMMA BitKeeps ==
  ASSUME IInv, LinkInv, pos # FrameLen, NEW d \in Bit \cup {Unknown}, Pump(d),
         \/ d = FrameBit(pos) /\ Advance(disturbed, unknown)
         \/ d = Unknown /\ Advance(disturbed, unknown \cup {pos})
  PROVE  LinkInv'
<1>a. TypeOK
  BY DEF IInv
<1>b. PICK k \in 1 .. FrameLen : k = pos
  BY DEF LinkInv
<1>c. /\ k # FrameLen /\ pos' = k + 1 /\ disturbed' = disturbed /\ lastClean' = lastClean
      /\ got' = IF k = PreambleLen THEN 0 ELSE got + Count(packet')
  BY <1>b DEF Advance
<1>d. /\ Clean' => Clean /\ d = FrameBit(k)
      /\ Filled' => Filled /\ (d = FrameBit(k) \/ (d = Unknown /\ k \notin Essential))
      /\ Clean /\ lastClean => Filled
  <2>0. Essential' = Essential
    BY DEF Essential
  <2>1. CASE d = FrameBit(pos) /\ Advance(disturbed, unknown)
    <3>1. unknown' = unknown
      BY <1>b, <1>c, <2>1 DEF Advance
    <3> QED BY <1>b, <1>c, <2>0, <2>1, <3>1 DEF Clean, Filled
  <2>2. CASE d = Unknown /\ Advance(disturbed, unknown \cup {pos})
    <3>1. unknown' = unknown \cup {k}
      BY <1>b, <1>c, <2>2 DEF Advance
    <3> QED BY <1>b, <1>c, <2>0, <2>2, <3>1 DEF Clean, Filled
  <2> QED BY <2>1, <2>2
<1>e. /\ PreambleLen \in Nat /\ PreambleLen = Zeros + 1 /\ FrameLen \in Nat /\ Zeros \in Nat
      /\ FrameLen > PreambleLen + 1 /\ k + 1 \in 1 .. FrameLen /\ Zeros > 1
  BY <1>c, FrameSize, Sizes DEF PreambleLen
<1>f. /\ Clean /\ k <= PreambleLen => zeros >= k - 1
      /\ Filled /\ k <= PreambleLen => found = FALSE /\ zeros = k - 1 /\ Primed
      /\ (Clean \/ Filled) /\ k > PreambleLen =>
           InStep(k) /\ ReadSoFar /\ (lastClean => Primed) /\ got = 0
  BY <1>b, <1>c DEF LinkInv, Idle
<1>1. CASE k < PreambleLen
  <2>1. FrameBit(k) = 0 /\ k <= Zeros /\ k + 1 <= PreambleLen /\ k + 1 # FrameLen
        /\ (k + 1) - 1 = k
    BY <1>1, <1>e DEF FrameBit
  <2>2. zeros' = IF Guess(d) = 1 THEN 0 ELSE IF zeros = Zeros THEN Zeros ELSE zeros + 1
    BY Shifted
  <2>3. ASSUME Clean' PROVE zeros' >= k
    <3>1. zeros >= k - 1 /\ d = 0
      BY <1>1, <1>d, <1>e, <1>f, <2>1, <2>3
    <3>2. Guess(d) = 0
      BY <3>1 DEF Guess, Unknown
    <3> QED BY <1>a, <1>e, <2>1, <2>2, <3>1, <3>2 DEF TypeOK
  <2>4. ASSUME Filled' PROVE Idle(k + 1)'
    <3>1. found = FALSE /\ zeros = k - 1 /\ Primed
      BY <1>1, <1>d, <1>e, <1>f, <2>4
    <3>2. Guess(d) = 0
      <4>1. CASE d = FrameBit(k)
        BY <2>1, <4>1 DEF Guess, Unknown
      <4>2. CASE d = Unknown /\ k \notin Essential
        <5>1. k # PreambleLen - 1
          BY <4>2 DEF Essential
        <5>2. ~(zeros >= Zeros - 1)
          BY <1>1, <1>e, <3>1, <5>1
        <5> QED BY <3>1, <4>2, <5>2 DEF Guess
      <4> QED BY <1>d, <2>4, <4>1, <4>2
    <3>3. found' = FALSE /\ Primed'
      BY <1>a, <3>1, <3>2, ZeroRead
    <3>4. zeros' = k
      BY <1>e, <2>1, <2>2, <3>1, <3>2
    <3> QED BY <2>1, <3>3, <3>4 DEF Idle
  <2>5. Filled' => Idle(pos)'
    BY <1>c, <2>4 DEF Idle
  <2>6. /\ pos' \in 1 .. FrameLen /\ pos' # FrameLen /\ ~(pos' > PreambleLen) /\ pos' - 1 = k
        /\ disturbed' \in BOOLEAN
    BY <1>c, <1>e, <2>1 DEF LinkInv
  <2> QED BY <2>3, <2>5, <2>6 DEF LinkInv
<1>2. CASE k = PreambleLen
  <2> SUFFICES ASSUME Clean' \/ Filled'
               PROVE  InStep(k + 1)' /\ ReadSoFar' /\ (lastClean' => Primed')
    BY <1>2, <1>c, <1>e DEF LinkInv
  <2>1. zeros = Zeros /\ (Filled => Primed /\ found = FALSE)
    BY <1>2, <1>a, <1>d, <1>e, <1>f DEF TypeOK
  <2>2. Guess(d) = 1
    <3>1. FrameBit(k) = 1
      BY <1>2, <1>e DEF FrameBit
    <3>2. CASE d = FrameBit(k)
      BY <3>1, <3>2 DEF Guess, Unknown
    <3>3. CASE d = Unknown /\ Filled
      BY <1>e, <2>1, <3>3 DEF Guess
    <3> QED BY <1>d, <3>2, <3>3
  <2>3. InStep(PreambleLen + 1)' /\ ReadSoFar' /\ (Primed => Primed')
    BY <1>a, <2>1, <2>2, PreambleRead
  <2>4. lastClean' => Primed
    BY <1>c, <1>d, <2>1
  <2> QED BY <1>2, <2>3, <2>4
<1>3. CASE k > PreambleLen
  <2> SUFFICES ASSUME Clean' \/ Filled'
               PROVE  IF k + 1 = FrameLen
                        THEN AtEnd' /\ Delivered'
                        ELSE InStep(k + 1)' /\ ReadSoFar' /\ (lastClean' => Primed') /\ got' = 0
    BY <1>3, <1>c, <1>e DEF LinkInv
  <2>1. InStep(k) /\ ReadSoFar /\ (lastClean => Primed) /\ got = 0
    BY <1>3, <1>d, <1>f
  <2>2. k \in BodyPos /\ k # PreambleLen
    BY <1>3, <1>e DEF BodyPos
  <2>3. d = FrameBit(k) \/ (d = Unknown /\ lastClean /\ k \notin Essential)
    BY <1>d DEF Filled
  <2>4. CASE SlotAt(k) = WordBits
    <3>1. d \in {1, Unknown}
      BY <2>2, <2>3, <2>4, Place
    <3>2. InStep(k + 1)' /\ ReadSoFar' /\ (Primed => Primed') /\ packet' = NoPacket
      BY <1>a, <1>c, <2>1, <2>2, <2>4, <3>1, SyncRead
    <3>3. k + 1 # FrameLen
      BY <1>c, <2>2, <2>4, NextPosition, LastPlace, Sizes
    <3>4. got' = 0
      BY <1>c, <2>1, <2>2, <3>2 DEF Count
    <3> QED BY <1>c, <2>1, <3>2, <3>3, <3>4
  <2>5. CASE SlotAt(k) # WordBits
    <3>1. SlotAt(k) < WordBits
      BY <2>2, <2>5, Position, Sizes
    <3>2. d = Unknown => Primed /\ (k <= PreambleLen + WordBits => FrameBit(k) = 0)
      <4>1. FrameBit(k) \in {0, 1} /\ FrameBit(k) # Unknown
        BY <2>2, Place DEF Bit, Unknown
      <4> SUFFICES ASSUME d = Unknown, k <= PreambleLen + WordBits, FrameBit(k) = 1 PROVE FALSE
        BY <2>1, <2>3, <4>1
      <4>2. k \in PreambleLen + 1 .. PreambleLen + WordBits
        BY <1>3, <1>e, Sizes
      <4> QED BY <2>3, <4>1, <4>2 DEF Essential
    <3>3. IF k + 1 = FrameLen
            THEN AtEnd' /\ packet' = <<SentPayload>>
            ELSE InStep(k + 1)' /\ ReadSoFar' /\ (Primed => Primed') /\ packet' = NoPacket
      BY <1>a, <2>1, <2>2, <2>3, <3>1, <3>2, DataRead
    <3>4. CASE k + 1 = FrameLen
      <4>1. Count(packet') = 1
        BY <3>3, <3>4 DEF Count, NoPacket
      <4> QED BY <1>c, <2>1, <2>2, <3>3, <3>4, <4>1 DEF Delivered
    <3>5. CASE k + 1 # FrameLen
      BY <1>c, <2>1, <2>2, <3>3, <3>5 DEF Count
    <3> QED BY <3>4, <3>5
  <2> QED BY <2>4, <2>5
<1> QED BY <1>1, <1>2, <1>3, <1>e

\* The last bit of the frame: a clean one leaves the packet in the buffer.
LEMMA LastBitKeeps ==
  ASSUME LinkInv, TypeOK, TypeOK', pos = FrameLen, NEW x \in BOOLEAN, NEW u, Advance(x, u),
         ~x /\ u = {} => Clean /\ Pump(1)
  PROVE  LinkInv'
<1>1. pos' = 1 /\ disturbed' = FALSE /\ lastClean' = (~x /\ u = {})
  BY DEF Advance
<1>2. ASSUME Filled' PROVE Idle(1)'
  <2>1. Clean /\ Pump(1)
    BY <1>1, <1>2 DEF Filled
  <2>2. AtEnd
    BY <2>1 DEF LinkInv
  <2> QED BY <2>1, <2>2, EndRead DEF Idle
<1> QED BY <1>1, <1>2, Begins

\* The frame is made of bits.
LEMMA FrameBits == LinkInv => FrameBit(pos) \in Bit
<1> SUFFICES ASSUME LinkInv PROVE FrameBit(pos) \in Bit
  OBVIOUS
<1>1. CASE pos <= PreambleLen
  BY <1>1, FrameSize DEF FrameBit, Bit, LinkInv
<1>2. CASE ~(pos <= PreambleLen)
  <2>1. pos \in BodyPos
    BY <1>2, FrameSize DEF BodyPos, LinkInv
  <2> QED BY <2>1, Place
<1> QED BY <1>1, <1>2

\* No step of the link breaks the invariant.
LEMMA LinkStep == IInv /\ LinkInv /\ [LinkNext]_allVars => IInv' /\ LinkInv'
<1> SUFFICES ASSUME IInv, LinkInv, [LinkNext]_allVars PROVE IInv' /\ LinkInv'
  OBVIOUS
<1>a. FrameBit(pos) \in Bit /\ 1 - FrameBit(pos) \in Bit
  BY FrameBits DEF Bit
<1>b. pos \in 1 .. FrameLen /\ FrameLen \in Nat /\ TypeOK
  BY FrameSize DEF LinkInv, IInv
<1>c. ASSUME NEW x \in BOOLEAN, NEW u, Advance(x, u) PROVE pos' \in 1 .. FrameLen
  BY <1>b, <1>c DEF Advance
<1>d. ASSUME NEW d \in Bit \cup {Unknown}, Pump(d) PROVE IInv'
  BY <1>d, PumpKeeps
<1>e. disturbed \in BOOLEAN
  BY DEF LinkInv
<1>1. CASE Send
  <2>1. Pump(FrameBit(pos)) /\ Advance(disturbed, unknown)
    BY <1>1 DEF Send
  <2>2. IInv' /\ TypeOK'
    BY <1>a, <1>d, <2>1 DEF IInv
  <2>3. CASE pos = FrameLen
    <3>1. FrameBit(FrameLen) = 1
      <4>1. FrameLen \in BodyPos
        BY FrameSize, Sizes DEF BodyPos
      <4> QED BY <4>1, LastPlace, Place
    <3> QED BY <1>b, <1>e, <2>1, <2>2, <2>3, <3>1, LastBitKeeps DEF Clean
  <2>4. CASE pos # FrameLen
    BY <1>a, <2>1, <2>2, <2>4, BitKeeps
  <2> QED BY <2>2, <2>3, <2>4
<1>2. CASE Skip
  <2>1. Pump(Unknown) /\ Advance(disturbed, unknown \cup {pos})
    BY <1>2 DEF Skip
  <2>2. IInv' /\ TypeOK'
    BY <1>d, <2>1 DEF IInv
  <2>3. CASE pos = FrameLen
    <3>1. unknown \cup {pos} # {}
      OBVIOUS
    <3> QED BY <1>b, <1>e, <2>1, <2>2, <2>3, <3>1, LastBitKeeps
  <2>4. CASE pos # FrameLen
    BY <2>1, <2>2, <2>4, BitKeeps
  <2> QED BY <2>2, <2>3, <2>4
<1>3. CASE Flip \/ Lose
  <2>1. Advance(TRUE, unknown)
    BY <1>3 DEF Flip, Lose
  <2>2. IInv' /\ TypeOK'
    <3>1. CASE Flip
      BY <1>a, <1>d, <3>1 DEF Flip, IInv
    <3>2. CASE Lose
      BY <3>2 DEF Lose, IInv, TypeOK, WordsAligned, PlaceInWord, IdleAtStart
    <3> QED BY <1>3, <3>1, <3>2
  <2>3. CASE pos = FrameLen
    BY <1>b, <2>1, <2>2, <2>3, LastBitKeeps
  <2>4. CASE pos # FrameLen
    <3>1. disturbed' = TRUE
      BY <2>1, <2>4 DEF Advance
    <3> QED BY <1>c, <2>1, <2>2, <3>1, Disturbed
  <2> QED BY <2>2, <2>3, <2>4
<1>4. CASE Repeat
  BY <1>a, <1>b, <1>d, <1>4, Disturbed DEF Repeat
<1>5. CASE UNCHANGED allVars
  <2>1. UNCHANGED decoderVars /\ UNCHANGED linkVars
    BY <1>5 DEF allVars
  <2>2. IInv'
    BY <2>1, StepIInv
  <2> QED BY <2>1, <2>2 DEF decoderVars, linkVars, LinkInv, Clean, Filled, InStep, Idle, AtEnd,
                            ReadSoFar, Primed, Delivered
<1> QED BY <1>1, <1>2, <1>3, <1>4, <1>5 DEF LinkNext

\* The lighthouse and the decoder start in step.
LEMMA LinkStarts == LinkInit => IInv /\ LinkInv
<1> SUFFICES ASSUME LinkInit PROVE IInv /\ LinkInv
  OBVIOUS
<1>1. Init /\ pos = 1 /\ disturbed = FALSE /\ lastClean = FALSE /\ zeros = 0
  BY DEF LinkInit, Init
<1>2. 1 \in 1 .. FrameLen /\ 1 # FrameLen /\ ~(1 > PreambleLen) /\ 1 - 1 = 0
  BY FrameSize, Sizes
<1>3. ~Filled
  BY <1>1 DEF Filled
<1>4. 1 <= PreambleLen /\ zeros >= 1 - 1
  BY <1>1, FrameSize, Sizes
<1>5. LinkInv
  BY <1>1, <1>2, <1>3, <1>4 DEF LinkInv
<1> QED BY <1>1, <1>5, InitIInv

\* Both invariants hold throughout.
LEMMA LinkInvariant == LinkSpec => [](IInv /\ LinkInv)
BY LinkStarts, LinkStep, PTL DEF LinkSpec

\* Resynchronisation: any packet that fits is handed over when its frame is
\* read, whatever and however often the link garbled what came before.
THEOREM Resynchronises == LinkSpec => []CleanFrameDelivered
<1>1. LinkInv => CleanFrameDelivered
  BY DEF LinkInv, CleanFrameDelivered, FrameRead, Clean
<1> QED BY <1>1, LinkInvariant, PTL

\* A frame behind a clean one is handed over though rotations were skipped in it.
THEOREM SkipsMadeUp == LinkSpec => []SkipsFilledIn
<1>1. LinkInv => SkipsFilledIn
  BY DEF LinkInv, SkipsFilledIn, FrameRead, Filled
<1> QED BY <1>1, LinkInvariant, PTL
=============================================================================
