------------------------- MODULE LightTimes_proofs -------------------------
(***************************************************************************)
(* What holds of the times for every width, rate and world.  Everything    *)
(* rests on congruence: each conversion keeps its argument modulo the      *)
(* range it has, and two numbers that are congruent and less than the      *)
(* modulus apart are the same.                                             *)
(***************************************************************************)
EXTENDS LightTimes, TLAPS

\* a and b are the same but for a multiple of n.
Same(a, b, n) == \E q \in Int : a - b = q * n

-----------------------------------------------------------------------------
LEMMA DivMod ==
  ASSUME NEW x \in Int, NEW n \in Nat, n > 0
  PROVE  /\ x \div n \in Int /\ x % n \in 0 .. n - 1
         /\ x = (x \div n) * n + (x % n)
  OBVIOUS

LEMMA TimesGrows ==
  ASSUME NEW q \in Int, NEW n \in Nat, n > 0
  PROVE  /\ q >= 1 => q * n >= n
         /\ q <= -1 => q * n <= -n
         /\ q * n \in Int
  OBVIOUS

LEMMA SameSelf ==
  ASSUME NEW a \in Int, NEW n \in Nat
  PROVE  Same(a, a, n)
<1>1. a - a = 0 * n
  OBVIOUS
<1> QED BY <1>1 DEF Same

LEMMA SameFlip ==
  ASSUME NEW a \in Int, NEW b \in Int, NEW n \in Nat, Same(a, b, n)
  PROVE  Same(b, a, n)
<1>1. PICK q \in Int : a - b = q * n
  BY DEF Same
<1>2. b - a = (-q) * n /\ -q \in Int
  BY <1>1
<1> QED BY <1>2 DEF Same

LEMMA SameChain ==
  ASSUME NEW a \in Int, NEW b \in Int, NEW c \in Int, NEW n \in Nat,
         Same(a, b, n), Same(b, c, n)
  PROVE  Same(a, c, n)
<1>1. PICK q \in Int : a - b = q * n
  BY DEF Same
<1>2. PICK r \in Int : b - c = r * n
  BY DEF Same
<1>3. a - c = (q + r) * n /\ q + r \in Int
  BY <1>1, <1>2
<1> QED BY <1>3 DEF Same

LEMMA SamePlus ==
  ASSUME NEW a \in Int, NEW b \in Int, NEW c \in Int, NEW d \in Int, NEW n \in Nat,
         Same(a, b, n), Same(c, d, n)
  PROVE  Same(a + c, b + d, n) /\ Same(a - c, b - d, n)
<1>1. PICK q \in Int : a - b = q * n
  BY DEF Same
<1>2. PICK r \in Int : c - d = r * n
  BY DEF Same
<1>3. (a + c) - (b + d) = (q + r) * n /\ q + r \in Int
  BY <1>1, <1>2
<1>4. (a - c) - (b - d) = (q - r) * n /\ q - r \in Int
  BY <1>1, <1>2
<1> QED BY <1>3, <1>4 DEF Same

\* A time cut to n is the time modulo n.
LEMMA SameMod ==
  ASSUME NEW x \in Int, NEW n \in Nat, n > 0
  PROVE  Same(x, x % n, n) /\ Same(x % n, x, n)
<1>1. x - (x % n) = (x \div n) * n /\ x \div n \in Int /\ x % n \in Int
  BY DivMod
<1>2. Same(x, x % n, n)
  BY <1>1 DEF Same
<1> QED BY <1>1, <1>2, SameFlip

\* A multiple is nothing.
LEMMA SameStep ==
  ASSUME NEW n \in Nat, NEW q \in Int
  PROVE  Same(q * n, 0, n)
<1>1. q * n - 0 = q * n
  OBVIOUS
<1> QED BY <1>1 DEF Same

LEMMA SameCoarser ==
  ASSUME NEW a \in Int, NEW b \in Int, NEW n \in Nat, NEW k \in Nat, Same(a, b, k * n)
  PROVE  Same(a, b, n)
<1>1. PICK q \in Int : a - b = q * (k * n)
  BY DEF Same
<1>2. a - b = (q * k) * n /\ q * k \in Int
  BY <1>1
<1> QED BY <1>2 DEF Same

\* Two times that are the same modulo n and less than n apart are equal.
LEMMA SameNear ==
  ASSUME NEW a \in Int, NEW b \in Int, NEW n \in Nat, n > 0,
         Same(a, b, n), a - b < n, b - a < n
  PROVE  a = b
<1>1. PICK q \in Int : a - b = q * n
  BY DEF Same
<1>2. ~(q >= 1) /\ ~(q <= -1)
  BY <1>1, TimesGrows
<1>3. q = 0
  BY <1>2
<1> QED BY <1>1, <1>3

-----------------------------------------------------------------------------
LEMMA Widths ==
  /\ Short \in Nat /\ Short > 1 /\ Offset \in Nat /\ Offset = 16 * Short
  /\ Clock \in Nat /\ Clock = 16 * Offset /\ Half \in Nat /\ Clock = 2 * Half
  /\ Wide \in Nat /\ Wide >= 2 * Clock
  /\ Second \in Nat /\ 2 * Second < Offset
<1>1. /\ Short \in Nat /\ Short > 1 /\ Offset \in Nat /\ Offset = 16 * Short
      /\ Clock \in Nat /\ Clock = 16 * Offset /\ Half \in Nat /\ Clock = 2 * Half
      /\ Second \in Nat /\ 2 * Second < Offset
  BY TicksAssumption DEF Offset, Clock, Half
<1>2. Epochs \in Nat /\ Epochs > 1
  BY TicksAssumption
<1>3. Epochs * Clock >= 2 * Clock /\ Epochs * Clock \in Nat
  BY <1>1, <1>2
<1> QED BY <1>1, <1>3 DEF Wide

LEMMA Coarser ==
  ASSUME NEW a \in Int, NEW b \in Int
  PROVE  /\ Same(a, b, Wide) => Same(a, b, Clock)
         /\ Same(a, b, Clock) => Same(a, b, Offset)
         /\ Same(a, b, Wide) => Same(a, b, Offset)
         /\ Same(a, b, Clock) => Same(a, b, Short)
<1>0. Epochs \in Nat /\ Clock \in Nat /\ Offset \in Nat /\ Short \in Nat
  BY Widths, TicksAssumption
<1>1. Wide = Epochs * Clock /\ Clock = 16 * Offset /\ Clock = 256 * Short
  BY Widths DEF Wide
<1>2. Same(a, b, Wide) => Same(a, b, Clock)
  BY <1>0, <1>1, SameCoarser
<1>3. Same(a, b, Clock) => Same(a, b, Offset)
  BY <1>0, <1>1, SameCoarser
<1>4. Same(a, b, Clock) => Same(a, b, Short)
  BY <1>0, <1>1, SameCoarser
<1> QED BY <1>2, <1>3, <1>4

\* The first of the values of x cut to n.
LEMMA Floor ==
  ASSUME NEW x \in Nat, NEW n \in Nat, NEW k \in Nat, n > 0, x < k * n
  PROVE  /\ x - (x % n) \in Nat /\ x - (x % n) + n <= k * n
         /\ Same(x - (x % n), 0, n)
<1>1. PICK q \in Int, r \in 0 .. n - 1 : x = q * n + r /\ r = x % n
  BY DivMod
<1>2. q < k
  <2>1. CASE q >= k
    <3>1. q * n >= k * n
      BY <2>1
    <3> QED BY <1>1, <3>1
  <2> QED BY <2>1
<1>3. q >= 0
  <2>1. CASE q <= -1
    BY <1>1, <2>1, TimesGrows
  <2> QED BY <2>1
<1>4. (q + 1) * n <= k * n /\ q * n \in Nat /\ (q + 1) * n = q * n + n
  BY <1>2, <1>3
<1>5. x - (x % n) = q * n
  BY <1>1
<1> QED BY <1>4, <1>5, SameStep

\* The epoch a 64-bit time is in.
LEMMA Epoch ==
  ASSUME NEW t \in 0 .. Wide - 1
  PROVE  /\ t - (t % Clock) \in Nat /\ t - (t % Clock) + Clock <= Wide
         /\ Same(t - (t % Clock), 0, Clock) /\ t % Clock \in 0 .. Clock - 1
<1>1. Wide = Epochs * Clock
  BY DEF Wide
<1>2. t \in Nat /\ Clock \in Nat /\ Clock > 0 /\ Epochs \in Nat /\ t < Epochs * Clock
  BY <1>1, Widths, TicksAssumption
<1>3. /\ t - (t % Clock) \in Nat /\ t - (t % Clock) + Clock <= Epochs * Clock
      /\ Same(t - (t % Clock), 0, Clock)
  BY <1>2, Floor
<1>4. t % Clock \in 0 .. Clock - 1
  BY <1>2, DivMod
<1> QED BY <1>1, <1>3, <1>4

LEMMA OneStep == Same(Clock, 0, Clock)
<1>1. Clock \in Nat /\ Clock - 0 = 1 * Clock
  BY Widths
<1> QED BY <1>1 DEF Same

\* make_long_timecode keeps the 32 bits and stays within 64.
LEMMA LongKept ==
  ASSUME NEW prev \in 0 .. Wide - 1, NEW current \in 0 .. Clock - 1
  PROVE  MakeLong(prev, current) \in 0 .. Wide - 1 /\ Same(MakeLong(prev, current), current, Clock)
<1> DEFINE rtn == current + (prev - (prev % Clock))
<1>1. /\ prev - (prev % Clock) \in Nat /\ prev - (prev % Clock) + Clock <= Wide
      /\ Same(prev - (prev % Clock), 0, Clock)
  BY Epoch
<1>2. rtn \in 0 .. Wide - 1
  BY <1>1, Widths
<1>3. Same(rtn, current, Clock)
  <2>1. Same(current + (prev - (prev % Clock)), current + 0, Clock)
    BY <1>1, SameSelf, SamePlus, Widths
  <2> QED BY <2>1
<1>4. Same(Clock, 0, Clock) /\ Same(rtn + Clock, rtn + 0, Clock) /\ Same(rtn - Clock, rtn - 0, Clock)
  <2>1. rtn \in Int /\ Clock \in Int /\ Clock \in Nat
    BY <1>2, Widths
  <2>2. Same(rtn, rtn, Clock)
    BY <2>1, SameSelf
  <2>3. Same(rtn + Clock, rtn + 0, Clock) /\ Same(rtn - Clock, rtn - 0, Clock)
    <3> HIDE DEF rtn
    <3> QED BY <2>1, <2>2, OneStep, SamePlus
  <2> QED BY <2>3, OneStep
<1>5. Same((rtn + Clock) % Wide, rtn + Clock, Clock) /\ (rtn + Clock) % Wide \in 0 .. Wide - 1
  <2>1. rtn + Clock \in Int /\ Wide \in Nat /\ Wide > 0
    BY <1>2, Widths
  <2>2. Same((rtn + Clock) % Wide, rtn + Clock, Wide) /\ (rtn + Clock) % Wide \in 0 .. Wide - 1
    BY <2>1, SameMod, DivMod
  <2> QED BY <2>1, <2>2, Coarser
<1>6. Same((rtn + Clock) % Wide, current, Clock)
  <2>1. Same((rtn + Clock) % Wide, rtn, Clock)
    BY <1>4, <1>5, SameChain, <1>2, Widths
  <2> QED BY <2>1, <1>3, <1>5, SameChain, <1>2, Widths
<1>7. Same(rtn - Clock, current, Clock)
  BY <1>3, <1>4, SameChain, <1>2, Widths
<1>8. CASE rtn < prev /\ (rtn + Half) % Wide < prev
  BY <1>5, <1>6, <1>8 DEF MakeLong
<1>9. CASE ~(rtn < prev /\ (rtn + Half) % Wide < prev)
             /\ rtn > prev /\ (prev + Half) % Wide < rtn /\ rtn > Clock
  <2>1. MakeLong(prev, current) = rtn - Clock
    BY <1>9 DEF MakeLong
  <2> QED BY <2>1, <1>2, <1>7, <1>9, Widths
<1>10. CASE /\ ~(rtn < prev /\ (rtn + Half) % Wide < prev)
            /\ ~(rtn > prev /\ (prev + Half) % Wide < rtn /\ rtn > Clock)
  <2>1. MakeLong(prev, current) = rtn
    BY <1>10 DEF MakeLong
  <2> QED BY <2>1, <1>2, <1>3
<1> QED BY <1>8, <1>9, <1>10

\* With less than half of 2^32 ticks between the two, make_long_timecode finds the
\* time itself.
LEMMA LongExact ==
  ASSUME NEW prev \in Nat, NEW T \in Nat, prev + Clock < Wide,
         T - prev < Half, prev - T < Half,
         NEW current \in 0 .. Clock - 1, Same(T, current, Clock)
  PROVE  MakeLong(prev, current) = T
<1> DEFINE rtn == current + (prev - (prev % Clock))
<1>1. /\ prev - (prev % Clock) \in Nat /\ prev % Clock \in 0 .. Clock - 1
      /\ Same(prev - (prev % Clock), 0, Clock)
  <2>1. prev \in 0 .. Wide - 1
    BY Widths
  <2> QED BY <2>1, Epoch
<1>2. rtn \in Nat /\ rtn - prev < Clock /\ prev - rtn < Clock
  BY <1>1, Widths
<1>3. Same(rtn, T, Clock)
  <2>1. Same(current + (prev - (prev % Clock)), current + 0, Clock)
    BY <1>1, SameSelf, SamePlus, Widths
  <2>2. Same(rtn, current, Clock)
    BY <2>1
  <2> QED BY <2>2, SameFlip, SameChain, <1>2, Widths
<1>4. PICK q \in Int : rtn - T = q * Clock
  BY <1>3 DEF Same
<1>5. q \in {-1, 0, 1}
  <2>1. q >= 2 => q * Clock >= 2 * Clock
    BY Widths
  <2>2. q <= -2 => q * Clock <= -2 * Clock
    BY Widths
  <2>3. rtn - T < 2 * Clock /\ rtn - T > -2 * Clock
    BY <1>2, Widths
  <2> QED BY <1>4, <2>1, <2>2, <2>3, <1>2, Widths
<1>6. (rtn + Half) % Wide = rtn + Half \/ rtn + Half >= Wide
  BY <1>2, Widths
<1>7. (prev + Half) % Wide = prev + Half
  BY Widths
<1>8. CASE q = 0
  <2>1. rtn = T
    BY <1>4, <1>8, <1>2, Widths
  <2>2. (rtn + Half) % Wide = rtn + Half
    BY <2>1, <1>6, Widths
  <2> QED BY <2>1, <2>2, <1>7, Widths DEF MakeLong
<1>9. CASE q = -1
  <2>1. rtn = T - Clock
    BY <1>4, <1>9, <1>2, Widths
  <2>2. rtn < prev /\ rtn + Half < prev /\ (rtn + Half) % Wide = rtn + Half
    BY <2>1, <1>6, <1>2, Widths
  <2>3. (rtn + Clock) % Wide = T
    BY <2>1, Widths
  <2> QED BY <2>2, <2>3 DEF MakeLong
<1>10. CASE q = 1
  <2>1. rtn = T + Clock
    BY <1>4, <1>10, <1>2, Widths
  <2>2. rtn > prev /\ prev + Half < rtn
    BY <2>1, <1>2, Widths
  <2>3. CASE rtn > Clock
    BY <2>1, <2>2, <2>3, <1>7, Widths DEF MakeLong
  <2>4. CASE rtn <= Clock
    <3>1. T = 0 /\ rtn = Clock /\ prev < Half
      BY <2>1, <2>4, Widths
    <3>2. prev - (prev % Clock) = 0
      BY <3>1, <1>1, Widths
    <3> QED BY <3>1, <3>2, Widths
  <2> QED BY <2>3, <2>4, <1>2, Widths
<1> QED BY <1>5, <1>8, <1>9, <1>10
-----------------------------------------------------------------------------
LEMMA Rounded ==
  ASSUME NEW e \in Int
  PROVE  LET k == DivRoundClosest(e, Offset)
         IN  /\ k \in Int
             /\ 2 * (e - Offset * k) <= Offset /\ -2 * (e - Offset * k) <= Offset
<1> DEFINE h == Offset \div 2
<1>0. Offset \in Nat /\ Offset > 0 /\ h \in Nat /\ 2 * h = Offset
  BY Widths
<1>1. CASE e < 0
  <2> DEFINE x == -e + h
  <2>1. x \in Int /\ x \div Offset \in Int /\ x % Offset \in 0 .. Offset - 1
        /\ x = (x \div Offset) * Offset + (x % Offset)
    BY <1>0, DivMod
  <2>2. DivRoundClosest(e, Offset) = -(x \div Offset)
    BY <1>1 DEF DivRoundClosest
  <2>3. Offset * (-(x \div Offset)) = -((x \div Offset) * Offset)
    BY <2>1, <1>0
  <2> QED BY <2>1, <2>2, <2>3, <1>0
<1>2. CASE e >= 0
  <2> DEFINE x == e + h
  <2>1. x \in Int /\ x \div Offset \in Int /\ x % Offset \in 0 .. Offset - 1
        /\ x = (x \div Offset) * Offset + (x % Offset)
    BY <1>0, DivMod
  <2>2. DivRoundClosest(e, Offset) = x \div Offset
    BY <1>2 DEF DivRoundClosest
  <2>3. Offset * (x \div Offset) = (x \div Offset) * Offset
    BY <2>1, <1>0
  <2> QED BY <2>1, <2>2, <2>3, <1>0
<1> QED BY <1>1, <1>2

LEMMA SignedSame ==
  ASSUME NEW x \in Int
  PROVE  Signed(x) \in Int /\ Same(Signed(x), x, Wide)
<1>1. Wide \in Nat /\ Wide > 0
  BY Widths
<1>2. x % Wide \in Int /\ Same(x % Wide, x, Wide)
  BY <1>1, SameMod, DivMod
<1>3. Same((x % Wide) - Wide, x, Wide)
  <2>1. PICK q \in Int : (x % Wide) - x = q * Wide
    BY <1>2 DEF Same
  <2>2. ((x % Wide) - Wide) - x = (q - 1) * Wide /\ q - 1 \in Int
    BY <2>1, <1>1, <1>2
  <2> QED BY <2>2 DEF Same
<1> QED BY <1>1, <1>2, <1>3 DEF Signed

\* What long_timecode_light answers: the time it starts from, or that one moved
\* by a multiple of 2^28 to within half of that of the last sample.
LEMMA LightSteps ==
  ASSUME NEW light \in 0 .. Wide - 1, NEW imu \in 0 .. Wide - 1,
         NEW current \in 0 .. Clock - 1
  PROVE  LET t == LongLight(light, imu, current)
         IN  /\ t \in 0 .. Wide - 1 /\ Same(t, current, Offset)
             /\ imu # 0 => \E e \in Int : /\ Same(t, imu + e, Wide)
                                          /\ 2 * e <= Offset /\ -2 * e <= Offset
<1> DEFINE initial == MakeLong(light, current)
           error   == Signed(initial - imu)
           k       == DivRoundClosest(error, Offset)
           moved   == initial - Offset * k
<1>0. Offset \in Nat /\ Clock \in Nat /\ Wide \in Nat /\ Wide > 0 /\ Offset > 0
  BY Widths
<1>1. initial \in 0 .. Wide - 1 /\ Same(initial, current, Clock)
  BY LongKept
<1>2. Same(initial, current, Offset)
  BY <1>0, <1>1, Coarser
<1>3. error \in Int /\ Same(error, initial - imu, Wide)
  <2> HIDE DEF initial
  <2> QED BY <1>0, <1>1, SignedSame
<1>4. k \in Int /\ 2 * (error - Offset * k) <= Offset /\ -2 * (error - Offset * k) <= Offset
  <2> HIDE DEF error
  <2> QED BY <1>3, Rounded
<1>5. PICK q \in Int : error - (initial - imu) = q * Wide
  BY <1>3 DEF Same
<1> HIDE DEF initial, error, k
<1>6. moved \in Int /\ Offset * k \in Int
  BY <1>0, <1>1, <1>4
<1>7. moved % Wide \in 0 .. Wide - 1 /\ Same(moved % Wide, moved, Wide)
  BY <1>0, <1>6, DivMod, SameMod
<1>8. Same(moved % Wide, current, Offset)
  <2>1. Same(moved, initial, Offset)
    <3>1. moved - initial = (-k) * Offset /\ -k \in Int
      BY <1>0, <1>1, <1>4
    <3> QED BY <3>1 DEF Same
  <2>2. Same(moved % Wide, moved, Offset)
    BY <1>0, <1>6, <1>7, Coarser
  <2>3. Same(moved, current, Offset)
    BY <2>1, <1>0, <1>1, <1>2, <1>6, SameChain
  <2> QED BY <2>2, <2>3, <1>0, <1>6, <1>7, SameChain
<1>9. CASE imu # 0 /\ Abs(error) > Second
  <2>1. LongLight(light, imu, current) = moved % Wide
    BY <1>9 DEF LongLight, initial, error, k
  <2>2. Same(moved, imu + (error - Offset * k), Wide)
    <3>1. moved - (imu + (error - Offset * k)) = (-q) * Wide /\ -q \in Int
      BY <1>0, <1>1, <1>3, <1>5, <1>6
    <3> QED BY <3>1 DEF Same
  <2>3. error - Offset * k \in Int
    BY <1>3, <1>6
  <2>4. Same(moved % Wide, imu + (error - Offset * k), Wide)
    <3> DEFINE target == imu + (error - Offset * k)
    <3>1. target \in Int
      BY <2>3
    <3> QED BY <2>2, <3>1, <1>0, <1>6, <1>7, SameChain
  <2> QED BY <2>1, <2>3, <2>4, <1>4, <1>7, <1>8
<1>10. CASE ~(imu # 0 /\ Abs(error) > Second)
  <2>1. LongLight(light, imu, current) = initial
    BY <1>10 DEF LongLight, initial, error, k
  <2>2. Same(initial, imu + error, Wide)
    <3>1. initial - (imu + error) = (-q) * Wide /\ -q \in Int
      BY <1>0, <1>1, <1>3, <1>5
    <3> QED BY <3>1 DEF Same
  <2>3. imu # 0 => 2 * error <= Offset /\ -2 * error <= Offset
    BY <1>10, <1>3, Widths DEF Abs
  <2> QED BY <2>1, <2>2, <2>3, <1>1, <1>2, <1>3
<1> QED BY <1>9, <1>10

\* When a time has the bits of the light modulo 2^28 and is less than half of that
\* from the last sample, long_timecode_light finds it, whatever last_light is.
LEMMA LightExact ==
  ASSUME NEW light \in 0 .. Wide - 1, NEW imu \in 0 .. Wide - 1, imu # 0,
         NEW current \in 0 .. Clock - 1,
         NEW T \in 0 .. Wide - 1, Same(T, current, Offset),
         2 * (T - imu) < Offset, 2 * (imu - T) < Offset
  PROVE  LongLight(light, imu, current) = T
<1> DEFINE t == LongLight(light, imu, current)
<1>0. Offset \in Nat /\ Wide \in Nat /\ Wide > 0 /\ Offset > 0
  BY Widths
<1>1. t \in 0 .. Wide - 1 /\ Same(t, current, Offset)
  BY LightSteps
<1>2. PICK e \in Int : Same(t, imu + e, Wide) /\ 2 * e <= Offset /\ -2 * e <= Offset
  BY LightSteps
<1> HIDE DEF t
<1> DEFINE u == imu + e
<1>3. u \in Int /\ current \in Int
  BY <1>2, Widths
<1>4. Same(u, current, Offset)
  <2>1. Same(u, t, Offset)
    BY <1>0, <1>1, <1>2, <1>3, Coarser, SameFlip
  <2> QED BY <2>1, <1>0, <1>1, <1>3, SameChain
<1>5. Same(u, T, Offset)
  BY <1>0, <1>3, <1>4, SameFlip, SameChain
<1>6. u = T
  <2>1. u - T < Offset /\ T - u < Offset
    BY <1>0, <1>2
  <2> HIDE DEF u
  <2> QED BY <2>1, <1>0, <1>3, <1>5, SameNear
<1>7. t = T
  <2>1. Same(t, T, Wide)
    BY <1>2, <1>6
  <2> QED BY <2>1, <1>0, <1>1, SameNear
<1> QED BY <1>7 DEF t
-----------------------------------------------------------------------------
\* The 2^24 ticks a 32-bit time is in.
LEMMA Upper ==
  ASSUME NEW ref \in 0 .. Clock - 1
  PROVE  /\ ref - (ref % Short) \in Nat /\ ref - (ref % Short) + Short <= Clock
         /\ Same(ref - (ref % Short), 0, Short) /\ ref % Short \in 0 .. Short - 1
<1>1. ref \in Nat /\ Short \in Nat /\ Short > 0 /\ 256 \in Nat /\ Clock = 256 * Short
  BY Widths
<1>2. ref < 256 * Short
  BY <1>1
<1>3. /\ ref - (ref % Short) \in Nat /\ ref - (ref % Short) + Short <= 256 * Short
      /\ Same(ref - (ref % Short), 0, Short)
  BY <1>1, <1>2, Floor
<1>4. ref % Short \in 0 .. Short - 1
  BY <1>1, DivMod
<1> QED BY <1>1, <1>3, <1>4

\* fix_time24 keeps the 24 bits and stays within 32.
LEMMA FixKept ==
  ASSUME NEW time24 \in 0 .. Short - 1, NEW ref \in 0 .. Clock - 1
  PROVE  FixTime24(time24, ref) \in 0 .. Clock - 1
<1> DEFINE lower == ref % Short
           upper == ref - lower
<1>0. ref \in Nat /\ Short \in Nat /\ Short > 0 /\ Clock = 256 * Short /\ Clock \in Nat
  BY Widths
<1>1. upper \in Nat /\ upper + Short <= Clock /\ lower \in 0 .. Short - 1 /\ Same(upper, 0, Short)
  BY Upper
<1>2. (upper + Short) % Clock = upper + Short \/ (upper + Short) % Clock = 0
  BY <1>0, <1>1
<1>3. upper + Short = Clock => (upper + Short) % Clock = 0
  BY <1>0
<1>4. upper > 0 => upper >= Short
  <2>2. PICK q \in Int : upper - 0 = q * Short
    BY <1>1 DEF Same
  <2>3. upper > 0 => q >= 1
    <3>1. q <= 0 => q * Short <= 0
      BY <1>0
    <3> QED BY <2>2, <3>1, <1>1
  <2> QED BY <2>2, <2>3, <1>0, <1>1, TimesGrows
<1>5. FixTime24(time24, ref) \in {((upper + Short) % Clock) + time24, upper - Short + time24, upper + time24}
  BY DEF FixTime24
<1>6. CASE lower > time24 /\ lower - time24 > Short \div 2
  <2>1. FixTime24(time24, ref) = ((upper + Short) % Clock) + time24
    BY <1>6 DEF FixTime24
  <2>2. ((upper + Short) % Clock) + time24 <= Clock - 1
    <3>1. CASE upper + Short = Clock
      BY <3>1, <1>3, <1>0
    <3>2. CASE upper + Short < Clock
      <4>1. upper + Short + Short <= Clock
        <5>1. PICK q \in Int : upper - 0 = q * Short
          BY <1>1 DEF Same
        <5>2. q < 255
          <6>1. q >= 255 => q * Short >= 255 * Short
            BY <1>0
          <6> QED BY <6>1, <5>1, <3>2, <1>0, <1>1
        <5>3. q * Short <= 254 * Short
          BY <5>2, <1>0
        <5> QED BY <5>1, <5>3, <1>0, <1>1
      <4>2. (upper + Short) % Clock = upper + Short
        BY <3>2, <1>0, <1>1
      <4> QED BY <4>1, <4>2, <1>0, <1>1
    <3> QED BY <3>1, <3>2, <1>0, <1>1
  <2> QED BY <2>1, <2>2, <1>0, <1>1, <1>2
<1>7. CASE ~(lower > time24 /\ lower - time24 > Short \div 2)
             /\ lower < time24 /\ time24 - lower > Short \div 2 /\ upper > 0
  <2>1. FixTime24(time24, ref) = upper - Short + time24
    BY <1>7 DEF FixTime24
  <2> QED BY <2>1, <1>0, <1>1, <1>4, <1>7
<1>8. CASE /\ ~(lower > time24 /\ lower - time24 > Short \div 2)
           /\ ~(lower < time24 /\ time24 - lower > Short \div 2 /\ upper > 0)
  <2>1. FixTime24(time24, ref) = upper + time24
    BY <1>8 DEF FixTime24
  <2> QED BY <2>1, <1>0, <1>1
<1> QED BY <1>6, <1>7, <1>8

\* A time with the 24 bits, less than half of 2^24 from the last sample and not of
\* the 2^32 ticks before its own, is the one fix_time24 finds.
LEMMA FixExact ==
  ASSUME NEW time24 \in 0 .. Short - 1, NEW ref \in 0 .. Clock - 1,
         NEW T \in Nat, Same(T, time24, Short),
         2 * (T - ref) < Short, 2 * (ref - T) < Short
  PROVE  Same(FixTime24(time24, ref), T, Clock)
<1> DEFINE lower == ref % Short
           upper == ref - lower
           h     == Short \div 2
<1>0. /\ ref \in Nat /\ Short \in Nat /\ Short > 0 /\ Clock = 256 * Short /\ Clock \in Nat
      /\ h \in Nat /\ 2 * h = Short
  BY Widths, TicksAssumption
<1>1. upper \in Nat /\ upper + Short <= Clock /\ lower \in 0 .. Short - 1 /\ Same(upper, 0, Short)
  BY Upper
<1>2. PICK q \in Int : upper - 0 = q * Short
  BY <1>1 DEF Same
<1>3. PICK r \in Int : T - time24 = r * Short
  BY DEF Same
\* Whatever is within half of 2^24 of ref and has the bits is T.
<1>4. ASSUME NEW z \in {-1, 0, 1},
             2 * (upper + z * Short + time24 - ref) <= Short,
             2 * (ref - (upper + z * Short + time24)) <= Short
      PROVE  upper + z * Short + time24 = T
  <2> DEFINE u == upper + z * Short + time24
  <2>1. u - T = (q + z - r) * Short /\ q + z - r \in Int
    <3>1. (q + z - r) * Short = q * Short + z * Short - r * Short
      BY <1>0
    <3> QED BY <3>1, <1>0, <1>1, <1>2, <1>3
  <2>2. Same(u, T, Short)
    BY <2>1 DEF Same
  <2>3. u \in Int /\ u - T < Short /\ T - u < Short
    BY <1>4, <1>0, <1>1
  <2> HIDE DEF u
  <2>4. u = T
    BY <2>2, <2>3, <1>0, SameNear
  <2> QED BY <2>4 DEF u
<1>5. CASE lower > time24 /\ lower - time24 > h
  <2>1. FixTime24(time24, ref) = ((upper + Short) % Clock) + time24
    BY <1>5 DEF FixTime24
  <2>2. upper + Short + time24 = T
    BY <1>4, <1>5, <1>0, <1>1
  <2>3. Same((upper + Short) % Clock, upper + Short, Clock)
    BY <1>0, <1>1, SameMod
  <2>4. PICK p \in Int : ((upper + Short) % Clock) - (upper + Short) = p * Clock
    BY <2>3 DEF Same
  <2>5. (((upper + Short) % Clock) + time24) - T = p * Clock
    BY <2>2, <2>4, <1>0, <1>1
  <2> QED BY <2>1, <2>5 DEF Same
<1>6. CASE ~(lower > time24 /\ lower - time24 > h) /\ lower < time24 /\ time24 - lower > h
  <2>1. upper - Short + time24 = T
    BY <1>4, <1>6, <1>0, <1>1
  <2>2. upper > 0
    BY <2>1, <1>0, <1>1
  <2>3. FixTime24(time24, ref) = upper - Short + time24
    BY <1>6, <2>2 DEF FixTime24
  <2> QED BY <2>1, <2>3, <1>0, SameSelf
<1>7. CASE ~(lower > time24 /\ lower - time24 > h) /\ ~(lower < time24 /\ time24 - lower > h)
  <2>1. FixTime24(time24, ref) = upper + time24
    BY <1>7 DEF FixTime24
  <2>2. upper + time24 = T
    BY <1>4, <1>7, <1>0, <1>1
  <2> QED BY <2>1, <2>2, <1>0, SameSelf
<1> QED BY <1>5, <1>6, <1>7
-----------------------------------------------------------------------------
\* The inductive invariant. The IMU's long time has the 32 bits of the sample it
\* stands for; a series was last synced at a time the code holds, some rotations
\* ago; a steady IMU is numbered without gaps in its time.
ImuAgrees ==
  imuTime # Unseen => Same(last_imu, imuTime, Clock)

SeriesAgrees ==
  clean => /\ last_sync_time = synced % Clock /\ last_sync_time # 0
           /\ \E j \in Nat : now - synced = j * Period
           /\ ahead = 0

SampleOf(m) == m <= sample /\ imuTime = m * SampleTicks /\ oldcode = m % Codes

SamplesAgree ==
  /\ imuTime # Unseen => \E m \in Nat : SampleOf(m)
  /\ steady /\ imuTime # Unseen => last_imu + Clock < Wide
  /\ steady /\ imuTime = Unseen => last_imu = 0

IInv == /\ LightTypeOK /\ LightMatchesImu /\ MovementPast
        /\ ImuAgrees /\ SeriesAgrees /\ SamplesAgree

LEMMA InitInv == Init => IInv
<1> SUFFICES ASSUME Init PROVE IInv
  OBVIOUS
<1>1. now \in Nat /\ skew \in Nat /\ SampleTicks \in Nat \ {0} /\ Codes \in Nat /\ Codes > 3
  BY TicksAssumption, WorldAssumption DEF Init
<1>2. sample \in Nat
  <2>1. now \div SampleTicks \in Nat
    BY <1>1
  <2> QED BY <2>1 DEF Init
<1>3. Clock > 0 /\ Wide > 0 /\ Clock \in Nat /\ Wide \in Nat
  BY Widths
<1>4. LightTypeOK
  <2>1. 0 \in 0 .. Wide - 1 /\ 0 \in 0 .. Clock - 1 /\ 0 \in 0 .. Codes - 1
    BY <1>1, <1>3
  <2>2. /\ last_imu = 0 /\ last_light = 0 /\ last_movement = 0 /\ last_sync_time = 0
        /\ oldcode = 0 /\ detected = FALSE /\ imuTime = Unseen /\ steady = TRUE
        /\ lightError = 0 /\ clean = FALSE /\ synced = 0 /\ ahead = 0 /\ refused = 0 /\ stalled = 0
    BY DEF Init
  <2>3. /\ last_imu \in 0 .. Wide - 1 /\ last_light \in 0 .. Wide - 1
        /\ last_movement \in 0 .. Wide - 1
        /\ last_sync_time \in 0 .. Clock - 1 /\ oldcode \in 0 .. Codes - 1
    BY <2>1, <2>2
  <2>4. /\ now \in Nat /\ sample \in Nat /\ skew \in Nat
        /\ imuTime \in Nat \cup {Unseen} /\ lightError \in Int
        /\ synced \in Nat /\ ahead \in Int /\ refused \in Nat /\ stalled \in Nat
    BY <2>2, <1>1, <1>2
  <2>5. detected \in BOOLEAN /\ clean \in BOOLEAN /\ steady \in BOOLEAN
    BY <2>2
  <2> QED BY <2>3, <2>4, <2>5 DEF LightTypeOK
<1>5. LightMatchesImu /\ MovementPast
  BY DEF Init, LightMatchesImu, MovementPast, Later
<1>6. ImuAgrees /\ SeriesAgrees /\ SamplesAgree
  BY DEF Init, ImuAgrees, SeriesAgrees, SamplesAgree
<1> QED BY <1>4, <1>5, <1>6 DEF IInv

\* The time of a light of 24 bits, read with the sample that is near it.
LEMMA Told ==
  ASSUME LightTypeOK, ImuAgrees, NEW T \in Nat, InStep(T)
  PROVE  /\ Timecode24(T) \in 0 .. Clock - 1 /\ Same(Timecode24(T), T, Clock)
         /\ Timecode24(T) = T % Clock
         /\ LongTime(T) \in 0 .. Wide - 1 /\ Same(LongTime(T), Timecode24(T), Offset)
<1> DEFINE ref  == last_imu % Clock
           goal == ref + (T - imuTime)
<1>0. /\ Short \in Nat /\ Short > 0 /\ Clock \in Nat /\ Clock > 0 /\ Wide \in Nat /\ Offset \in Nat
      /\ last_imu \in Nat /\ imuTime \in Nat /\ Same(last_imu, imuTime, Clock)
  BY Widths DEF LightTypeOK, ImuAgrees, InStep, InSight
<1>1. ref \in 0 .. Clock - 1 /\ Same(ref, last_imu, Clock) /\ T % Short \in 0 .. Short - 1
      /\ Same(T, T % Short, Short) /\ Same(T % Clock, T, Clock) /\ T % Clock \in 0 .. Clock - 1
  BY <1>0, DivMod, SameMod
<1>2. goal \in Nat /\ 2 * (goal - ref) < Short /\ 2 * (ref - goal) < Short
  BY <1>0, <1>1 DEF InStep, LongTime, Abs
<1>3. Same(ref, imuTime, Clock)
  <2> HIDE DEF ref
  <2> QED BY <1>0, <1>1, SameChain
<1>4. Same(goal, T, Clock)
  <2> HIDE DEF ref
  <2>1. PICK q \in Int : ref - imuTime = q * Clock
    BY <1>3 DEF Same
  <2>2. goal - T = q * Clock
    BY <2>1, <1>0, <1>1
  <2> QED BY <2>2 DEF Same
<1>5. Same(goal, T % Short, Short)
  <2> HIDE DEF goal
  <2>1. Same(goal, T, Short)
    BY <1>2, <1>4, Coarser
  <2> QED BY <2>1, <1>0, <1>1, <1>2, SameChain
<1>6. Same(Timecode24(T), goal, Clock) /\ Timecode24(T) \in 0 .. Clock - 1
  <2> HIDE DEF goal, ref
  <2>1. /\ FixTime24(T % Short, ref) \in 0 .. Clock - 1
        /\ Same(FixTime24(T % Short, ref), goal, Clock)
    BY <1>1, <1>2, <1>5, FixKept, FixExact
  <2> QED BY <2>1 DEF Timecode24, ref
<1> HIDE DEF goal, ref
<1>7. Same(Timecode24(T), T, Clock)
  BY <1>0, <1>2, <1>4, <1>6, SameChain
<1>8. Timecode24(T) = T % Clock
  <2>1. Same(Timecode24(T), T % Clock, Clock)
    BY <1>0, <1>1, <1>6, <1>7, SameFlip, SameChain
  <2> QED BY <2>1, <1>0, <1>1, <1>6, SameNear
<1>9. LongTime(T) \in 0 .. Wide - 1
  BY <1>0, Widths DEF InStep, InSight, LongTime, Abs
<1>10. Same(LongTime(T), Timecode24(T), Offset)
  <2>1. PICK q \in Int : last_imu - imuTime = q * Clock
    BY <1>0 DEF Same
  <2>2. LongTime(T) - T = q * Clock
    BY <2>1, <1>0 DEF LongTime
  <2>3. Same(LongTime(T), T, Clock)
    BY <2>2 DEF Same
  <2>4. Same(LongTime(T), Timecode24(T), Clock)
    BY <2>3, <1>0, <1>6, <1>7, <1>9, SameFlip, SameChain
  <2> QED BY <2>4, <1>0, <1>6, <1>9, Coarser
<1> QED BY <1>6, <1>7, <1>8, <1>9, <1>10

LEMMA Timecode24Kept ==
  ASSUME LightTypeOK, NEW T \in Nat
  PROVE  Timecode24(T) \in 0 .. Clock - 1
<1>1. last_imu % Clock \in 0 .. Clock - 1 /\ T % Short \in 0 .. Short - 1
  BY Widths, DivMod DEF LightTypeOK
<1> QED BY <1>1, FixKept DEF Timecode24

\* Light added to the activations, of which the sample is the one seen or none.
LEMMA Added ==
  ASSUME LightTypeOK, NEW x \in {Held, Cleared}, NEW T \in Nat,
         NEW timecode \in 0 .. Clock - 1, NEW comparable \in BOOLEAN, NEW moves \in BOOLEAN,
         comparable => /\ x = Held /\ InSight(T)
                       /\ Same(LongTime(T), timecode, Offset),
         LightSeen(x, T, timecode, comparable, moves)
  PROVE  /\ last_imu' \in 0 .. Wide - 1 /\ last_imu' = x.imu
         /\ last_light' \in 0 .. Wide - 1 /\ last_movement' \in 0 .. Wide - 1
         /\ lightError' = 0
         /\ last_light' >= x.light
         /\ last_movement' = x.movement \/ last_movement' <= last_light'
<1> DEFINE t == LongLight(x.light, x.imu, timecode)
<1>0. Wide \in Nat /\ Wide > 0 /\ Offset \in Nat /\ Clock \in Nat
  BY Widths
<1>1. x.imu \in 0 .. Wide - 1 /\ x.light \in 0 .. Wide - 1 /\ x.movement \in 0 .. Wide - 1
  BY <1>0 DEF Held, Cleared, LightTypeOK
<1>2. t \in 0 .. Wide - 1
  BY <1>1, LightSteps
<1>3. comparable => t = LongTime(T)
  <2> SUFFICES ASSUME comparable PROVE t = LongTime(T)
    OBVIOUS
  <2>1. x.imu = last_imu /\ x.light = last_light
    BY DEF Held
  <2>2. /\ last_imu # 0 /\ imuTime \in Nat /\ LongTime(T) \in 0 .. Wide - 1
        /\ 2 * (LongTime(T) - last_imu) < Offset /\ 2 * (last_imu - LongTime(T)) < Offset
    BY <1>0, <1>1, <2>1, Widths DEF InSight, LongTime, Abs, LightTypeOK
  <2>3. LongLight(last_light, last_imu, timecode) = LongTime(T)
    BY <1>1, <2>1, <2>2, LightExact
  <2> QED BY <2>1, <2>3
<1> HIDE DEF t
<1>4. /\ last_imu' = x.imu /\ last_light' = Later(x.light, t)
      /\ last_movement' = IF moves THEN t ELSE x.movement
      /\ lightError' = IF comparable THEN t - LongTime(T) ELSE 0
  BY DEF LightSeen, t
<1>5. lightError' = 0
  BY <1>2, <1>3, <1>4
<1> QED BY <1>0, <1>1, <1>2, <1>4, <1>5 DEF Later
-----------------------------------------------------------------------------
LEMMA DivUnique ==
  ASSUME NEW n \in Nat, n > 0, NEW j \in Int, NEW r \in 0 .. n - 1
  PROVE  (j * n + r) \div n = j
<1> DEFINE x == j * n + r
<1>1. x \in Int /\ x \div n \in Int /\ x % n \in 0 .. n - 1 /\ x = (x \div n) * n + (x % n)
  BY DivMod
<1> DEFINE d == j - (x \div n)
<1>2. d \in Int /\ d * n = (x % n) - r
  BY <1>1
<1>3. d * n < n /\ d * n > -n
  BY <1>1, <1>2
<1> HIDE DEF d
<1>4. d = 0
  BY <1>2, <1>3, TimesGrows
<1> QED BY <1>1, <1>4 DEF d

\* The distance of two times, cut to 32 bits, is right for less than half of the
\* range, or one less when the clock wrapped in between.
LEMMA DifferenceNear ==
  ASSUME NEW S \in Nat, NEW T \in Nat, S <= T, T - S < Half
  PROVE  Difference(T % Clock, S % Clock) \in {T - S, T - S - 1}
<1> DEFINE a == T % Clock
           b == S % Clock
           g == T - S
<1>1. /\ Clock \in Nat /\ Clock > 0 /\ Half \in Nat /\ Clock = 2 * Half /\ (Clock - 1) \div 2 = Half - 1
      /\ a \in 0 .. Clock - 1 /\ b \in 0 .. Clock - 1 /\ g \in Nat /\ g < Half
  BY Widths, DivMod
<1>2. Same(a, T, Clock) /\ Same(b, S, Clock)
  <2>1. T \in Int /\ S \in Int
    OBVIOUS
  <2>2. Same(T % Clock, T, Clock)
    BY <1>1, <2>1, SameMod
  <2>3. Same(S % Clock, S, Clock)
    BY <1>1, <2>1, SameMod
  <2> QED BY <2>2, <2>3
<1>3. PICK q \in Int : a - T = q * Clock
  BY <1>2 DEF Same
<1>4. PICK r \in Int : b - S = r * Clock
  BY <1>2 DEF Same
<1> DEFINE d == q - r
<1>5. d \in Int /\ (a - b) - g = d * Clock
  <2>1. (q - r) * Clock = q * Clock - r * Clock
    BY <1>1
  <2> QED BY <2>1, <1>1, <1>3, <1>4
<1> HIDE DEF a, b, g, d
<1>6. d \in {0, -1}
  <2>1. (a - b) - g < Clock /\ (a - b) - g > -2 * Clock
    BY <1>1
  <2>2. d <= -2 => d * Clock <= -2 * Clock
    BY <1>1, <1>5
  <2> QED BY <2>1, <2>2, <1>1, <1>5, TimesGrows
<1>7. CASE d = 0
  <2>1. a - b = g
    BY <1>1, <1>5, <1>7
  <2> QED BY <2>1, <1>1 DEF Difference, Abs, a, b, g
<1>8. CASE d = -1
  <2>1. a - b = g - Clock
    BY <1>1, <1>5, <1>8
  <2>2. Difference(a, b) = g - 1
    BY <2>1, <1>1 DEF Difference, Abs
  <2> QED BY <2>2 DEF a, b, g
<1> QED BY <1>6, <1>7, <1>8

\* An own sync of a series is on time, and counts the rotations since the last.
LEMMA SeriesGoesOn ==
  ASSUME LightTypeOK, SeriesAgrees, clean, NEW T \in Nat, NEW j \in Nat, j > 0,
         T - synced = j * Period, T - synced < Half - 1,
         NEW timecode, timecode = T % Clock
  PROVE  ~Initing /\ OnTime(timecode) /\ BitsPumped(timecode) = j /\ (T - synced) \div Period = j
<1> DEFINE P == Period
           h == P \div 2
           d == Delta(timecode)
<1>0. /\ P \in Nat /\ P > 2 /\ h \in Nat /\ h >= 1 /\ h < P - 1 /\ synced \in Nat
      /\ Lo \in Nat /\ Hi \in Nat /\ Lo <= P - 1 /\ Hi >= P
  BY TicksAssumption DEF LightTypeOK
<1>1. ~Initing /\ last_sync_time = synced % Clock
  BY DEF SeriesAgrees, Initing
<1>2. synced <= T /\ T - synced < Half
  <2>1. j * P >= 0 /\ Half \in Nat
    BY <1>0, Widths
  <2> QED BY <2>1, <1>0
<1>3. d \in {T - synced, T - synced - 1}
  BY <1>0, <1>1, <1>2, DifferenceNear DEF Delta
<1>4. PICK e \in {0, 1} : d = j * P - e
  BY <1>3, <1>0
<1> HIDE DEF d
<1>5. Since(timecode) = j
  <2>1. d + h = j * P + (h - e) /\ h - e \in 0 .. P - 1
    BY <1>0, <1>4
  <2>2. (j * P + (h - e)) \div P = j
    BY <2>1, <1>0, DivUnique
  <2>3. Since(timecode) = (d + h) \div P
    BY DEF Since, d
  <2> QED BY <2>1, <2>2, <2>3
<1>6. Skipped(timecode) = j - 1
  BY <1>5 DEF Skipped
<1>7. OnTime(timecode)
  <2>1. P * (j - 1) = j * P - P
    BY <1>0
  <2>2. d - P * (j - 1) = P - e
    BY <2>1, <1>4, <1>0
  <2> QED BY <2>2, <1>6, <1>0 DEF OnTime, d
<1>8. BitsPumped(timecode) = j
  BY <1>1, <1>6 DEF BitsPumped, Later
<1>9. (T - synced) \div P = j
  <2>1. P > 0 /\ 0 \in 0 .. P - 1
    BY <1>0
  <2>2. (j * P + 0) \div P = j
    BY <2>1, <1>0, DivUnique
  <2>3. j * P + 0 = T - synced
    BY <1>0
  <2> QED BY <2>2, <2>3
<1> QED BY <1>1, <1>7, <1>8, <1>9
-----------------------------------------------------------------------------
\* A number that is new is that of a sample taken later.
LEMMA NewLater ==
  ASSUME NEW n \in Nat, NEW m \in Nat, sample \in Nat, SampleOf(m), n + 2 >= sample, NewCode(n)
  PROVE  n > m
<1> DEFINE x == n - oldcode
<1>1. Codes \in Nat /\ Codes > 3 /\ m <= sample /\ oldcode = m % Codes
  BY TicksAssumption DEF SampleOf
<1>2. PICK q \in Int : m = q * Codes + oldcode
  <2>1. m \in Int /\ Codes > 0
    BY <1>1
  <2>2. m \div Codes \in Int /\ m = (m \div Codes) * Codes + (m % Codes)
    BY <1>1, <2>1, DivMod
  <2> QED BY <2>2, <1>1
<1>3. x \in Int /\ oldcode \in Int
  BY <1>1
<1>4. PICK p \in Int, cd \in 0 .. Codes - 1 : x = p * Codes + cd /\ cd = x % Codes
  <2> HIDE DEF x
  <2>1. /\ x \div Codes \in Int /\ x % Codes \in 0 .. Codes - 1
        /\ x = (x \div Codes) * Codes + (x % Codes)
    BY <1>1, <1>3, DivMod
  <2> QED BY <2>1
<1>5. 0 < cd /\ 2 * cd < Codes
  BY <1>4 DEF NewCode
<1> DEFINE d == q - p
<1>6. d \in Int /\ d * Codes = cd + (m - n)
  <2>1. (q - p) * Codes = q * Codes - p * Codes
    BY <1>1
  <2>2. q * Codes = m - oldcode /\ p * Codes = n - oldcode - cd
    BY <1>1, <1>2, <1>3, <1>4
  <2> QED BY <2>1, <2>2, <1>1, <1>3
<1> HIDE DEF d, x
<1>7. SUFFICES ASSUME n <= m PROVE FALSE
  OBVIOUS
<1>8. m - n \in 0 .. 2
  BY <1>1, <1>7
<1>9. d >= 2 => d * Codes >= 2 * Codes
  BY <1>1, <1>6
<1>10. d <= 0 => d * Codes <= 0
  BY <1>1, <1>6
<1>11. d = 1
  BY <1>1, <1>4, <1>5, <1>6, <1>8, <1>9, <1>10
<1> QED BY <1>1, <1>4, <1>5, <1>6, <1>8, <1>11

LEMMA ImuInv == IInv /\ Imu => IInv'
<1> SUFFICES ASSUME IInv, Imu PROVE IInv'
  OBVIOUS
<1> USE DEF IInv
<1>0. SampleTicks \in Nat \ {0} /\ Codes \in Nat /\ Codes > 3 /\ Lags \subseteq Int
  BY TicksAssumption, WorldAssumption
<1>1. PICK lag \in Lags :
        LET n == (now + lag) \div SampleTicks
        IN  n >= 0 /\ n + 2 >= sample /\ sample' = Later(sample, n) /\ TakeSample(n)
  BY DEF Imu
<1>2. sample \in Nat
  BY DEF LightTypeOK
<1>3. PICK n \in Nat : n + 2 >= sample /\ sample' = Later(sample, n) /\ TakeSample(n)
  <2>1. now + lag \in Int
    BY <1>0 DEF LightTypeOK
  <2>2. (now + lag) \div SampleTicks \in Int
    BY <2>1, <1>0
  <2> QED BY <2>2, <1>1
<1> DEFINE c == (n * SampleTicks) % Clock
<1>4. /\ now' = now /\ skew' = skew /\ last_light' = last_light /\ last_sync_time' = last_sync_time
      /\ detected' = detected /\ lightError' = lightError
      /\ clean' = clean /\ synced' = synced /\ ahead' = ahead /\ refused' = refused /\ stalled' = stalled
  BY DEF Imu, series
<1>5. sample' \in Nat /\ sample' >= sample /\ sample' >= n
  BY <1>2, <1>3 DEF Later
<1>6. LightMatchesImu' /\ SeriesAgrees'
  BY <1>4 DEF LightMatchesImu, SeriesAgrees
<1>7. CASE NewCode(n)
  <2>1. PICK moves \in BOOLEAN :
          /\ oldcode' = n % Codes
          /\ last_imu' = MakeLong(last_imu, c)
          /\ last_movement' = IF moves THEN last_imu' ELSE last_movement
          /\ imuTime' = n * SampleTicks
          /\ steady' = (steady /\ (imuTime # Unseen => imuTime' - imuTime < Half)
                               /\ last_imu' + Clock < Wide)
    BY <1>3, <1>7 DEF TakeSample
  <2>2. /\ c \in 0 .. Clock - 1 /\ Same(n * SampleTicks, c, Clock) /\ n * SampleTicks \in Nat
        /\ oldcode' \in 0 .. Codes - 1 /\ Clock \in Nat /\ Wide \in Nat
    <3>1. n * SampleTicks \in Nat /\ Clock \in Nat /\ Clock > 0 /\ Wide \in Nat
      BY <1>0, <1>2, Widths
    <3>2. n % Codes \in 0 .. Codes - 1
      BY <1>0, <1>2, DivMod
    <3>3. c \in 0 .. Clock - 1 /\ Same(n * SampleTicks, c, Clock)
      <4>1. n * SampleTicks \in Int
        BY <3>1
      <4> QED BY <3>1, <4>1, DivMod, SameMod
    <3> QED BY <3>1, <3>2, <3>3, <2>1
  <2> HIDE DEF c
  <2>3. last_imu' \in 0 .. Wide - 1 /\ Same(last_imu', c, Clock)
    BY <2>1, <2>2, LongKept DEF LightTypeOK
  <2>4. Same(last_imu', imuTime', Clock)
    <3>1. Same(c, n * SampleTicks, Clock)
      BY <2>2, SameFlip
    <3> QED BY <3>1, <2>1, <2>2, <2>3, SameChain
  <2>5. imuTime' \in Nat /\ imuTime' # Unseen
    BY <2>1, <2>2 DEF Unseen
  <2>6. steady' => /\ steady /\ (imuTime # Unseen => imuTime' - imuTime < Half)
                   /\ last_imu' + Clock < Wide
    BY <2>1
  <2>7. steady' \in BOOLEAN
    BY <2>1
  <2>8. LightTypeOK'
    BY <2>1, <2>2, <2>3, <2>5, <2>7, <1>4, <1>5 DEF LightTypeOK
  <2>9. ImuAgrees'
    BY <2>4 DEF ImuAgrees
  <2>10. SamplesAgree'
    <3>1. SampleOf(n)'
      BY <2>1, <1>5 DEF SampleOf
    <3> QED BY <3>1, <2>5, <2>6, <1>2 DEF SamplesAgree
  <2>11. steady' => last_imu' >= last_imu
    <3> SUFFICES ASSUME steady' PROVE last_imu' >= last_imu
      OBVIOUS
    <3>1. CASE imuTime = Unseen
      BY <3>1, <2>3, <2>6, <2>2 DEF SamplesAgree
    <3>2. CASE imuTime # Unseen
      <4>1. PICK m \in Nat : SampleOf(m)
        BY <3>2 DEF SamplesAgree
      <4>2. n > m
        BY <4>1, <1>2, <1>3, <1>7, NewLater
      <4>3. imuTime = m * SampleTicks /\ imuTime \in Nat
        BY <4>1, <1>0 DEF SampleOf
      <4>4. imuTime' > imuTime
        <5>1. (n - m) * SampleTicks > 0
          BY <4>2, <1>0, <1>2
        <5>2. (n - m) * SampleTicks = n * SampleTicks - m * SampleTicks
          BY <1>0, <1>2
        <5> QED BY <5>1, <5>2, <4>3, <2>1, <2>2
      <4> DEFINE T == last_imu + (imuTime' - imuTime)
      <4>5. T \in Nat /\ T > last_imu /\ T - last_imu < Half /\ last_imu \in Nat
        BY <4>3, <4>4, <2>5, <2>6, <3>2 DEF LightTypeOK
      <4>6. last_imu + Clock < Wide
        BY <2>6, <3>2 DEF SamplesAgree
      <4>7. Same(T, c, Clock)
        <5>1. Same(last_imu, imuTime, Clock)
          BY <3>2 DEF ImuAgrees
        <5>2. PICK q \in Int : last_imu - imuTime = q * Clock
          BY <5>1 DEF Same
        <5>3. T - imuTime' = q * Clock
          BY <5>2, <4>3, <4>5, <2>5, <2>2
        <5>4. Same(T, imuTime', Clock)
          BY <5>3 DEF Same
        <5> HIDE DEF T
        <5> QED BY <5>4, <4>5, <2>1, <2>2, <2>5, SameChain
      <4>8. MakeLong(last_imu, c) = T
        <5> HIDE DEF T
        <5> QED BY <4>5, <4>6, <4>7, <2>2, LongExact, Widths
      <4> QED BY <4>8, <4>5, <2>1
    <3> QED BY <3>1, <3>2
  <2>12. MovementPast'
    BY <2>1, <2>3, <2>6, <2>11, <2>2, <1>4 DEF MovementPast, Later, LightTypeOK
  <2> QED BY <2>8, <2>9, <2>10, <2>12, <1>6
<1>8. CASE ~NewCode(n)
  <2>1. /\ oldcode' = oldcode /\ last_imu' = last_imu /\ last_movement' = last_movement
        /\ imuTime' = imuTime /\ steady' = steady
    BY <1>3, <1>8 DEF TakeSample
  <2>2. LightTypeOK' /\ ImuAgrees' /\ MovementPast'
    BY <2>1, <1>4, <1>5 DEF LightTypeOK, ImuAgrees, MovementPast
  <2>3. ASSUME NEW m \in Nat, SampleOf(m) PROVE SampleOf(m)'
    BY <2>1, <2>3, <1>2, <1>5 DEF SampleOf
  <2>4. SamplesAgree'
    BY <2>1, <2>3 DEF SamplesAgree
  <2> QED BY <2>2, <2>4, <1>6
<1> QED BY <1>7, <1>8

\* The activations after light was added to those held, if nothing else changes.
LEMMA HeldInv ==
  ASSUME LightTypeOK, MovementPast, NEW T \in Nat, NEW timecode \in 0 .. Clock - 1,
         NEW comparable \in BOOLEAN, NEW moves \in BOOLEAN,
         comparable => InSight(T) /\ Same(LongTime(T), timecode, Offset),
         LightSeen(Held, T, timecode, comparable, moves), steady' = steady
  PROVE  /\ last_imu' = last_imu /\ last_imu \in 0 .. Wide - 1
         /\ last_light' \in 0 .. Wide - 1 /\ last_movement' \in 0 .. Wide - 1
         /\ lightError' = 0 /\ MovementPast'
<1>1. /\ last_imu' = Held.imu
      /\ last_light' \in 0 .. Wide - 1 /\ last_movement' \in 0 .. Wide - 1
      /\ lightError' = 0 /\ last_light' >= Held.light
      /\ last_movement' = Held.movement \/ last_movement' <= last_light'
  BY Added
<1>2. Held.imu = last_imu /\ Held.light = last_light /\ Held.movement = last_movement
  BY DEF Held
<1>3. MovementPast'
  BY <1>1, <1>2, Widths DEF MovementPast, Later, LightTypeOK
<1> QED BY <1>1, <1>2, <1>3 DEF LightTypeOK

LEMMA SyncInv ==
  ASSUME IInv, NEW T \in Nat, NEW own \in BOOLEAN,
         SyncProcess(T, Timecode24(T), own),
         own => /\ InStep(T) /\ now' = T
                 /\ \E k \in Nat \ {0} : T = now + k * Period,
         now' \in Nat,
         sample' = sample, skew' = skew, oldcode' = oldcode, detected' = detected,
         imuTime' = imuTime, steady' = steady
  PROVE  IInv'
<1> DEFINE timecode == Timecode24(T)
<1> USE DEF IInv
<1>1. /\ timecode \in 0 .. Clock - 1
      /\ own => timecode = T % Clock /\ InSight(T) /\ Same(LongTime(T), timecode, Offset)
  BY Timecode24Kept, Told DEF InStep
<1> HIDE DEF timecode
<1>2. SyncProcess(T, timecode, own)
  BY DEF timecode
<1>3. last_imu' = last_imu /\ LightTypeOK' /\ LightMatchesImu' /\ MovementPast' /\ SeriesAgrees'
  <2>0. /\ Wide \in Nat /\ Clock \in Nat /\ Clock > 0 /\ Period \in Nat /\ Period > 0
        /\ synced \in Nat /\ refused \in Nat /\ stalled \in Nat /\ ahead \in Int
    BY Widths, TicksAssumption DEF LightTypeOK
  \* A series that goes on, of which the last sync is known, gets its bits.
  <2>1. ASSUME GoesOn(T, timecode, own), ~Initing
        PROVE  /\ OnTime(timecode) /\ ahead = 0
               /\ BitsPumped(timecode) = (T - synced) \div Period
    <3>1. own /\ clean /\ T - synced < Half - 1
      BY <2>1 DEF GoesOn
    <3>2. PICK k \in Nat \ {0} : T = now + k * Period
      BY <3>1
    <3>3. PICK j \in Nat : now - synced = j * Period
      BY <3>1 DEF SeriesAgrees
    <3>4. T - synced = (j + k) * Period /\ j + k \in Nat /\ j + k > 0
      <4>1. (j + k) * Period = j * Period + k * Period
        BY <2>0
      <4>2. now \in Nat /\ j * Period \in Nat /\ k * Period \in Nat
        BY <2>0 DEF LightTypeOK
      <4> QED BY <4>1, <4>2, <3>2, <3>3, <2>0
    <3>5. timecode = T % Clock
      BY <3>1, <1>1
    <3>6. ahead = 0
      BY <3>1 DEF SeriesAgrees
    <3> QED BY <3>1, <3>4, <3>5, <3>6, SeriesGoesOn
  <2>2. CASE Refuse(T, timecode, own)
    <3>1. ~GoesOn(T, timecode, own)
      BY <2>1, <2>2 DEF Refuse, GoesOn
    <3>2. /\ clean' = FALSE /\ synced' = 0 /\ ahead' = 0 /\ refused' \in Nat /\ stalled' \in Nat
          /\ last_sync_time' \in {0, last_sync_time}
          /\ last_imu' = last_imu /\ last_light' = last_light /\ last_movement' = last_movement
          /\ lightError' = lightError
      BY <2>2, <3>1, <2>0 DEF Refuse, Counted, InRow, times
    <3>3. LightTypeOK'
      <4>1. /\ last_imu' \in 0 .. Wide - 1 /\ last_light' \in 0 .. Wide - 1
            /\ last_movement' \in 0 .. Wide - 1
            /\ last_sync_time' \in 0 .. Clock - 1 /\ oldcode' \in 0 .. Codes - 1
        BY <3>2, <2>0 DEF LightTypeOK
      <4>2. /\ sample' \in Nat /\ skew' \in Nat
            /\ imuTime' \in Nat \cup {Unseen} /\ lightError' \in Int
            /\ synced' \in Nat /\ ahead' \in Int /\ refused' \in Nat /\ stalled' \in Nat
        BY <3>2 DEF LightTypeOK
      <4>3. detected' \in BOOLEAN /\ clean' \in BOOLEAN /\ steady' \in BOOLEAN
        BY <3>2 DEF LightTypeOK
      <4> QED BY <4>1, <4>2, <4>3 DEF LightTypeOK
    <3> QED BY <3>2, <3>3 DEF LightMatchesImu, MovementPast, SeriesAgrees
  <2>3. CASE Accept(T, timecode, own)
    <3>1. /\ last_imu' = last_imu /\ last_imu \in 0 .. Wide - 1
          /\ last_light' \in 0 .. Wide - 1 /\ last_movement' \in 0 .. Wide - 1
          /\ lightError' = 0 /\ MovementPast'
      BY <1>1, <2>3, HeldInv DEF Accept
    <3>2. /\ last_sync_time' = timecode /\ refused' = 0 /\ stalled' = 0
          /\ clean' = GoesOn(T, timecode, own)
          /\ synced' = IF clean' THEN T ELSE 0
          /\ ahead' = IF clean' /\ ~Initing
                      THEN ahead + BitsPumped(timecode) - (T - synced) \div Period ELSE 0
      BY <2>3 DEF Accept, Counted
    <3>3. ahead' = 0
      <4>1. CASE clean' /\ ~Initing
        <5>1. (T - synced) \div Period \in Int
          <6>1. T - synced \in Int
            BY <2>0
          <6> QED BY <6>1, <2>0, DivMod
        <5> QED BY <4>1, <5>1, <2>1, <3>2
      <4>2. CASE ~(clean' /\ ~Initing)
        BY <4>2, <3>2
      <4> QED BY <4>1, <4>2
    <3>4. clean' \in BOOLEAN
      BY <3>2 DEF GoesOn
    <3>5. LightTypeOK'
      <4>1. last_imu' \in 0 .. Wide - 1 /\ last_sync_time' \in 0 .. Clock - 1
        BY <1>1, <3>1, <3>2
      <4>2. /\ oldcode' \in 0 .. Codes - 1 /\ sample' \in Nat /\ skew' \in Nat
            /\ imuTime' \in Nat \cup {Unseen}
        BY DEF LightTypeOK
      <4>3. lightError' \in Int /\ synced' \in Nat /\ ahead' \in Int /\ refused' \in Nat /\ stalled' \in Nat
        BY <3>1, <3>2, <3>3
      <4>4. detected' \in BOOLEAN /\ steady' \in BOOLEAN
        BY DEF LightTypeOK
      <4> QED BY <3>1, <3>4, <4>1, <4>2, <4>3, <4>4 DEF LightTypeOK
    <3>6. SeriesAgrees'
      <4> SUFFICES ASSUME clean' PROVE SeriesAgrees'
        BY DEF SeriesAgrees
      <4>1. own /\ timecode # 0
        BY <3>2 DEF GoesOn
      <4>2. now' - synced' = 0 * Period
        <5>1. now' = T /\ synced' = T
          BY <4>1, <3>2
        <5>2. T - T = 0 * Period
          BY <2>0
        <5> QED BY <5>1, <5>2
      <4> QED BY <4>1, <4>2, <1>1, <3>2, <3>3 DEF SeriesAgrees
    <3>7. LightMatchesImu'
      BY <3>1 DEF LightMatchesImu
    <3> QED BY <3>1, <3>5, <3>6, <3>7
  <2> QED BY <1>2, <2>2, <2>3 DEF SyncProcess
<1>4. ImuAgrees' /\ SamplesAgree'
  BY <1>3 DEF ImuAgrees, SamplesAgree, SampleOf
<1> QED BY <1>3, <1>4

LEMMA RotateInv == IInv /\ Rotate => IInv'
<1> SUFFICES ASSUME IInv, Rotate PROVE IInv'
  OBVIOUS
<1>1. PICK k \in Gaps : /\ now' = now + k * Period
                        /\ SyncProcess(now + k * Period, Timecode24(now + k * Period),
                                       InStep(now + k * Period))
  BY DEF Rotate
<1>2. k \in Nat \ {0} /\ Period \in Nat /\ now \in Nat
  BY TicksAssumption, WorldAssumption DEF IInv, LightTypeOK
<1> DEFINE T == now + k * Period
           own == InStep(T)
<1>3. T \in Nat
  BY <1>2
<1>4. own \in BOOLEAN
  BY DEF InStep
<1>5. own => InStep(T) /\ now' = T /\ \E l \in Nat \ {0} : T = now + l * Period
  BY <1>1, <1>2
<1>6. /\ sample' = sample /\ skew' = skew /\ oldcode' = oldcode /\ detected' = detected
      /\ imuTime' = imuTime /\ steady' = steady
  BY DEF Rotate
<1>7. SyncProcess(T, Timecode24(T), own) /\ now' \in Nat
  BY <1>1, <1>3
<1> HIDE DEF T, own
<1> QED BY <1>3, <1>4, <1>5, <1>6, <1>7, SyncInv

LEMMA FalseSyncInv == IInv /\ FalseSync => IInv'
<1> SUFFICES ASSUME IInv, FalseSync PROVE IInv'
  OBVIOUS
<1>1. PICK phase \in Phases : SyncProcess(now + phase, Timecode24(now + phase), FALSE)
  BY DEF FalseSync
<1>2. now + phase \in Nat
  BY WorldAssumption DEF IInv, LightTypeOK
<1>3. /\ sample' = sample /\ skew' = skew /\ oldcode' = oldcode /\ detected' = detected
      /\ imuTime' = imuTime /\ steady' = steady /\ now' \in Nat
  BY DEF FalseSync, IInv, LightTypeOK
<1>4. FALSE \in BOOLEAN
  OBVIOUS
<1> QED BY <1>1, <1>2, <1>3, <1>4, SyncInv

\* Light, with which the code may also find that it sees a lighthouse at all: then
\* it forgets the IMU before it adds the light.
LEMMA LightInv ==
  ASSUME IInv, NEW T \in Nat, NEW timecode \in 0 .. Clock - 1,
         NEW comparable \in BOOLEAN, NEW moves \in BOOLEAN,
         comparable => detected /\ InSight(T) /\ Same(LongTime(T), timecode, Offset),
         LightSeen(Notified, T, timecode, comparable, moves), Notify,
         UNCHANGED <<world, oldcode, last_sync_time, series>>
  PROVE  IInv'
<1> USE DEF IInv
<1>1. /\ now' = now /\ sample' = sample /\ skew' = skew /\ oldcode' = oldcode
      /\ last_sync_time' = last_sync_time
      /\ clean' = clean /\ synced' = synced /\ ahead' = ahead /\ refused' = refused /\ stalled' = stalled
      /\ detected' = TRUE
  BY DEF world, series, Notify
<1>2. SeriesAgrees'
  BY <1>1 DEF SeriesAgrees
<1>3. Wide \in Nat /\ Wide > 0
  BY Widths
<1>4. CASE detected
  <2>1. Notified = Held /\ imuTime' = imuTime /\ steady' = steady
    BY <1>4 DEF Notified, Notify, LightTypeOK
  <2>2. /\ last_imu' = last_imu /\ last_imu \in 0 .. Wide - 1
        /\ last_light' \in 0 .. Wide - 1 /\ last_movement' \in 0 .. Wide - 1
        /\ lightError' = 0 /\ MovementPast'
    BY <2>1, HeldInv
  <2>3. LightTypeOK' /\ LightMatchesImu'
    BY <1>1, <2>1, <2>2 DEF LightTypeOK, LightMatchesImu
  <2>4. ImuAgrees' /\ SamplesAgree'
    BY <1>1, <2>1, <2>2 DEF ImuAgrees, SamplesAgree, SampleOf
  <2> QED BY <1>2, <2>2, <2>3, <2>4
<1>5. CASE ~detected
  <2>1. Notified = Cleared /\ imuTime' = Unseen /\ steady' = TRUE /\ comparable = FALSE
    BY <1>5 DEF Notified, Notify
  <2>2. Cleared.imu = 0 /\ Cleared.light = 0 /\ Cleared.movement = 0
    BY DEF Cleared
  <2>3. /\ last_imu' = 0 /\ last_light' \in 0 .. Wide - 1 /\ last_movement' \in 0 .. Wide - 1
        /\ lightError' = 0 /\ last_light' >= 0
        /\ last_movement' = 0 \/ last_movement' <= last_light'
    BY <2>1, <2>2, Added
  <2>4. LightTypeOK' /\ LightMatchesImu'
    BY <1>1, <1>3, <2>1, <2>3 DEF LightTypeOK, LightMatchesImu
  <2>5. MovementPast' /\ ImuAgrees' /\ SamplesAgree'
    BY <1>3, <2>1, <2>3 DEF MovementPast, Later, ImuAgrees, SamplesAgree
  <2> QED BY <1>2, <2>4, <2>5
<1> QED BY <1>4, <1>5

LEMMA SweepInv == IInv /\ Sweep => IInv'
<1> SUFFICES ASSUME IInv, Sweep PROVE IInv'
  OBVIOUS
<1>1. PICK phase \in Phases, moves \in BOOLEAN :
        LightSeen(Notified, now + phase, Timecode24(now + phase),
                  detected /\ InStep(now + phase), moves)
  BY DEF Sweep
<1> DEFINE T == now + phase
           comparable == detected /\ InStep(T)
<1>2. T \in Nat /\ LightTypeOK /\ ImuAgrees
  BY WorldAssumption DEF IInv, LightTypeOK
<1>3. comparable \in BOOLEAN
  BY DEF InStep
<1>4. /\ Timecode24(T) \in 0 .. Clock - 1
      /\ comparable => detected /\ InSight(T) /\ Same(LongTime(T), Timecode24(T), Offset)
  BY <1>2, Timecode24Kept, Told DEF InStep
<1>5. LightSeen(Notified, T, Timecode24(T), comparable, moves)
  BY <1>1
<1>6. Notify /\ UNCHANGED <<world, oldcode, last_sync_time, series>>
  BY DEF Sweep
<1> HIDE DEF T, comparable
<1> QED BY <1>2, <1>3, <1>4, <1>5, <1>6, LightInv

LEMMA PulseInv == IInv /\ Pulse => IInv'
<1> SUFFICES ASSUME IInv, Pulse PROVE IInv'
  OBVIOUS
<1>1. PICK phase \in Phases, moves \in BOOLEAN :
        LightSeen(Notified, now + phase, (now + phase + skew * Offset) % Clock,
                  InSight(now + phase), moves)
  BY DEF Pulse
<1> DEFINE T == now + phase
           shown == T + skew * Offset
           timecode == shown % Clock
           comparable == InSight(T)
<1>2. /\ T \in Nat /\ LightTypeOK /\ ImuAgrees /\ skew \in Nat
      /\ Offset \in Nat /\ Clock \in Nat /\ Clock > 0
  BY WorldAssumption, Widths DEF IInv, LightTypeOK
<1>3. comparable \in BOOLEAN
  BY DEF InSight
<1>4. Notified.imu # 0 => detected
  BY DEF Notified, Cleared
<1>5. detected
  BY <1>4 DEF Pulse
<1>6. shown \in Int /\ shown - T = skew * Offset
  BY <1>2
<1>7. Same(T, shown, Offset)
  <2>1. Same(shown, T, Offset)
    BY <1>6, <1>2 DEF Same
  <2> HIDE DEF shown, T
  <2> QED BY <2>1, <1>2, <1>6, SameFlip
<1> HIDE DEF shown, T
<1>8. timecode \in 0 .. Clock - 1 /\ Same(shown, timecode, Clock)
  BY <1>2, <1>6, DivMod, SameMod
<1>9. Same(shown, timecode, Offset)
  BY <1>2, <1>6, <1>8, Coarser
<1> HIDE DEF timecode
<1>10. ASSUME comparable PROVE Same(LongTime(T), timecode, Offset)
  <2>1. imuTime \in Nat /\ last_imu \in Nat /\ Same(last_imu, imuTime, Clock)
    BY <1>2, <1>10, Widths DEF InSight, LightTypeOK, ImuAgrees
  <2>2. PICK q \in Int : last_imu - imuTime = q * Clock
    BY <2>1 DEF Same
  <2>3. LongTime(T) \in Int /\ LongTime(T) - T = q * Clock
    BY <1>2, <2>1, <2>2 DEF LongTime
  <2>4. Same(LongTime(T), T, Clock)
    BY <2>3 DEF Same
  <2>5. Same(LongTime(T), T, Offset)
    BY <1>2, <2>3, <2>4, Coarser
  <2>6. Same(LongTime(T), shown, Offset)
    BY <1>2, <1>6, <1>7, <2>3, <2>5, SameChain
  <2> QED BY <1>2, <1>6, <1>8, <1>9, <2>3, <2>6, SameChain
<1>11. LightSeen(Notified, T, timecode, comparable, moves)
  BY <1>1 DEF timecode, shown, T
<1>12. Notify /\ UNCHANGED <<world, oldcode, last_sync_time, series>>
  BY DEF Pulse
<1>13. comparable => detected /\ InSight(T) /\ Same(LongTime(T), timecode, Offset)
  BY <1>5, <1>10
<1> HIDE DEF comparable
<1> QED BY <1>2, <1>3, <1>8, <1>11, <1>12, <1>13, LightInv

LEMMA DetectInv == IInv /\ Detect => IInv'
<1> SUFFICES ASSUME IInv, Detect PROVE IInv'
  OBVIOUS
<1>1. /\ last_imu' = 0 /\ last_light' = 0 /\ last_movement' = 0 /\ lightError' = 0
      /\ imuTime' = Unseen /\ steady' = TRUE /\ detected' = TRUE
      /\ now' = now /\ sample' = sample /\ skew' = skew /\ oldcode' = oldcode
      /\ last_sync_time' = last_sync_time
      /\ clean' = clean /\ synced' = synced /\ ahead' = ahead /\ refused' = refused /\ stalled' = stalled
  BY DEF Detect, Notify, world, series
<1>2. LightTypeOK'
  <2>1. 0 \in 0 .. Wide - 1
    BY Widths
  <2> QED BY <1>1, <2>1 DEF IInv, LightTypeOK
<1>3. LightMatchesImu' /\ MovementPast' /\ ImuAgrees' /\ SeriesAgrees' /\ SamplesAgree'
  BY <1>1 DEF IInv, LightMatchesImu, MovementPast, Later, ImuAgrees, SeriesAgrees, SamplesAgree
<1> QED BY <1>2, <1>3 DEF IInv

LEMMA OutageInv == IInv /\ Outage => IInv'
<1> SUFFICES ASSUME IInv, Outage PROVE IInv'
  OBVIOUS
<1>1. PICK k \in Outages : now' = now + k * Period
  BY DEF Outage
<1>2. /\ sample' = sample /\ skew' = skew /\ oldcode' = oldcode
      /\ last_imu' = last_imu /\ last_light' = last_light /\ last_movement' = last_movement
      /\ last_sync_time' = last_sync_time /\ detected' = detected /\ imuTime' = imuTime
      /\ steady' = steady /\ lightError' = lightError
      /\ clean' = clean /\ synced' = synced /\ ahead' = ahead /\ refused' = refused /\ stalled' = stalled
  BY DEF Outage, times, series
<1>3. k \in Nat /\ Period \in Nat /\ now \in Nat /\ synced \in Nat
  BY TicksAssumption, WorldAssumption DEF IInv, LightTypeOK
<1>4. LightTypeOK'
  <2>1. now' \in Nat
    BY <1>1, <1>3
  <2> QED BY <1>2, <2>1 DEF IInv, LightTypeOK
<1>5. SeriesAgrees'
  <2> SUFFICES ASSUME clean PROVE SeriesAgrees'
    BY <1>2 DEF SeriesAgrees
  <2>1. PICK j \in Nat : now - synced = j * Period
    BY DEF IInv, SeriesAgrees
  <2>2. now' - synced' = (j + k) * Period /\ j + k \in Nat
    <3>1. (j + k) * Period = j * Period + k * Period
      BY <1>3
    <3>2. j * Period \in Nat /\ k * Period \in Nat
      BY <1>3
    <3> QED BY <3>1, <3>2, <2>1, <1>1, <1>2, <1>3
  <2> QED BY <2>2, <1>2 DEF IInv, SeriesAgrees
<1>6. LightMatchesImu' /\ MovementPast' /\ ImuAgrees' /\ SamplesAgree'
  BY <1>2 DEF IInv, LightMatchesImu, MovementPast, ImuAgrees, SamplesAgree, SampleOf
<1> QED BY <1>4, <1>5, <1>6 DEF IInv

LEMMA PowerCycleInv == IInv /\ PowerCycle => IInv'
<1> SUFFICES ASSUME IInv, PowerCycle PROVE IInv'
  OBVIOUS
<1>1. /\ now' \in Phases /\ sample' = 0 /\ skew' \in Skews /\ imuTime' = Unseen /\ steady' = FALSE
      /\ clean' = FALSE /\ synced' = 0 /\ ahead' = 0 /\ refused' = 0 /\ stalled' = 0
      /\ oldcode' = oldcode
      /\ last_imu' = last_imu /\ last_light' = last_light /\ last_movement' = last_movement
      /\ last_sync_time' = last_sync_time /\ detected' = detected /\ lightError' = lightError
  BY DEF PowerCycle, times
<1>2. LightTypeOK'
  <2>1. now' \in Nat /\ skew' \in Nat /\ sample' \in Nat
    BY <1>1, WorldAssumption
  <2>2. clean' \in BOOLEAN /\ steady' \in BOOLEAN /\ detected' \in BOOLEAN
    BY <1>1 DEF IInv, LightTypeOK
  <2> QED BY <1>1, <2>1, <2>2 DEF IInv, LightTypeOK
<1>3. LightMatchesImu' /\ MovementPast' /\ ImuAgrees' /\ SeriesAgrees' /\ SamplesAgree'
  BY <1>1 DEF IInv, LightMatchesImu, MovementPast, ImuAgrees, SeriesAgrees, SamplesAgree
<1> QED BY <1>2, <1>3 DEF IInv

LEMMA StutterInv == IInv /\ UNCHANGED vars => IInv'
<1> SUFFICES ASSUME IInv, UNCHANGED vars PROVE IInv'
  OBVIOUS
<1>1. /\ now' = now /\ sample' = sample /\ skew' = skew /\ oldcode' = oldcode
      /\ last_imu' = last_imu /\ last_light' = last_light /\ last_movement' = last_movement
      /\ last_sync_time' = last_sync_time /\ detected' = detected /\ imuTime' = imuTime
      /\ steady' = steady /\ lightError' = lightError
      /\ clean' = clean /\ synced' = synced /\ ahead' = ahead /\ refused' = refused /\ stalled' = stalled
  BY DEF vars, world, times, series
<1>2. LightTypeOK' /\ LightMatchesImu' /\ MovementPast'
  BY <1>1 DEF IInv, LightTypeOK, LightMatchesImu, MovementPast
<1>3. ImuAgrees' /\ SeriesAgrees' /\ SamplesAgree'
  BY <1>1 DEF IInv, ImuAgrees, SeriesAgrees, SamplesAgree, SampleOf
<1> QED BY <1>2, <1>3 DEF IInv

-----------------------------------------------------------------------------
\* The times keep to what they stand for, in any order of samples, light, losses,
\* false syncs and power cycles, for every width of the clocks.
THEOREM TimesKept == Spec => []IInv
<1>1. Init => IInv
  BY InitInv
<1>2. IInv /\ [Next]_vars => IInv'
  BY ImuInv, RotateInv, FalseSyncInv, SweepInv, PulseInv, DetectInv, OutageInv,
     PowerCycleInv, StutterInv DEF Next
<1> QED BY <1>1, <1>2, PTL DEF Spec

\* Every long time stays a time of 64 bits, and every time of a sync one of 32.
THEOREM TypeCorrect == Spec => []LightTypeOK
<1>1. IInv => LightTypeOK
  BY DEF IInv
<1> QED BY <1>1, TimesKept, PTL

\* Light whose place can be told gets the same distance from the sample of the IMU
\* in 64 bits as it has on the device (fix_time24, make_long_timecode and
\* SurviveSensorActivations_long_timecode_light together).
THEOREM LightTold == Spec => []LightMatchesImu
<1>1. IInv => LightMatchesImu
  BY DEF IInv
<1> QED BY <1>1, TimesKept, PTL

\* A series of syncs of which some are lost puts one bit for each rotation to the
\* OOTX decoder (survive_default_sync_process).
THEOREM NoBitLost == Spec => []BitPerRotation
<1>1. IInv => BitPerRotation
  BY DEF IInv, SeriesAgrees, BitPerRotation
<1> QED BY <1>1, TimesKept, PTL

\* While the device stays on and its IMU is not silent for half of 2^32 ticks, the
\* assertion of SurviveSensorActivations_stationary_time cannot fail.
THEOREM MovementNotAhead == Spec => []MovementPast
<1>1. IInv => MovementPast
  BY DEF IInv
<1> QED BY <1>1, TimesKept, PTL
-----------------------------------------------------------------------------
\* How long a row of refused syncs gets. Those that leave the time of the last sync
\* are at most MaxMissed rotations from it on either side, by the distance the code
\* computes: a row is as long as the syncs of a lighthouse that fit there.
Most   == 2 * (MaxMissed + 2) + (Period % 2)
Reach  == (MaxMissed + 2) * Period - (Period \div 2)

RowAgrees ==
  refused > 0 =>
    /\ stalled <= now /\ (refused - 1) * Period <= now - stalled
    /\ last_sync_time # 0 => refused < Most /\ Skipped(stalled % Clock) <= MaxMissed

RowInv == RowAgrees /\ Resyncs

\* The reach is a small part of the clock's range.
LEMMA Rates ==
  /\ Period \in Nat /\ Period > 2 /\ MaxMissed \in Nat /\ Most \in Nat /\ Most > 1
  /\ Reach \in Nat /\ 2 * Reach < Half
  /\ 2 * Reach = (2 * MaxMissed + 3) * Period + (Period % 2)
<1> DEFINE P == Period
           h == P \div 2
           o == P % 2
           w == (MaxMissed + 2) * P
<1>1. /\ P \in Nat /\ P > 2 /\ MaxMissed \in Nat /\ o \in {0, 1} /\ h \in Nat /\ P = 2 * h + o
      /\ w \in Nat
  BY TicksAssumption
<1>2. 4 * w <= Clock
  BY TicksAssumption
<1>3. 2 * w = (2 * MaxMissed + 3) * P + P
  BY <1>1
<1>4. Reach = w - h /\ Most = 2 * (MaxMissed + 2) + o
  BY DEF Reach, Most
<1>5. (2 * MaxMissed + 3) * P >= 0 /\ (2 * MaxMissed + 3) * P \in Int
  BY <1>1
<1> HIDE DEF w, h, o
<1> QED BY <1>1, <1>2, <1>3, <1>4, <1>5, Widths DEF o

\* A sync of which at most MaxMissed rotations are believed is less than Reach away.
LEMMA WithinReach ==
  ASSUME LightTypeOK, NEW a \in 0 .. Clock - 1, Skipped(a) <= MaxMissed
  PROVE  Difference(a, last_sync_time) < Reach
<1> DEFINE d == Delta(a)
           x == d + Period \div 2
<1>1. d \in Int /\ d = Difference(a, last_sync_time)
  BY Widths DEF Delta, Difference, Abs, LightTypeOK
<1> HIDE DEF d
<1>2. x \in Int /\ Period \in Nat /\ Period > 0 /\ MaxMissed \in Nat /\ Period \div 2 \in Nat
  BY <1>1, TicksAssumption
<1>3. Since(a) = x \div Period
  BY DEF Since, d
<1> HIDE DEF x
<1>4. x = (x \div Period) * Period + (x % Period) /\ x \div Period \in Int
      /\ x % Period \in 0 .. Period - 1
  BY <1>2, DivMod
<1>5. x \div Period <= MaxMissed + 1
  BY <1>2, <1>3, <1>4 DEF Skipped
<1>6. (x \div Period) * Period <= (MaxMissed + 1) * Period
  BY <1>2, <1>4, <1>5
<1>7. (MaxMissed + 1) * Period + Period = (MaxMissed + 2) * Period
  BY <1>2
<1>8. x < (MaxMissed + 2) * Period
  BY <1>2, <1>4, <1>6, <1>7
<1> QED BY <1>1, <1>2, <1>8 DEF x, Reach

\* Two times less than half the clock's range apart that are both less than w from
\* the last sync are less than 2 * w apart. As the distance over a wrap is one short,
\* they need not be less than 2 * w - 1 apart.
LEMMA ReachSpan ==
  ASSUME NEW S \in Nat, NEW T \in Nat, S <= T, T - S < Half, NEW w \in Nat, 2 * w < Half,
         NEW last \in 0 .. Clock - 1,
         Difference(S % Clock, last) < w, Difference(T % Clock, last) < w
  PROVE  T - S < 2 * w
<1> DEFINE a == S % Clock
           b == T % Clock
<1>1. /\ Clock \in Nat /\ Clock > 0 /\ Half \in Nat /\ Clock = 2 * Half /\ (Clock - 1) \div 2 = Half - 1
      /\ a \in 0 .. Clock - 1 /\ b \in 0 .. Clock - 1
  BY Widths, DivMod
<1>2. PICK q \in Int : S - a = q * Clock
  <2>1. Same(S, a, Clock)
    BY <1>1, SameMod
  <2> QED BY <2>1 DEF Same
<1>3. PICK r \in Int : T - b = r * Clock
  <2>1. Same(T, b, Clock)
    BY <1>1, SameMod
  <2> QED BY <2>1 DEF Same
<1>4. Difference(a, last) < w /\ Difference(b, last) < w
  OBVIOUS
<1> DEFINE k == r - q
<1>5. k \in Int /\ (T - S) - (b - a) = k * Clock
  <2>1. (r - q) * Clock = r * Clock - q * Clock
    BY <1>1
  <2> QED BY <2>1, <1>1, <1>2, <1>3
<1> HIDE DEF a, b, k
<1>6. k \in {0, 1}
  <2>1. (T - S) - (b - a) > -Clock /\ (T - S) - (b - a) < 2 * Clock
    BY <1>1
  <2>2. k >= 2 => k * Clock >= 2 * Clock
    BY <1>1, <1>5
  <2> QED BY <2>1, <2>2, <1>1, <1>5, TimesGrows
<1>7. \/ Abs(a - last) < w
      \/ Clock - 1 - Abs(a - last) < w
  BY <1>1, <1>4 DEF Difference
<1>8. \/ Abs(b - last) < w
      \/ Clock - 1 - Abs(b - last) < w
  BY <1>1, <1>4 DEF Difference
<1>9. CASE k = 0
  <2>1. T - S = b - a
    BY <1>1, <1>5, <1>9
  <2> QED BY <2>1, <1>1, <1>7, <1>8 DEF Abs
<1>10. CASE k = 1
  <2>1. T - S = b - a + Clock
    BY <1>1, <1>5, <1>10
  <2> QED BY <2>1, <1>1, <1>7, <1>8 DEF Abs
<1> QED BY <1>6, <1>9, <1>10

\* One more own sync of the row that leaves the time of the last one.
LEMMA RowGrows ==
  ASSUME LightTypeOK, RowAgrees, refused > 0, last_sync_time # 0,
         NEW T \in Nat, NEW k \in Nat \ {0}, T = now + k * Period, T - stalled < Half,
         Skipped(T % Clock) <= MaxMissed
  PROVE  refused + 1 < Most
<1>1. /\ stalled \in Nat /\ now \in Nat /\ refused \in Nat /\ stalled <= now
      /\ (refused - 1) * Period <= now - stalled /\ Skipped(stalled % Clock) <= MaxMissed
      /\ last_sync_time \in 0 .. Clock - 1
  BY DEF LightTypeOK, RowAgrees
<1>2. Period \in Nat /\ Period > 2 /\ MaxMissed \in Nat /\ Reach \in Nat /\ 2 * Reach < Half
  BY Rates
<1>3. k * Period >= Period
  BY <1>2, TimesGrows
<1>4. refused * Period <= T - stalled
  <2>1. refused * Period = (refused - 1) * Period + Period
    BY <1>1, <1>2
  <2>2. k * Period \in Nat /\ refused * Period \in Nat
    BY <1>1, <1>2
  <2> QED BY <2>1, <2>2, <1>1, <1>2, <1>3
<1>5. stalled <= T
  <2>1. k * Period \in Nat
    BY <1>2
  <2> QED BY <2>1, <1>1
<1>6. Difference(stalled % Clock, last_sync_time) < Reach
      /\ Difference(T % Clock, last_sync_time) < Reach
  <2>1. stalled % Clock \in 0 .. Clock - 1 /\ T % Clock \in 0 .. Clock - 1
    BY <1>1, Widths, DivMod
  <2> QED BY <2>1, <1>1, WithinReach
<1>7. T - stalled < 2 * Reach
  BY <1>1, <1>2, <1>5, <1>6, ReachSpan
<1>8. refused * Period < (2 * MaxMissed + 3) * Period + (Period % 2)
  <2>1. 2 * Reach = (2 * MaxMissed + 3) * Period + (Period % 2)
    BY Rates
  <2>2. refused * Period \in Nat
    BY <1>1, <1>2
  <2> QED BY <2>1, <2>2, <1>1, <1>2, <1>4, <1>7
<1>9. Period % 2 \in {0, 1}
  BY <1>2
<1>10. CASE Period % 2 = 0
  <2>1. refused < 2 * MaxMissed + 3
    <3>1. refused >= 2 * MaxMissed + 3 => refused * Period >= (2 * MaxMissed + 3) * Period
      BY <1>1, <1>2
    <3> QED BY <3>1, <1>1, <1>2, <1>8, <1>10
  <2> QED BY <2>1, <1>1, <1>2, <1>10 DEF Most
<1>11. CASE Period % 2 = 1
  <2>1. refused < 2 * MaxMissed + 4
    <3>1. refused >= 2 * MaxMissed + 4 => refused * Period >= (2 * MaxMissed + 4) * Period
      BY <1>1, <1>2
    <3>2. (2 * MaxMissed + 4) * Period = (2 * MaxMissed + 3) * Period + Period
      BY <1>2
    <3> QED BY <3>1, <3>2, <1>1, <1>2, <1>8, <1>11
  <2> QED BY <2>1, <1>1, <1>2, <1>11 DEF Most
<1> QED BY <1>9, <1>10, <1>11
-----------------------------------------------------------------------------
\* No sync was refused yet.
LEMMA InitRow == Init => RowInv
<1> SUFFICES ASSUME Init PROVE RowInv
  OBVIOUS
<1>1. refused = 0 /\ Most \in Nat
  BY Rates DEF Init
<1> QED BY <1>1, Rates DEF RowInv, RowAgrees, Resyncs, Most

\* What leaves the rows alone, and the time of the last sync but to give it up, and
\* otherwise lets time pass.
LEMMA RowKept ==
  ASSUME LightTypeOK, RowInv, now' \in Nat, now' >= now,
         refused' = refused, stalled' = stalled, last_sync_time' \in {0, last_sync_time}
  PROVE  RowInv'
<1>1. last_sync_time' = last_sync_time => Skipped(stalled % Clock)' = Skipped(stalled % Clock)
  BY DEF Skipped, Since, Delta
<1>2. now \in Nat /\ stalled \in Nat /\ refused \in Nat /\ (refused - 1) * Period \in Int
  BY Rates DEF LightTypeOK
<1>3. refused > 0 =>
        /\ stalled <= now' /\ (refused - 1) * Period <= now' - stalled
        /\ last_sync_time # 0 => refused < Most /\ Skipped(stalled % Clock) <= MaxMissed
  BY <1>2 DEF RowInv, RowAgrees
<1>4. RowAgrees'
  BY <1>1, <1>3 DEF RowAgrees, Most
<1> QED BY <1>4 DEF RowInv, Resyncs

\* A sync, an own one at the end of a rotation or any other.
LEMMA SyncRow ==
  ASSUME LightTypeOK, ImuAgrees, RowInv, NEW T \in Nat, NEW own \in BOOLEAN,
         SyncProcess(T, Timecode24(T), own), now' \in Nat, now' >= now,
         own => /\ InStep(T) /\ now' = T
                /\ \E k \in Nat \ {0} : T = now + k * Period
  PROVE  RowInv'
<1> DEFINE timecode == Timecode24(T)
<1>0. /\ now \in Nat /\ stalled \in Nat /\ refused \in Nat /\ Period \in Nat /\ Period > 2
      /\ Most \in Nat /\ Most > 1 /\ Half \in Nat /\ Half > 0
      /\ Most = 2 * (MaxMissed + 2) + (Period % 2)
  BY Rates, Widths DEF LightTypeOK, Most
<1>1. own => timecode = T % Clock
  BY Told
<1>2. refused <= Most
  BY <1>0 DEF RowInv, Resyncs
<1> HIDE DEF timecode
<1>3. Refuse(T, timecode, own) \/ Accept(T, timecode, own)
  BY DEF SyncProcess, timecode
<1>4. CASE Accept(T, timecode, own)
  <2>1. refused' = 0
    BY <1>4 DEF Accept
  <2> QED BY <2>1, <1>0 DEF RowInv, RowAgrees, Resyncs
<1>5. CASE Refuse(T, timecode, own)
  <2>1. /\ last_sync_time # 0
        /\ last_sync_time' = IF Skipped(timecode) > MaxMissed THEN 0 ELSE last_sync_time
        /\ InRow(T, own)
    BY <1>5 DEF Refuse, Initing
  <2>2. last_sync_time' # 0 => last_sync_time' = last_sync_time /\ ~(Skipped(timecode) > MaxMissed)
    BY <2>1
  <2>3. last_sync_time' = last_sync_time /\ stalled' = stalled
          => Skipped(stalled % Clock)' = Skipped(stalled % Clock)
    BY DEF Skipped, Since, Delta
  <2>4. CASE ~own
    <3>1. refused' = refused /\ stalled' = stalled
      BY <2>1, <2>4 DEF InRow
    <3> QED BY <3>1, <2>1, RowKept
  <2>5. CASE own /\ refused > 0 /\ T - stalled < Half
    <3>1. refused' = refused + 1 /\ stalled' = stalled /\ now' = T /\ timecode = T % Clock
      BY <2>1, <2>5, <1>1 DEF InRow
    <3>2. PICK k \in Nat \ {0} : T = now + k * Period
      BY <2>5
    <3>3. /\ stalled <= now /\ (refused - 1) * Period <= now - stalled
          /\ refused < Most /\ Skipped(stalled % Clock) <= MaxMissed
      BY <2>1, <2>5 DEF RowInv, RowAgrees
    <3>4. refused * Period <= T - stalled /\ stalled <= T
      <4>1. refused * Period = (refused - 1) * Period + Period /\ (refused - 1) * Period \in Int
        BY <1>0
      <4>2. k * Period >= Period /\ k * Period \in Int
        BY <1>0, TimesGrows
      <4> QED BY <4>1, <4>2, <3>2, <3>3, <1>0
    <3>5. last_sync_time' # 0 => refused + 1 < Most
      <4> SUFFICES ASSUME last_sync_time' # 0 PROVE refused + 1 < Most
        OBVIOUS
      <4>1. Skipped(T % Clock) <= MaxMissed
        <5>1. Skipped(timecode) \in Int
          <6>1. T % Clock \in Int
            BY Widths, DivMod
          <6>2. Delta(timecode) + Period \div 2 \in Int
            BY <6>1, <3>1, <1>0, Widths DEF Delta, Difference, Abs, LightTypeOK
          <6>3. (Delta(timecode) + Period \div 2) \div Period \in Int
            BY <6>2, <1>0, DivMod
          <6> QED BY <6>3 DEF Skipped, Since
        <5> QED BY <5>1, <2>2, <3>1, Rates
      <4> QED BY <4>1, <2>1, <2>5, <3>2, RowGrows DEF RowInv
    <3>6. RowAgrees'
      <4>1. refused' - 1 = refused /\ stalled' <= now' /\ (refused' - 1) * Period <= now' - stalled'
        BY <3>1, <3>4, <1>0
      <4>2. last_sync_time' # 0 => refused' < Most /\ Skipped(stalled % Clock)' <= MaxMissed
        BY <3>1, <3>3, <3>5, <2>2, <2>3
      <4> QED BY <4>1, <4>2 DEF RowAgrees, Most
    <3>7. Resyncs'
      BY <1>0, <3>1, <3>3 DEF Resyncs
    <3> QED BY <3>6, <3>7 DEF RowInv
  <2>6. CASE own /\ ~(refused > 0 /\ T - stalled < Half)
    <3>1. refused' = 1 /\ stalled' = T /\ now' = T /\ timecode = T % Clock
      BY <2>1, <2>6, <1>1 DEF InRow
    <3>2. last_sync_time' # 0 => Skipped(stalled % Clock)' <= MaxMissed
      <4>1. Skipped(timecode) \in Int
        <5>1. T % Clock \in Int
          BY Widths, DivMod
        <5>2. Delta(timecode) + Period \div 2 \in Int
          BY <5>1, <3>1, <1>0, Widths DEF Delta, Difference, Abs, LightTypeOK
        <5>3. (Delta(timecode) + Period \div 2) \div Period \in Int
          BY <5>2, <1>0, DivMod
        <5> QED BY <5>3 DEF Skipped, Since
      <4>2. last_sync_time' = last_sync_time => Skipped(stalled % Clock)' = Skipped(timecode)
        BY <3>1 DEF Skipped, Since, Delta
      <4> QED BY <4>1, <4>2, <2>2, Rates
    <3>3. RowAgrees'
      <4>1. (refused' - 1) * Period = 0 /\ now' - stalled' = 0 /\ stalled' <= now'
        BY <3>1, <1>0
      <4> QED BY <4>1, <3>1, <3>2, <1>0 DEF RowAgrees, Most
    <3> QED BY <3>1, <3>3, <1>0 DEF RowInv, Resyncs
  <2> QED BY <2>4, <2>5, <2>6
<1> QED BY <1>3, <1>4, <1>5

\* Only syncs add to a row, and time goes on.
LEMMA NextRow == LightTypeOK /\ ImuAgrees /\ RowInv /\ [Next]_vars => RowInv'
<1> SUFFICES ASSUME LightTypeOK, ImuAgrees, RowInv, [Next]_vars PROVE RowInv'
  OBVIOUS
<1>1. now \in Nat /\ Period \in Nat /\ now >= now
  BY Rates DEF LightTypeOK
<1>2. CASE Imu
  <2>1. /\ now' = now /\ refused' = refused /\ stalled' = stalled
        /\ last_sync_time' = last_sync_time
    BY <1>2 DEF Imu, series
  <2> QED BY <2>1, <1>1, RowKept
<1>3. CASE Rotate
  <2>1. PICK k \in Gaps : /\ now' = now + k * Period
                          /\ SyncProcess(now + k * Period, Timecode24(now + k * Period),
                                         InStep(now + k * Period))
    BY <1>3 DEF Rotate
  <2>2. k \in Nat \ {0} /\ k * Period \in Nat
    BY <1>1, WorldAssumption
  <2> DEFINE T == now + k * Period
             own == InStep(T)
  <2>3. T \in Nat /\ now' = T /\ now' >= now
    BY <2>1, <2>2, <1>1
  <2>4. own \in BOOLEAN
    BY DEF InStep
  <2>5. own => InStep(T) /\ now' = T /\ \E l \in Nat \ {0} : T = now + l * Period
    BY <2>1, <2>2
  <2>6. SyncProcess(T, Timecode24(T), own)
    BY <2>1
  <2> HIDE DEF T, own
  <2> QED BY <2>3, <2>4, <2>5, <2>6, SyncRow
<1>4. CASE Outage
  <2>1. PICK k \in Outages : now' = now + k * Period
    BY <1>4 DEF Outage
  <2>2. k * Period \in Nat
    BY <1>1, WorldAssumption
  <2>3. /\ refused' = refused /\ stalled' = stalled
        /\ last_sync_time' = last_sync_time
    BY <1>4 DEF Outage, series
  <2> QED BY <2>1, <2>2, <2>3, <1>1, RowKept
<1>5. CASE FalseSync
  <2>1. PICK phase \in Phases : SyncProcess(now + phase, Timecode24(now + phase), FALSE)
    BY <1>5 DEF FalseSync
  <2>2. now + phase \in Nat /\ now' = now
    BY <1>1, <1>5, WorldAssumption DEF FalseSync
  <2>3. FALSE \in BOOLEAN
    OBVIOUS
  <2> QED BY <2>1, <2>2, <2>3, <1>1, SyncRow
<1>6. CASE Detect \/ Sweep \/ Pulse
  <2>1. /\ now' = now /\ refused' = refused /\ stalled' = stalled
        /\ last_sync_time' = last_sync_time
    BY <1>6 DEF Detect, Sweep, Pulse, world, series
  <2> QED BY <2>1, <1>1, RowKept
<1>7. CASE PowerCycle
  <2>1. refused' = 0
    BY <1>7 DEF PowerCycle
  <2> QED BY <2>1, Rates DEF RowInv, RowAgrees, Resyncs, Most
<1>8. CASE UNCHANGED vars
  <2>1. /\ now' = now /\ refused' = refused /\ stalled' = stalled
        /\ last_sync_time' = last_sync_time
    BY <1>8 DEF vars, world, series
  <2> QED BY <2>1, <1>1, RowKept
<1> QED BY <1>2, <1>3, <1>4, <1>5, <1>6, <1>7, <1>8 DEF Next

\* Whatever the time of the last sync is, and whatever is lost, repeated or taken
\* for a sync in between, no more own syncs are refused in a row than fit within
\* the rotations that are believed, on both sides of it, and one that gives it up.
THEOREM SyncsAcceptedAgain == Spec => []Resyncs
<1>1. Init => RowInv
  BY InitRow
<1>2. IInv /\ RowInv /\ [Next]_vars => RowInv'
  BY NextRow DEF IInv
<1>3. RowInv => Resyncs
  BY DEF RowInv
<1> QED BY <1>1, <1>2, <1>3, TimesKept, PTL DEF Spec
=============================================================================
