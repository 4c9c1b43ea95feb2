----------------------------- MODULE LightTimes -----------------------------
(***************************************************************************)
(* The times of one object and one lighthouse. The device counts ticks in  *)
(* 32 bits; its IMU samples carry all of them, a sync or a sweep of        *)
(* generation 2 the lower 24, a pulse of generation 1 all of them but of a *)
(* clock that may be off by a multiple of 2^28. The code extends them to   *)
(* 64 bits, each against the last ones it saw, and counts by the times of  *)
(* the syncs how many rotations, and so how many OOTX bits, were missed.   *)
(*                                                                         *)
(* Samples are late, lost and repeated, syncs and light are lost, a light  *)
(* from elsewhere is taken for a sync, the device is switched off and on.  *)
(* Left out: angles, and with them the outlier test, which is a choice,    *)
(* the time between two syncs, and counters that are only logged.          *)
(***************************************************************************)
EXTENDS Integers

CONSTANTS
  Short,        \* 2^24, the range of the time of a sync or a sweep
  Epochs,       \* 2^32, how often 32 bits fit in 64
  Second,       \* 48000000 ticks
  Period,       \* predicted_time, the ticks of a rotation
  MaxMissed,    \* 10, how many missed rotations are believed
  Lo, Hi,       \* rotations of Lo .. Hi ticks are within 1 Hz of the channel's
  SampleTicks,  \* ticks between two samples of the IMU
  Codes,        \* 256, the numbers of samples
  Starts,       \* what the device's clock can show when the program starts
  Skews,        \* how many 2^28 the clock of the light can be off
  Gaps,         \* how many rotations after the last one a sync may be received
  Outages,      \* how many rotations the lighthouse may be out of sight
  Lags,         \* how far an IMU sample may be ahead of the last rotation
  Phases,       \* when in a rotation light may hit a sensor
  MaxRotations, \* bound on the rotations, those of outages aside
  MaxFaults     \* bound on outages, false syncs and power cycles

Offset == 16 * Short      \* 2^28
Clock  == 16 * Offset     \* 2^32
Wide   == Epochs * Clock  \* 2^64
Half   == Clock \div 2

ASSUME TicksAssumption ==
  /\ Short \in Nat /\ Short % 2 = 0 /\ Short > 1
  /\ Epochs \in Nat /\ Epochs > 1
  /\ Second \in Nat /\ 2 * Second < Offset
  /\ Period \in Nat /\ Lo \in Nat /\ Hi \in Nat
  /\ MaxMissed \in Nat /\ 1 < Lo /\ Lo < Period /\ Period < Hi
  \* the rotations of which syncs are believed are a small part of the range
  /\ 4 * ((MaxMissed + 2) * Period) <= Clock
  /\ SampleTicks \in Nat \ {0} /\ Codes \in Nat /\ Codes > 3

ASSUME WorldAssumption ==
  /\ Starts \subseteq Nat /\ Skews \subseteq Nat
  /\ Gaps \subseteq Nat \ {0} /\ Outages \subseteq Nat /\ Lags \subseteq Int /\ Phases \subseteq Nat
  /\ MaxRotations \in Nat /\ MaxFaults \in Nat

VARIABLES
  now,            \* the device's clock, in full, at the start of this rotation
  sample,         \* the latest sample the device took
  skew,           \* the light's clock is so many Offset ahead
  rotations, faults,
  oldcode,        \* obj->oldcode
  last_imu, last_light, last_movement,
  last_sync_time,
  detected,       \* ctx->lh_version is no longer -1
  \* what the properties compare the code's state with
  imuTime,        \* the device's clock at the sample last_imu stands for, or Unseen
  steady,         \* since it was reset, the IMU was never off or silent for long
  lightError,     \* how much too late the long time of the last light is
  clean,          \* since the first sync of a series, syncs were only lost
  synced,         \* the device's clock at the last sync of the series
  ahead,          \* bits put to the decoder less rotations since
  refused,        \* own syncs refused in a row
  stalled         \* the device's clock at the first of them

world   == <<now, sample, skew, rotations, faults>>
times   == <<last_imu, last_light, last_movement>>
series  == <<clean, synced, ahead, refused, stalled>>
vars    == <<world, oldcode, times, last_sync_time, detected, imuTime,
             steady, lightError, series>>

Unseen == -1
Abs(x) == IF x < 0 THEN -x ELSE x
Later(a, b) == IF a > b THEN a ELSE b

-----------------------------------------------------------------------------
\* survive_timecode_difference
Difference(most_recent, least_recent) ==
  LET diff == Abs(most_recent - least_recent)
  IN  IF diff > (Clock - 1) \div 2 THEN (Clock - 1) - diff ELSE diff

\* fix_time24: ref is last_imu, cut to 32 bits.
FixTime24(time24, ref) ==
  LET lower == ref % Short
      upper == ref - lower
  IN  IF lower > time24 /\ lower - time24 > Short \div 2
        THEN ((upper + Short) % Clock) + time24
      ELSE IF lower < time24 /\ time24 - lower > Short \div 2 /\ upper > 0
        THEN upper - Short + time24
      ELSE upper + time24

\* make_long_timecode
MakeLong(prev, current) ==
  LET rtn == current + (prev - (prev % Clock))
  IN  IF rtn < prev /\ (rtn + Half) % Wide < prev THEN (rtn + Clock) % Wide
      ELSE IF rtn > prev /\ (prev + Half) % Wide < rtn /\ rtn > Clock THEN rtn - Clock
      ELSE rtn

\* Mutant of DivRoundClosest: the quotient is cut off.
DivTruncated(n, d) == IF n < 0 THEN -((-n) \div d) ELSE n \div d

\* The quotient of the C macro, which rounds to the closest integer.
DivRoundClosest(n, d) ==
  IF n < 0 THEN -((-n + d \div 2) \div d) ELSE (n + d \div 2) \div d

\* A difference of two 64-bit times, taken as int64_t.
Signed(x) == LET r == x % Wide IN IF 2 * r < Wide THEN r ELSE r - Wide

\* SurviveSensorActivations_long_timecode_light
LongLight(light, imu, timecode) ==
  LET initial == MakeLong(light, timecode)
      error   == Signed(initial - imu)
  IN  IF imu # 0 /\ Abs(error) > Second
        THEN (initial - Offset * DivRoundClosest(error, Offset)) % Wide
        ELSE initial

-----------------------------------------------------------------------------
\* The long time of a light at time T of the device, by the sample last seen. The
\* light can be told when that sample is near enough and the time is not negative,
\* or for 24 bits not of the 2^32 ticks before those of the sample.
LongTime(T) == last_imu + (T - imuTime)

InSight(T) ==
  /\ imuTime # Unseen /\ last_imu # 0
  /\ LongTime(T) >= 0 /\ last_imu + Clock < Wide
  /\ 2 * Abs(T - imuTime) < Offset

InStep(T) ==
  /\ InSight(T)
  /\ LongTime(T) >= last_imu - (last_imu % Clock)
  /\ 2 * Abs(T - imuTime) < Short

\* The activations, and what a reset leaves of them.
Held    == [imu |-> last_imu, light |-> last_light, movement |-> last_movement]
Cleared == [imu |-> 0, light |-> 0, movement |-> 0]

\* Mutant of LightSeen: the last light is the one added last.
LightSeenLast(x, T, timecode, comparable, moves) ==
  LET t == LongLight(x.light, x.imu, timecode)
  IN  /\ last_imu' = x.imu /\ last_light' = t
      /\ last_movement' = IF moves THEN t ELSE x.movement
      /\ lightError' = IF comparable THEN t - LongTime(T) ELSE 0

\* Light at time T, whose ticks are timecode, is added to the activations x:
\* add_gen2 and add keep the latest time.
LightSeen(x, T, timecode, comparable, moves) ==
  LET t == LongLight(x.light, x.imu, timecode)
  IN  /\ last_imu' = x.imu
      /\ last_light' = Later(x.light, t)
      /\ last_movement' = IF moves THEN t ELSE x.movement
      /\ lightError' = IF comparable THEN t - LongTime(T) ELSE 0

Timecode24(T) == FixTime24(T % Short, last_imu % Clock)

-----------------------------------------------------------------------------
Init ==
  /\ now \in Starts /\ sample = now \div SampleTicks
  /\ skew \in Skews /\ rotations = 0 /\ faults = 0
  /\ oldcode = 0
  /\ last_imu = 0 /\ last_light = 0 /\ last_movement = 0
  /\ last_sync_time = 0 /\ detected = FALSE
  /\ imuTime = Unseen /\ steady = TRUE /\ lightError = 0
  /\ clean = FALSE /\ synced = 0 /\ ahead = 0 /\ refused = 0 /\ stalled = 0

\* A report of the IMU: of the three samples it holds the model takes any. One
\* is new when its number is at most half the range past that of the last.
NewCode(n) == LET cd == (n - oldcode) % Codes IN 0 < cd /\ 2 * cd < Codes

TakeSample(n) ==
  IF NewCode(n)
    THEN \E moves \in BOOLEAN :
           /\ oldcode' = n % Codes
           /\ last_imu' = MakeLong(last_imu, (n * SampleTicks) % Clock)
           /\ last_movement' = IF moves THEN last_imu' ELSE last_movement
           /\ imuTime' = n * SampleTicks
           /\ steady' = (steady /\ (imuTime # Unseen => imuTime' - imuTime < Half)
                                /\ last_imu' + Clock < Wide)
    ELSE UNCHANGED <<oldcode, last_imu, last_movement, imuTime, steady>>

Imu ==
  /\ \E lag \in Lags :
       LET n == (now + lag) \div SampleTicks
       IN  /\ n >= 0 /\ n + 2 >= sample
           /\ sample' = Later(sample, n)
           /\ TakeSample(n)
  /\ UNCHANGED <<now, skew, rotations, faults, last_light, last_sync_time, detected,
                 lightError, series>>

\* survive_default_sync_process for a sync at time T, whose ticks are timecode.
\* An own sync is of the lighthouse, and its time can be told.
Delta(timecode)     == Difference(timecode, last_sync_time)
\* Mutant of Since: rotations are not rounded.
SinceCut(timecode)  == Delta(timecode) \div Period
Since(timecode)     == (Delta(timecode) + Period \div 2) \div Period
Skipped(timecode)   == Since(timecode) - 1
OnTime(timecode)    == Delta(timecode) - Period * Skipped(timecode) \in Lo .. Hi
Initing             == last_sync_time = 0
BitsPumped(timecode) == IF Initing THEN 1 ELSE Later(Skipped(timecode), 0) + 1

\* The series goes on if the sync is an own one, the last one is less than half the
\* clock's range old, and its time is not 0, which means none. It gave bits.
GoesOn(T, timecode, own) ==
  own /\ timecode # 0 /\ (Initing \/ (clean /\ T - synced < Half - 1))

Counted(T, timecode, own, bits) ==
  /\ clean' = GoesOn(T, timecode, own)
  /\ synced' = IF clean' THEN T ELSE 0
  /\ ahead' = IF clean' /\ ~Initing THEN ahead + bits - (T - synced) \div Period ELSE 0

\* Own syncs that are refused, half the clock's range after the first at the most,
\* are a row.
InRow(T, own) ==
  LET goesOn == refused > 0 /\ T - stalled < Half
  IN  /\ refused' = IF ~own THEN refused ELSE IF goesOn THEN refused + 1 ELSE 1
      /\ stalled' = IF own /\ ~goesOn THEN T ELSE stalled

\* Mutant of Refuse: the time of the last sync is never given up.
RefuseKeeps(T, timecode, own) ==
  /\ ~Initing /\ ~OnTime(timecode)
  /\ Counted(T, timecode, own, 0)
  /\ InRow(T, own)
  /\ UNCHANGED <<times, last_sync_time, lightError>>

Refuse(T, timecode, own) ==
  /\ ~Initing /\ ~OnTime(timecode)
  /\ last_sync_time' = IF Skipped(timecode) > MaxMissed THEN 0 ELSE last_sync_time
  /\ Counted(T, timecode, own, 0)
  /\ InRow(T, own)
  /\ UNCHANGED <<times, lightError>>

Accept(T, timecode, own) ==
  /\ Initing \/ OnTime(timecode)
  /\ last_sync_time' = timecode
  /\ LightSeen(Held, T, timecode, own, FALSE)
  /\ Counted(T, timecode, own, BitsPumped(timecode))
  /\ refused' = 0 /\ stalled' = 0

SyncProcess(T, timecode, own) == Refuse(T, timecode, own) \/ Accept(T, timecode, own)

\* The lighthouse turns; the sync that ends its last rotation is received.
Rotate ==
  /\ \E k \in Gaps :
       LET T == now + k * Period
       IN  /\ rotations + k <= MaxRotations /\ rotations' = rotations + k
           /\ now' = T
           /\ SyncProcess(T, Timecode24(T), InStep(T))
  /\ UNCHANGED <<sample, skew, faults, oldcode, detected, imuTime, steady>>

\* Neither the lighthouse nor the device is seen for long.
Outage ==
  /\ faults < MaxFaults /\ faults' = faults + 1
  /\ \E k \in Outages : now' = now + k * Period
  /\ UNCHANGED <<sample, skew, rotations, oldcode, times, last_sync_time, detected,
                 imuTime, steady, lightError, series>>

\* Some light, or the same sync again, is decoded as a sync.
FalseSync ==
  /\ faults < MaxFaults /\ faults' = faults + 1
  /\ \E phase \in Phases : SyncProcess(now + phase, Timecode24(now + phase), FALSE)
  /\ UNCHANGED <<now, sample, skew, rotations, oldcode, detected, imuTime, steady>>

\* survive_notify_gen1 and 2 end in survive_default_gen_detected_process, which
\* clears the activations the first time.
Notified == IF detected THEN Held ELSE Cleared

Notify ==
  /\ detected' = TRUE
  /\ imuTime' = IF detected THEN imuTime ELSE Unseen
  /\ steady' = (detected => steady)

\* Light that does no more: a lightcap, or a sweep or pulse that is not kept.
Detect ==
  /\ ~detected /\ Notify
  /\ last_imu' = 0 /\ last_light' = 0 /\ last_movement' = 0 /\ lightError' = 0
  /\ UNCHANGED <<world, oldcode, last_sync_time, series>>

\* survive_default_sweep_process, and the angle it finds. The plane may be in
\* doubt and the angle may be an outlier: then the light is not kept.
Sweep ==
  /\ last_sync_time # 0 /\ Notify
  /\ \E phase \in Phases, moves \in BOOLEAN :
       LET T == now + phase IN
       /\ Delta(Timecode24(T)) \div Period <= MaxMissed
       /\ LightSeen(Notified, T, Timecode24(T), detected /\ InStep(T), moves)
  /\ UNCHANGED <<world, oldcode, last_sync_time, series>>

\* survive_default_angle_process: a pulse of generation 1. It is refused when no
\* sample came since the reset.
Pulse ==
  /\ Notified.imu # 0 /\ Notify
  /\ \E phase \in Phases, moves \in BOOLEAN :
       LET T        == now + phase
           timecode == (T + skew * Offset) % Clock
       IN  LightSeen(Notified, T, timecode, InSight(T), moves)
  /\ UNCHANGED <<world, oldcode, last_sync_time, series>>

\* The device is switched off and on: its clock starts again.
PowerCycle ==
  /\ faults < MaxFaults /\ faults' = faults + 1
  /\ now' \in Phases /\ sample' = 0 /\ skew' \in Skews
  /\ imuTime' = Unseen /\ steady' = FALSE
  /\ clean' = FALSE /\ synced' = 0 /\ ahead' = 0 /\ refused' = 0 /\ stalled' = 0
  /\ UNCHANGED <<rotations, oldcode, times, last_sync_time, detected, lightError>>

Next == Imu \/ Rotate \/ Outage \/ FalseSync \/ Detect \/ Sweep \/ Pulse \/ PowerCycle

Spec == Init /\ [][Next]_vars

-----------------------------------------------------------------------------
\* Types: the long times are times of 64 bits, those of syncs of 32.
LightTypeOK ==
  /\ last_imu \in 0 .. Wide - 1 /\ last_light \in 0 .. Wide - 1
  /\ last_movement \in 0 .. Wide - 1
  /\ last_sync_time \in 0 .. Clock - 1 /\ oldcode \in 0 .. Codes - 1
  /\ now \in Nat /\ sample \in Nat /\ skew \in Nat /\ detected \in BOOLEAN
  /\ imuTime \in Nat \cup {Unseen} /\ lightError \in Int
  /\ clean \in BOOLEAN /\ steady \in BOOLEAN /\ synced \in Nat /\ ahead \in Int /\ refused \in Nat
  /\ stalled \in Nat

\* As long as syncs are only lost, none that comes is refused and the decoder gets
\* one bit for each rotation, also when the clock wraps and over any loss of less
\* than half its range (survive_default_sync_process).
BitPerRotation == clean => ahead = 0

\* Whatever the time of the last sync was set to, by a false sync, by a sample
\* that came too late or by a device switched off, at most 12 rotations on either
\* side of it are refused before an own sync is accepted again, and one more when
\* a rotation is an odd number of ticks, as the distance over a wrap of the clock
\* is one short. The rows are of half the clock's range: one sync in 89 seconds
\* could be refused for ever.
Resyncs == refused <= 2 * (MaxMissed + 2) + (Period % 2)

\* The light is as far from the sample of the IMU in 64 bits as it is on the
\* device, when the sample is near enough to tell: half of 2^24 ticks for
\* generation 2, half of 2^28 for generation 1, whose clock may be off.
LightMatchesImu == lightError = 0

\* What the assertion in SurviveSensorActivations_stationary_time asks for: no
\* movement is later than the last light and the last sample, whatever order
\* they came in. It needs the IMU's time never to go back.
MovementPast == steady => last_movement <= Later(last_light, last_imu)
=============================================================================
