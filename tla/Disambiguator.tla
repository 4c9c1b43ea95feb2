---------------------------- MODULE Disambiguator ----------------------------
(***************************************************************************)
(* The state based disambiguator of generation 1: from pulses of light,    *)
(* each a time and a length, it finds where in the cycle of the two        *)
(* lighthouses it is, follows the cycle, and tells the syncs and sweeps    *)
(* apart (disambiguator_statebased.c).                                     *)
(*                                                                         *)
(* A cycle has 12 states, numbered as in enum LighthouseState: two syncs,  *)
(* of lighthouse 1 and of lighthouse 0, and a sweep of one of them, four   *)
(* times. In 60Hz mode lighthouse 0 is alone and repeats the first half.   *)
(* The world has the true cycle: time is now, in full, and the cycle       *)
(* starts at its multiples. Objects see the light of a slot, or miss it;   *)
(* there is other light; a lighthouse may come into sight, and an object   *)
(* be destroyed and made again.                                            *)
(*                                                                         *)
(* x, in the operators that are functions of the code, is the state of all *)
(* objects and the mode, with what was told to the light hook on the way.  *)
(* A unit of time is Tick ticks. Left out: names, statistics and warnings, *)
(* the sensor ids that are refused, the sums of RegisterSync and the count *)
(* of failures, which nothing reads but warnings; of what is told, whether *)
(* a sweep follows a sync, and the event that ends a sweep.                *)
(***************************************************************************)
EXTENDS Integers, Sequences, FiniteSetsExt, Functions

CONSTANTS
  Objects,        \* the devices
  Sensors,        \* so->sensor_ct sensors
  Tick,           \* ticks in a unit
  Clock,          \* 2^32 ticks, the range of timestamps
  HistoryLen,     \* SYNC_HISTORY_LEN, 12
  Warmup,         \* 200, pulses that are not looked at
  MaxConfidence,  \* 100
  Trusted,        \* 80, the confidence above which light is told
  Penalty,        \* 3, for a pulse that is no sync where one is expected
  Decay,          \* 10, for each second without light
  Second,         \* so->timebase_hz
  Frames,         \* the data that may be sent
  Boots,          \* what a device's clock may show at time 0
  Places,         \* where in its window a sweep may hit
  Lengths,        \* how long a sweep's pulse may be
  Strays,         \* where in a slot other light may hit
  MaxTurns,       \* bound on the slots
  MaxFaults       \* bound on what goes wrong

Ticks(n) == n \div Tick

PulseWindow   == Ticks(20000)
CaptureWindow == Ticks(360000)

ASSUME DisambiguatorAssumption ==
  /\ Tick \in Nat \ {0} /\ Clock \in Nat \ {0} /\ HistoryLen \in Nat \ {0}
  /\ PulseWindow > 0 /\ CaptureWindow > 0
  /\ Frames \subseteq Seq({0, 1}) \ {<<>>}
  /\ {Warmup, MaxConfidence, Trusted, Penalty, Decay, MaxTurns, MaxFaults} \subseteq Nat
  /\ Second \in Nat \ {0}
  /\ Boots \cup Places \cup Lengths \cup Strays \subseteq Nat

-----------------------------------------------------------------------------
(* The table LS_Params                                                     *)

Unknown == 0   \* LS_UNKNOWN
B0      == 7   \* LS_WaitLHB_ACode0, where the second half starts
End     == 13  \* LS_END
Acode   == <<4, 0, 4,  5, 1, 1,  0, 4, 4,  1, 5, 5,  0>>
Lh      == <<1, 0, 0,  1, 0, 0,  1, 0, 1,  1, 0, 1, -1>>

IsSweep(s) == s \in {3, 6, 9, 12}
Syncs      == (1 .. 12) \ {3, 6, 9, 12}

(* LSParam_offset_for_state: the windows of the states before.             *)
Offset == [s \in 1 .. End |->
             LET sweeps == (s - 1) \div 3
             IN  (s - 1 - sweeps) * PulseWindow + sweeps * CaptureWindow]

EndOfMod(mode60) == IF mode60 THEN Offset[B0] ELSE Offset[End]

\* A unit tells 500 ticks, and two cycles are in the clock's range (1.6 million
\* ticks each, in one of 2^32).
ASSUME ClockAssumption == Tick <= 500 /\ 2 * Offset[End] < Clock

Abs(n) == IF n < 0 THEN -n ELSE n

AcodeTiming(a) == Ticks(2750) + (a % 2) * Ticks(500) + ((a \div 2) % 2) * Ticks(1000)
                              + (a \div 4) * Ticks(2000)

(* calculate_error: with or without the data bit, whichever fits better.   *)
CalculateError(a, length) ==
  LET d0 == Abs(AcodeTiming(a) - length)
      d1 == Abs(AcodeTiming(a + 2) - length)
  IN  IF d0 > d1 THEN d1 ELSE d0

(* LighthouseState_findByOffset: the state that starts closest to offset,  *)
(* but the end of a sweep is not given away.                               *)
Closest(i, last, this) ==
  IF last > this /\ ~(IsSweep(i - 1) /\ this > Ticks(1000))
  THEN [state |-> i, error |-> this]
  ELSE [state |-> i - 1, error |-> last]

FindByOffset(offset) ==
  LET window(i) == Closest(i, offset - Offset[i - 1], Offset[i] - offset)
  IN  window(CHOOSE i \in 2 .. End : Offset[i - 1] <= offset /\ offset < Offset[i])

(* apply_mod_offset, with its 0xFFFFFFFF.                                  *)
ApplyModOffset(timestamp, mod, group) ==
  IF timestamp > mod THEN (timestamp - mod) % group
  ELSE IF mod - timestamp > (Clock - 1) \div 2 THEN (Clock - 1 - mod + timestamp) % group
  ELSE ((timestamp % group) - (mod % group)) % group

-----------------------------------------------------------------------------
(* Disambiguator_data_t, as SV_CALLOC makes it at the first pulse          *)

Timestamps == 0 .. Clock - 1

\* A sweep hits in its own window.
ASSUME PlacesAssumption == \A place \in Places : place < CaptureWindow

\* History, which no code sees: a pulse that is a lighthouse's sync has the time of
\* it, in full, as of; the syncs made of pulses keep it; and base is the time of
\* the start of the cycle that mod was taken for.
None  == -1
Light == [timestamp : Timestamps, length : Int, of : Nat \cup {None}]

NoLight == [timestamp |-> 0, length |-> 0, of |-> None]

Blank == [state |-> Unknown, mod |-> [l \in {0, 1} |-> 0], confidence |-> 0,
          first |-> 0, longest |-> 0, count |-> 0,   \* the sync being registered
          lastWasSync |-> FALSE, history |-> <<>>,   \* oldest first
          sweep |-> [s \in Sensors |-> NoLight],
          last |-> 0, stabalize |-> 0,
          of |-> None, base |-> [l \in {0, 1} |-> 0]]

LastSync(d) == IF d.count = 0 THEN NoLight
               ELSE [timestamp |-> d.first, length |-> d.longest, of |-> d.of]

\* Mutant of AddSyncHistory: nothing is overwritten.
AddSyncHistoryStops(history, sync) ==
  IF sync.length = 0 \/ Len(history) = HistoryLen THEN history ELSE Append(history, sync)

(* AddSyncHistory: the array is a ring of the last ones, full or not.      *)
AddSyncHistory(history, sync) ==
  IF sync.length = 0 THEN history
  ELSE IF Len(history) < HistoryLen THEN Append(history, sync)
  ELSE Append(Tail(history), sync)

ResetSync(d) == [d EXCEPT !.first = 0, !.longest = 0, !.count = 0, !.of = None]

\* Whose time is first, if all that is registered are syncs, and one while the
\* state is looked for.
Registered(d, le) ==
  IF d.count = 0 THEN le.of
  ELSE IF None \in {d.of, le.of} \/ (d.state = Unknown /\ d.of # le.of) THEN None
  ELSE IF le.timestamp < d.first \/ d.longest = 0 THEN le.of ELSE d.of

RegisterSync(d, le) ==
  [d EXCEPT !.first   = IF le.timestamp < @ \/ d.longest = 0 THEN le.timestamp ELSE @,
            !.longest = IF le.length > @ THEN le.length ELSE @,
            !.count   = @ + 1,
            !.of      = Registered(d, le)]

(* overlaps(a, b), of which a is half covered when the answer is yes.      *)
OverlapArea(a, b) ==
  LET aEnd == (a.timestamp + a.length) % Clock
      bEnd == (b.timestamp + b.length) % Clock
  IN  IF aEnd < b.timestamp THEN 0
      ELSE ((IF bEnd > aEnd THEN aEnd ELSE bEnd) - b.timestamp) % Clock

Overlaps(a, b) ==
  (IF a.timestamp > b.timestamp THEN OverlapArea(b, a) ELSE OverlapArea(a, b)) > a.length \div 2

(* get_best_latest_state finds one.                                        *)
BestKnown(x) == \E o \in Objects : x.d[o].state # Unknown /\ x.d[o].confidence > 0

\* Mutant of SetState: the 60Hz mode is forgotten whoever still follows it.
SetStateForgets(x, o, s) ==
  [x EXCEPT !.d[o] = [ResetSync(@) EXCEPT !.state = IF s >= End THEN 1 ELSE s,
                                          !.history = IF s = Unknown THEN <<>> ELSE @,
                                          !.sweep = Blank.sweep],
            !.mode60 = @ /\ s # Unknown]

SetState(x, o, s) ==
  LET y == [x EXCEPT !.d[o] = [ResetSync(@) EXCEPT
                                 !.state = IF s >= End THEN 1 ELSE s,
                                 !.history = IF s = Unknown THEN <<>> ELSE x.d[o].history,
                                 !.sweep = Blank.sweep]]
  IN  [y EXCEPT !.mode60 = @ /\ (s # Unknown \/ BestKnown(y))]

-----------------------------------------------------------------------------
(* Finding the state                                                       *)

(* One turn of the loop in find_inliers.                                   *)
Inlier(sync, mod, test60) ==
  LET fits(f) == /\ ~IsSweep(f.state)
                 /\ test60 => Lh[f.state] = 0
                 /\ CalculateError(Acode[f.state], sync.length) < Ticks(500)
                 /\ f.error < Ticks(500)
  IN  fits(FindByOffset(ApplyModOffset(sync.timestamp, mod, EndOfMod(test60))))

ModFor(sync, s) == (sync.timestamp - Offset[s]) % Clock

\* Mutant of Guesses: one sync of the history may be no inlier.
GuessesSlack(x, history) ==
  IF Len(history) < HistoryLen THEN {}
  ELSE {g \in Syncs \X BOOLEAN :
          /\ g[2] => g[1] < B0
          /\ BestKnown(x) => g[2] = x.mode60
          /\ Cardinality({k \in 1 .. HistoryLen :
               ~Inlier(history[k], ModFor(history[HistoryLen], g[1]), g[2])}) <= 1}

(* find_relative_offset: the first guess for the last sync, 60Hz mode after*)
(* the other, of which all of the history are inliers.                     *)
Guesses(x, history) ==
  IF Len(history) < HistoryLen THEN {}
  ELSE {g \in Syncs \X BOOLEAN :
          /\ g[2] => g[1] < B0
          /\ BestKnown(x) => g[2] = x.mode60
          /\ \A k \in 1 .. HistoryLen :
               Inlier(history[k], ModFor(history[HistoryLen], g[1]), g[2])}

Rank(g) == 2 * g[1] + (IF g[2] THEN 1 ELSE 0)
FirstGuess(guesses) == CHOOSE g \in guesses : \A h \in guesses : Rank(g) <= Rank(h)

(* The state is found: EndSync, and DisambiguatorStateBased afterwards.    *)
Lock(x, o, history, g) ==
  LET mod   == ModFor(history[HistoryLen], g[1])
      start == history[HistoryLen].of - Offset[g[1]]
      found == [x.d[o] EXCEPT !.history = history, !.mod = [l \in {0, 1} |-> mod],
                              !.confidence = 0, !.base = [l \in {0, 1} |-> start]]
  IN  SetState([x EXCEPT !.d[o] = found, !.mode60 = g[2]], o, g[1])

EndSync(x, o) ==
  LET search(history, guesses) ==
        IF guesses = {} THEN [x EXCEPT !.d[o] = [x.d[o] EXCEPT !.history = history]]
        ELSE Lock(x, o, history, FirstGuess(guesses))
      try(history) == search(history, Guesses(x, history))
  IN  try(AddSyncHistory(x.d[o].history, LastSync(x.d[o])))

(* AttemptFindState. What ends a sync may find the state; otherwise a pulse*)
(* of a sync's length is registered.                                       *)
AttemptFindState(x, o, le) ==
  LET d      == x.d[o]
      isSync == le.length \in Ticks(2250) .. Ticks(6750)
      anew   == isSync => (~d.lastWasSync \/ ~Overlaps(LastSync(d), le))
      e(y)   == IF anew THEN ResetSync(y.d[o]) ELSE y.d[o]
      go(y)  == IF y.d[o].state # Unknown THEN y
                ELSE IF ~isSync THEN [y EXCEPT !.d[o] = [y.d[o] EXCEPT !.lastWasSync = FALSE]]
                ELSE [y EXCEPT !.d[o] = [RegisterSync(e(y), le) EXCEPT !.lastWasSync = TRUE]]
  IN  go(IF d.lastWasSync /\ anew THEN EndSync(x, o) ELSE x)

-----------------------------------------------------------------------------
(* Following the cycle                                                     *)

Centre(le) == (le.timestamp + le.length \div 2) % Clock

\* Mutant of LeaveSync: which acode is closer is asked without regard to sign.
LeaveSyncNoAbs(x, o) ==
  LET d       == x.d[o]
      sync    == LastSync(d)
      a       == Acode[d.state]
      hasData == AcodeTiming(a + 2) - sync.length < AcodeTiming(a) - sync.length
      event   == [kind |-> "sync", object |-> o, lh |-> Lh[d.state],
                  acode |-> IF hasData THEN a + 2 ELSE a,
                  at |-> sync.timestamp, length |-> sync.length]
  IN  IF d.count = 0 THEN x
      ELSE [x EXCEPT !.d[o] = [d EXCEPT !.history = AddSyncHistory(d.history, sync),
                                        !.mod[Lh[d.state]] = ModFor(sync, d.state),
                                        !.base[Lh[d.state]] = sync.of - Offset[d.state]],
                     !.told = IF d.confidence > Trusted THEN x.told \cup {event} ELSE x.told]

(* Leaving a sync: where the cycle starts is taken from it, and its acode  *)
(* is told, with the data bit that fits it better.                         *)
LeaveSync(x, o) ==
  LET d       == x.d[o]
      sync    == LastSync(d)
      a       == Acode[d.state]
      hasData == Abs(AcodeTiming(a + 2) - sync.length) < Abs(AcodeTiming(a) - sync.length)
      event   == [kind |-> "sync", object |-> o, lh |-> Lh[d.state],
                  acode |-> IF hasData THEN a + 2 ELSE a,
                  at |-> sync.timestamp, length |-> sync.length]
  IN  IF d.count = 0 THEN x
      ELSE [x EXCEPT !.d[o] = [d EXCEPT !.history = AddSyncHistory(d.history, sync),
                                        !.mod[Lh[d.state]] = ModFor(sync, d.state),
                                        !.base[Lh[d.state]] = sync.of - Offset[d.state]],
                     !.told = IF d.confidence > Trusted THEN x.told \cup {event} ELSE x.told]

\* Mutant of LeaveSweep: timed from the sync before the sweep, whoever's.
LeaveSweepLastSync(x, o) ==
  LET d       == x.d[o]
      lit     == {s \in Sensors : d.sweep[s].length > Ticks(100)}
      from(s) == ApplyModOffset(Centre(d.sweep[s]), d.mod[Lh[d.state]], EndOfMod(x.mode60))
                   - Offset[d.state - 1]
      events  == {[kind |-> "sweep", object |-> o, lh |-> Lh[d.state], acode |-> Acode[d.state],
                   at |-> d.sweep[s].timestamp, length |-> d.sweep[s].length,
                   sensor |-> s, offset |-> from(s)] : s \in lit}
  IN  IF lit = {} THEN x
      ELSE [x EXCEPT !.behind = x.behind \/ \E e \in events : e.offset <= 0,
                     !.told = IF d.confidence > Trusted THEN x.told \cup events ELSE x.told]

LitLength(sweep, lit) == MapThenSumSet(LAMBDA s : sweep[s].length, lit)

DivRoundClosest(n, k) == (n + k \div 2) \div k

(* Leaving a sweep: the hits whose length is not far from the average are  *)
(* told, with the time since the sync of the lighthouse that swept.        *)
LeaveSweep(x, o) ==
  LET d       == x.d[o]
      lh      == Lh[d.state]
      lit     == {s \in Sensors : d.sweep[s].length > Ticks(100)}
      total   == LitLength(d.sweep, lit)
      minl    == DivRoundClosest(total, 4 * Cardinality(lit))
      maxl    == 3 * DivRoundClosest(total, Cardinality(lit))
      kept    == {s \in Sensors : d.sweep[s].length \in (minl .. maxl) \ {0}}
      from(s) == ApplyModOffset(Centre(d.sweep[s]), d.mod[lh], EndOfMod(x.mode60))
                   - Offset[d.state - 1 - lh]
      events  == {[kind |-> "sweep", object |-> o, lh |-> lh, acode |-> Acode[d.state],
                   at |-> d.sweep[s].timestamp, length |-> d.sweep[s].length,
                   sensor |-> s, offset |-> from(s)] : s \in kept}
  IN  IF lit = {} THEN x
      ELSE [x EXCEPT !.behind = x.behind \/ \E e \in events : e.offset <= 0,
                     !.told = IF d.confidence > Trusted THEN x.told \cup events ELSE x.told]

ProcessStateChange(x, o, s) ==
  SetState(IF IsSweep(x.d[o].state) THEN LeaveSweep(x, o) ELSE LeaveSync(x, o), o, s)

(* A pulse in a window of syncs: a hit is registered, a miss costs, and    *)
(* when there is too little confidence to pay the state is given up.       *)
RunACodeCapture(x, o, le) ==
  LET d == x.d[o]
      y == IF d.confidence < Penalty THEN SetState(x, o, Unknown) ELSE x
      e == RegisterSync(d, le)
  IN  IF le.length < Ticks(400) THEN x
      ELSE IF CalculateError(Acode[d.state], le.length) > Ticks(800)
      THEN [y EXCEPT !.d[o] = [y.d[o] EXCEPT !.confidence = @ - Penalty]]
      ELSE [x EXCEPT !.d[o] = [e EXCEPT !.confidence = IF @ < MaxConfidence THEN @ + 1 ELSE @]]

(* A pulse in a window of a sweep: the longest of each sensor is kept.     *)
CaptureSweep(x, o, s, le) ==
  LET d == x.d[o]
  IN  IF le.length <= d.sweep[s].length \/ le.length >= Ticks(10000) THEN x
      ELSE [x EXCEPT !.d[o] = [d EXCEPT !.sweep[s] = le,
                                        !.confidence = IF le.length > Ticks(3000) THEN @ - 1 ELSE @]]

(* PropagateState: the window of the pulse, by the offset of the lighthouse*)
(* whose state it is now.                                                  *)
PropagateState(x, o, s, le) ==
  LET d == x.d[o]
      k == FindByOffset(ApplyModOffset(Centre(le), d.mod[Lh[d.state]], EndOfMod(x.mode60))).state
      capture(y) == IF IsSweep(y.d[o].state) THEN CaptureSweep(y, o, s, le)
                    ELSE RunACodeCapture(y, o, le)
  IN  capture(IF k = d.state THEN x ELSE ProcessStateChange(x, o, k))

(* survive_timecode_difference                                             *)
Difference(a, b) == IF Abs(a - b) > (Clock - 1) \div 2 THEN Clock - 1 - Abs(a - b) ELSE Abs(a - b)

Heed(x, o, le) == [x EXCEPT !.d[o] = [x.d[o] EXCEPT !.last = le.timestamp]]

(* DisambiguatorStateBased for a pulse le on sensor s. After a second      *)
(* without light some confidence is lost for each.                         *)
StateBased(x, o, s, le) ==
  LET d      == x.d[o]
      diff   == Difference(le.timestamp, d.last)
      silent == IF diff > Second THEN (diff \div Second) * Decay ELSE 0
      y      == [x EXCEPT !.d[o] = [d EXCEPT !.confidence = @ - silent]]
  IN  IF d.stabalize < Warmup
      THEN [x EXCEPT !.d[o] = [d EXCEPT !.stabalize = @ + 1]]
      ELSE IF d.state = Unknown THEN Heed(AttemptFindState(x, o, le), o, le)
      ELSE IF diff > Second /\ d.confidence < silent THEN SetState(x, o, Unknown)
      ELSE Heed(PropagateState(y, o, s, le), o, le)

-----------------------------------------------------------------------------
VARIABLES
  disamb,     \* so->disambiguator_data of each object
  mode60,     \* single_60hz_mode
  told,       \* what the last pulse made the light hook be called with
  behind,     \* it placed a sweep before its sync
  boot,       \* what the clock of each device showed at time 0
  world60,    \* lighthouse 0 is alone, in 60Hz mode
  sight,      \* the lighthouses in sight
  data,       \* the data bits of the syncs, slot by slot
  now,        \* the start of this slot
  unhit,      \* the sensors that may still see its light
  turns, faults,
  \* what the properties compare the code's state with
  heard,      \* the last sync an object saw, and whether the one before was a
              \* cycle or more earlier
  clean,      \* how many syncs in a row an object saw, undisturbed
  astray      \* something misled the object that it does not notice

code  == <<disamb, mode60, told, behind>>
light == <<boot, world60, sight, data, now, unhit, turns, faults>>
vars  == <<code, light, heard, clean, astray>>

Group     == EndOfMod(world60)
SlotAt(t) == CHOOSE k \in 1 .. 12 : Offset[k] <= t % Group /\ t % Group < Offset[k + 1]
Slot      == SlotAt(now)
Window(k) == Offset[k + 1] - Offset[k]
Stamp(o, t) == (t + boot[o]) % Clock
Lit       == Lh[Slot] \in sight
Known(o)  == disamb[o].state # Unknown

IsSyncLength(length) == length \in Ticks(2250) .. Ticks(6750)

(* Where o takes the cycle to be at time t.                                *)
Seen(o, t) == ApplyModOffset(Stamp(o, t), disamb[o].mod[Lh[disamb[o].state]], EndOfMod(mode60))

(* A unit is lost where a clock of 2^32 ticks is taken for one shorter.    *)
Near(a, b) == (a - b) % Group \in {0, 1, Group - 1}

(* A lone lighthouse of two looks as the other does half a cycle later.    *)
Alias == IF Cardinality(sight) = 1 /\ ~world60
         THEN {Offset[8], Offset[End] - Offset[8]} ELSE {}

Tracks(o) == /\ Known(o) /\ mode60 = world60
             /\ \E a \in {0} \cup Alias : Near(Seen(o, now), now + a)

MaxClean == Warmup + 2 * HistoryLen + 2

Init ==
  /\ disamb = [o \in Objects |-> Blank] /\ mode60 = FALSE
  /\ told = {} /\ behind = FALSE
  /\ boot \in [Objects -> Boots] /\ world60 \in BOOLEAN
  /\ sight \in IF world60 THEN {{0}} ELSE {{0}, {1}, {0, 1}}
  /\ data \in Frames /\ now = 0 /\ unhit = Objects \X Sensors /\ turns = 0 /\ faults = 0
  /\ heard = [o \in Objects |-> [at |-> 0, bit |-> 0, again |-> FALSE]]
  /\ clean = [o \in Objects |-> 0] /\ astray = [o \in Objects |-> FALSE]

(* The syncs a state was found from tell where the cycle is: of those less *)
(* than half the clock's range before the last one, with no wrap of it in  *)
(* between, there are some of both lighthouses; or, when one is alone, of  *)
(* both halves of the cycle, or of an odd and an even repetition of one.   *)
Telling(o, history) ==
  LET last    == history[HistoryLen].of
      Before(t) == t <= last /\ Stamp(o, t) + (last - t) = Stamp(o, last) /\ 2 * (last - t) < Clock
      times   == {le.of : le \in Range(history)} \ {None}
      whose   == {Lh[SlotAt(t)] : t \in {u \in times : Before(u)}}
      second  == {t % Offset[End] >= Offset[B0] : t \in {u \in times : Before(u)}}
  IN  /\ last # None
      /\ whose = {0, 1} \/ ((world60 \/ whose = sight) /\ second = BOOLEAN)

(* What is registered in a window of syncs is no lighthouse's.             *)
Misled(d) == d.count > 0 /\ d.of = None

(* Within a slot and a sync of time t its cycle is from half the clock's   *)
(* range ago.                                                              *)
Stale(d, t) == 2 * (t + CaptureWindow + PulseWindow - d.base[Lh[d.state]]) >= Clock

Heard(o, b) ==
  heard' = [heard EXCEPT ![o] =
              [at |-> now, bit |-> b,
               again |-> IF @.at = now THEN @.again ELSE (now - @.at) % Group = 0]]

(* Objects that have just found their state do not keep the 60Hz mode from *)
(* being forgotten, or found anew, by another.                             *)
Unsure(o) == Known(o) /\ disamb[o].confidence <= 0

(* A pulse on sensor s of o reaches the disambiguator.                     *)
Pulse(o, s, le) ==
  /\ \E x \in {StateBased([d |-> disamb, mode60 |-> mode60, told |-> {}, behind |-> FALSE], o, s, le)} :
       disamb' = x.d /\ mode60' = x.mode60 /\ told' = x.told /\ behind' = x.behind
  /\ unhit' = unhit \ {<<o, s>>}
  /\ astray' = [p \in Objects |->
                  IF p # o THEN astray[p] \/ (Unsure(p) /\ mode60' # mode60)
                  ELSE LET d == disamb'[p]
                       IN  \/ Known(p) /\ astray[p]
                           \/ /\ d.state # Unknown
                              /\ Misled(d) \/ Stale(d, now) \/ (~Known(p) /\ ~Telling(p, d.history))]

(* The data bit of this slot's sync, and how long the sync is.            *)
Bit        == data[(turns % Len(data)) + 1]
SyncLength == AcodeTiming(Acode[Slot] + 2 * Bit)

Sync(o, s) ==
  /\ Lit /\ ~IsSweep(Slot) /\ <<o, s>> \in unhit
  /\ Pulse(o, s, [timestamp |-> Stamp(o, now), length |-> SyncLength, of |-> now])
  /\ Heard(o, Bit)
  /\ UNCHANGED <<boot, world60, sight, data, now, turns, faults, clean>>

(* A sweep close to a lighthouse is as long as a sync, which is a fault.   *)
Sweep(o, s) ==
  /\ Lit /\ IsSweep(Slot) /\ <<o, s>> \in unhit
  /\ \E place \in Places, length \in Lengths :
       LET long == IsSyncLength(length)
       IN  /\ faults' = faults + (IF long THEN 1 ELSE 0) /\ faults' <= MaxFaults
           /\ Pulse(o, s, [timestamp |-> Stamp(o, now + place), length |-> length, of |-> None])
           /\ clean' = IF long /\ ~Known(o) THEN [clean EXCEPT ![o] = 0] ELSE clean
  /\ UNCHANGED <<boot, world60, sight, data, now, turns, heard>>

(* Light from elsewhere, a reflection or the sun.                          *)
Stray(o, s) ==
  /\ faults < MaxFaults /\ faults' = faults + 1
  /\ \E place \in Strays, length \in Lengths :
       /\ place < Window(Slot)
       /\ Pulse(o, s, [timestamp |-> Stamp(o, now + place), length |-> length, of |-> None])
  /\ clean' = [clean EXCEPT ![o] = 0]
  /\ UNCHANGED <<boot, world60, sight, data, now, turns, heard>>

(* The next slot. A sync in sight that was not seen counts as a fault.     *)
Turn ==
  LET missed == IF Lit /\ ~IsSweep(Slot)
                THEN {o \in Objects : \E s \in Sensors : <<o, s>> \in unhit} ELSE {}
  IN  /\ turns < MaxTurns /\ turns' = turns + 1
      /\ faults + Cardinality(missed) <= MaxFaults /\ faults' = faults + Cardinality(missed)
      /\ now' = now + Window(Slot)
      /\ unhit' = Objects \X Sensors
      /\ clean' = [o \in Objects |->
                     IF o \in missed \/ astray[o] THEN 0
                     ELSE IF Lit /\ ~IsSweep(Slot) /\ clean[o] < MaxClean THEN clean[o] + 1 ELSE clean[o]]
      /\ astray' = [o \in Objects |-> Known(o) /\ (astray[o] \/ Stale(disamb[o], now'))]
      /\ told' = {} /\ behind' = FALSE
      /\ UNCHANGED <<disamb, mode60, boot, world60, sight, data, heard>>

(* Lighthouses come into sight, or are hidden.                             *)
Look ==
  /\ faults < MaxFaults /\ faults' = faults + 1
  /\ sight' \in (SUBSET IF world60 THEN {0} ELSE {0, 1}) \ {sight}
  /\ clean' = [o \in Objects |-> 0]
  /\ told' = {} /\ behind' = FALSE
  /\ astray' = [o \in Objects |-> astray[o] \/ (Known(o) /\ ~Near(Seen(o, now), now))]
  /\ UNCHANGED <<disamb, mode60, boot, world60, data, now, unhit, turns, heard>>

(* survive_destroy_device: the hook is called without a pulse, and what all*)
(* objects share is freed. The device comes back, or another.              *)
Destroy(o) ==
  /\ faults < MaxFaults /\ faults' = faults + 1
  /\ disamb' = [disamb EXCEPT ![o] = Blank] /\ mode60' = FALSE
  /\ told' = {} /\ behind' = FALSE
  /\ clean' = [clean EXCEPT ![o] = 0]
  /\ astray' = [p \in Objects |-> p # o /\ (astray[p] \/ (Known(p) /\ mode60))]
  /\ UNCHANGED <<boot, world60, sight, data, now, unhit, turns, heard>>

Next == \/ Turn \/ Look
        \/ \E o \in Objects : \/ Destroy(o)
                              \/ \E s \in Sensors : Sync(o, s) \/ Sweep(o, s) \/ Stray(o, s)

Spec == Init /\ [][Next]_vars

-----------------------------------------------------------------------------
(* The properties                                                          *)

Memory == [state : 0 .. 12, mod : [{0, 1} -> Timestamps], confidence : Int,
           first : Timestamps, longest : Int, count : Nat, lastWasSync : BOOLEAN,
           history : Seq(Light), sweep : [Sensors -> Light],
           last : Timestamps, stabalize : 0 .. Warmup,
           of : Nat \cup {None}, base : [{0, 1} -> Int]]

Events ==
  [kind : {"sync"}, object : Objects, lh : {0, 1}, acode : Int, at : Timestamps, length : Int]
  \cup [kind : {"sweep"}, object : Objects, lh : {0, 1}, acode : Int, at : Timestamps, length : Int,
        sensor : Sensors, offset : Int]

(* The data of an object stays well-formed: its state in the table, times  *)
(* and offsets in 32 bits, at most SYNC_HISTORY_LEN syncs, a confidence of *)
(* at most 100 (below there is no limit).                                  *)
TypeOK ==
  /\ disamb \in [Objects -> Memory] /\ mode60 \in BOOLEAN
  /\ \A o \in Objects : Len(disamb[o].history) <= HistoryLen /\ disamb[o].confidence <= MaxConfidence
  /\ told \subseteq Events /\ behind \in BOOLEAN
  /\ boot \in [Objects -> Boots] /\ world60 \in BOOLEAN /\ data \in Frames
  /\ now \in Nat /\ turns \in Nat

(* An object that knows its state is right about it: where it takes the    *)
(* cycle to be at any time is where the cycle is, in the mode the          *)
(* lighthouses are in, over wraps of the clock, misses, stray light and    *)
(* whatever the other object does (EndSync, SetState, PropagateState). Of  *)
(* two lighthouses one alone may be taken for the other, half a cycle away.*)
(* Left out are objects that are astray: what is no sync was registered as *)
(* one, the syncs the state was found from do not tell where the cycle is, *)
(* the cycle followed is from half the clock's range ago, or the mode was  *)
(* lost to another object.                                                 *)
LockRight == \A o \in Objects : Known(o) /\ ~astray[o] => Tracks(o)

(* The time of a stamp, of those up to the end of this slot.               *)
TimeOf(o, stamp) == LET end == now + Window(Slot) IN end - ((Stamp(o, end) - stamp) % Clock)

(* A sync that is told to the light hook is one the object saw: with the   *)
(* time it began, the acode of its slot, the data bit that was sent and the*)
(* lighthouse that sent it (ProcessStateChange). Two syncs a cycle or more *)
(* apart with no light between are merged into one, whose bit is then      *)
(* either's.                                                               *)
SyncTrue ==
  [][\A e \in told' :
       e.kind = "sync" /\ ~astray'[e.object] =>
         LET h == heard[e.object]
             t == TimeOf(e.object, e.at)
             k == SlotAt(t)
         IN  /\ t = h.at \/ (h.again /\ (h.at - t) % Group = 0)
             /\ e.acode - Acode[k] \in IF h.again THEN {0, 2} ELSE {2 * h.bit}
             /\ Alias = {} => e.lh = Lh[k]]_vars

(* The sync of the lighthouse that sweeps in slot k.                       *)
OwnSync(k) == k - 1 - Lh[k]

(* A sweep that is told has the time since the sync of the lighthouse that *)
(* swept, from which the angle is computed, and its axis; and a sweep is   *)
(* never placed before its sync, which an assertion demands                *)
(* (ProcessStateChange, disambiguator_statebased.c:686).                   *)
AngleTrue ==
  [][/\ behind' => \E o \in Objects : astray'[o]
     /\ \A e \in told' :
          e.kind = "sweep" /\ ~astray'[e.object] =>
            LET t == TimeOf(e.object, e.at) + e.length \div 2
                k == SlotAt(t)
            IN  IsSweep(k) /\ Lh[k] \in sight =>
                  /\ Near(e.offset, (t % Group) - Offset[OwnSync(k)])
                  /\ e.acode % 2 = Acode[k] % 2
                  /\ Alias = {} => e.lh = Lh[k]]_vars

(* An object whose state others may rely on (get_best_latest_state).       *)
Sure(o) == Known(o) /\ disamb[o].confidence > 0

(* The mode that all objects share is not changed by one of them while     *)
(* another is sure of its state (find_relative_offset, SetState), except   *)
(* that the destruction of a device frees what they share.                 *)
ModeKept ==
  [][mode60' # mode60 => \/ \E o \in Objects : Destroy(o)
                        \/ \E o \in Objects : \A p \in Objects \ {o} : ~Sure(p)]_vars

(* An object that sees undisturbed syncs for the length of two histories   *)
(* follows the cycle: whatever it took light for before, and wherever in   *)
(* its history the clock wrapped, it is not kept from finding its state    *)
(* (AttemptFindState, AddSyncHistory, find_inliers).                       *)
Restabilises == \A o \in Objects : clean[o] = MaxClean /\ ~astray[o] => Tracks(o)
=============================================================================
