------------------------ MODULE Disambiguator_proofs ------------------------
(***************************************************************************)
(* The disambiguator, for any devices, sensors, clock, windows and limits. *)
(* A step of the code is a relation of the state before and after it that  *)
(* has the right type, leaves the other objects alone and does not touch   *)
(* the mode they share while one of them is sure of it. An object that     *)
(* knows its state is right about it for three reasons: the syncs of a     *)
(* cycle have, by their acodes, one place in it where all of them fit (in  *)
(* GuessRight); a sync is put in the window it starts, and where the cycle *)
(* starts is taken from it again (SyncPlaced, ChangeFollows); and nobody   *)
(* else's steps change what it goes by.                                    *)
(* What is told to the light hook is of what was registered in one window  *)
(* (PulseTells), which is the sync heard last (HeardInv) or a sweep whose  *)
(* middle was in it (HitInv).                                              *)
(***************************************************************************)
EXTENDS Disambiguator, FiniteSetTheorems, SequenceTheorems, WellFoundedInduction, TLAPS

States == [d : [Objects -> Memory], mode60 : BOOLEAN, told : SUBSET Events, behind : BOOLEAN]

Within(m) == m \in Memory /\ Len(m.history) <= HistoryLen /\ m.confidence <= MaxConfidence

Good(x) == x \in States /\ \A o \in Objects : Within(x.d[o])

\* An object other than o keeps the mode.
Kept(x, o) == \E p \in Objects \ {o} : x.d[p].state # Unknown /\ x.d[p].confidence > 0

Step(x, y, o) ==
  /\ Good(y)
  /\ \A p \in Objects \ {o} : y.d[p] = x.d[p]
  /\ Kept(x, o) => y.mode60 = x.mode60

-----------------------------------------------------------------------------
(* The table of offsets, and arithmetic on them                            *)

LEMMA OffsetTable ==
  /\ Offset \in [1 .. 13 -> Nat]
  /\ Offset[1] = 0
  /\ \A k \in 1 .. 12 : Offset[k] < Offset[k + 1]
<1> DEFINE P == PulseWindow
           C == CaptureWindow
<1>1. P \in Nat \ {0} /\ C \in Nat \ {0}
  BY DisambiguatorAssumption DEF PulseWindow, CaptureWindow, Ticks
<1> HIDE DEF P, C
<1>2. Offset = [s \in 1 .. 13 |-> (s - 1 - ((s - 1) \div 3)) * P + ((s - 1) \div 3) * C]
  BY DEF Offset, End, P, C
<1>3. /\ Offset[1] = 0 /\ Offset[2] = P /\ Offset[3] = 2 * P
      /\ Offset[4] = 2 * P + C /\ Offset[5] = 3 * P + C /\ Offset[6] = 4 * P + C
      /\ Offset[7] = 4 * P + 2 * C /\ Offset[8] = 5 * P + 2 * C /\ Offset[9] = 6 * P + 2 * C
      /\ Offset[10] = 6 * P + 3 * C /\ Offset[11] = 7 * P + 3 * C /\ Offset[12] = 8 * P + 3 * C
      /\ Offset[13] = 8 * P + 4 * C
  BY <1>1, <1>2
<1>4. DOMAIN Offset = 1 .. 13 BY <1>2
<1>5. \A k \in 1 .. 13 : Offset[k] \in Nat
  <2> SUFFICES ASSUME NEW k \in 1 .. 13 PROVE Offset[k] \in Nat OBVIOUS
  <2>1. k \in {1, 2, 3, 4, 5, 6, 7, 8, 9, 10, 11, 12, 13} OBVIOUS
  <2> QED BY <2>1, <1>1, <1>3
<1>6. \A k \in 1 .. 12 : Offset[k] < Offset[k + 1]
  <2> SUFFICES ASSUME NEW k \in 1 .. 12 PROVE Offset[k] < Offset[k + 1] OBVIOUS
  <2>1. k \in {1, 2, 3, 4, 5, 6, 7, 8, 9, 10, 11, 12} OBVIOUS
  <2> QED BY <2>1, <1>1, <1>3
<1> QED BY <1>2, <1>3, <1>4, <1>5, <1>6

LEMMA GroupType ==
  ASSUME NEW m \in BOOLEAN PROVE EndOfMod(m) \in Nat \ {0} /\ EndOfMod(m) <= Offset[13]
<1>1. Offset \in [1 .. 13 -> Nat] /\ \A k \in 1 .. 12 : Offset[k] < Offset[k + 1]
  BY OffsetTable
<1>2. /\ Offset[6] < Offset[7] /\ Offset[7] < Offset[8] /\ Offset[8] < Offset[9]
      /\ Offset[9] < Offset[10] /\ Offset[10] < Offset[11] /\ Offset[11] < Offset[12]
      /\ Offset[12] < Offset[13]
  BY <1>1, 6 + 1 = 7, 7 + 1 = 8, 8 + 1 = 9, 9 + 1 = 10, 10 + 1 = 11, 11 + 1 = 12, 12 + 1 = 13
<1>3. Offset[7] \in Nat /\ Offset[13] \in Nat /\ Offset[6] \in Nat /\ Offset[8] \in Nat /\ Offset[9] \in Nat
      /\ Offset[10] \in Nat /\ Offset[11] \in Nat /\ Offset[12] \in Nat
  BY <1>1
<1> QED BY <1>2, <1>3 DEF EndOfMod, End, B0

\* The windows cover the cycle: a pulse is in one of them, whenever it is.
LEMMA InSomeWindow ==
  ASSUME NEW n \in Nat, n < Offset[13]
  PROVE  \E k \in 1 .. 12 : Offset[k] <= n /\ n < Offset[k + 1]
<1>1. Offset \in [1 .. 13 -> Nat] /\ Offset[1] = 0 BY OffsetTable
<1>2. \A k \in 1 .. 13 : Offset[k] \in Nat BY <1>1
<1>3. \/ Offset[1] <= n /\ n < Offset[1 + 1]
      \/ Offset[2] <= n /\ n < Offset[2 + 1]
      \/ Offset[3] <= n /\ n < Offset[3 + 1]
      \/ Offset[4] <= n /\ n < Offset[4 + 1]
      \/ Offset[5] <= n /\ n < Offset[5 + 1]
      \/ Offset[6] <= n /\ n < Offset[6 + 1]
      \/ Offset[7] <= n /\ n < Offset[7 + 1]
      \/ Offset[8] <= n /\ n < Offset[8 + 1]
      \/ Offset[9] <= n /\ n < Offset[9 + 1]
      \/ Offset[10] <= n /\ n < Offset[10 + 1]
      \/ Offset[11] <= n /\ n < Offset[11 + 1]
      \/ Offset[12] <= n /\ n < Offset[12 + 1]
  BY <1>1, <1>2
<1> QED BY <1>3

(* LighthouseState_findByOffset never gets to its assert(false), whatever  *)
(* the offset in the cycle: it finds one of the states 1 .. 12, or LS_END. *)
THEOREM StateFound ==
  ASSUME NEW n \in Nat, n < Offset[13]
  PROVE  FindByOffset(n).state \in 1 .. 13 /\ FindByOffset(n).error \in Nat
<1> DEFINE Fits(i) == Offset[i - 1] <= n /\ n < Offset[i]
           i == CHOOSE i \in 2 .. 13 : Fits(i)
<1>1. \E j \in 2 .. 13 : Fits(j)
  <2>1. PICK k \in 1 .. 12 : Offset[k] <= n /\ n < Offset[k + 1] BY InSomeWindow
  <2> QED BY <2>1, k + 1 \in 2 .. 13, (k + 1) - 1 = k
<1>2. i \in 2 .. 13 /\ Offset[i - 1] <= n /\ n < Offset[i] BY <1>1
<1>3. i = CHOOSE j \in 2 .. 13 : Offset[j - 1] <= n /\ n < Offset[j] OBVIOUS
<1> HIDE DEF i, Fits
<1>4. i - 1 \in 1 .. 13 /\ i \in 1 .. 13 BY <1>2
<1>5. Offset[i - 1] \in Nat /\ Offset[i] \in Nat
  <2>1. Offset \in [1 .. 13 -> Nat] BY OffsetTable
  <2> QED BY <1>4, <2>1
<1>6. n - Offset[i - 1] \in Nat /\ Offset[i] - n \in Nat BY <1>2, <1>5
<1> QED BY <1>3, <1>4, <1>6 DEF FindByOffset, Closest, End

LEMMA ModType ==
  ASSUME NEW t \in Int, NEW m \in Int, NEW g \in Nat \ {0}
  PROVE  ApplyModOffset(t, m, g) \in 0 .. g - 1
<1>1. \A n \in Int : n % g \in 0 .. g - 1 OBVIOUS
<1>2. Clock \in Nat BY DisambiguatorAssumption
<1> QED BY <1>1, <1>2 DEF ApplyModOffset

LEMMA WindowFound ==
  ASSUME NEW t \in Int, NEW m \in Int, NEW b \in BOOLEAN
  PROVE  FindByOffset(ApplyModOffset(t, m, EndOfMod(b))).state \in 1 .. 13
<1> DEFINE n == ApplyModOffset(t, m, EndOfMod(b))
<1>1. EndOfMod(b) \in Nat \ {0} /\ EndOfMod(b) <= Offset[13] BY GroupType
<1>2. n \in 0 .. EndOfMod(b) - 1 BY <1>1, ModType
<1>3. Offset[13] \in Nat BY OffsetTable
<1>4. n \in Nat /\ n < Offset[13] BY <1>1, <1>2, <1>3
<1> QED BY <1>4, StateFound

-----------------------------------------------------------------------------
(* The parts of Disambiguator_data_t                                       *)

LEMMA Constants ==
  /\ Clock \in Nat \ {0} /\ HistoryLen \in Nat \ {0} /\ Tick \in Nat \ {0}
  /\ {Warmup, MaxConfidence, Trusted, Penalty, Decay} \subseteq Nat /\ Second \in Nat \ {0}
BY DisambiguatorAssumption

LEMMA TicksType == ASSUME NEW n \in Nat PROVE Ticks(n) \in Nat
BY Constants DEF Ticks

LEMMA StampType == ASSUME NEW n \in Int PROVE n % Clock \in Timestamps
BY Constants DEF Timestamps

LEMMA NoLightType == NoLight \in Light
BY Constants DEF NoLight, Light, Timestamps, None

LEMMA LastSyncType == ASSUME NEW m \in Memory PROVE LastSync(m) \in Light
BY NoLightType DEF LastSync, Memory, Light

LEMMA BlankType == Within(Blank)
<1>1. 0 \in Timestamps /\ 0 \in 0 .. Warmup /\ 0 <= MaxConfidence BY Constants DEF Timestamps
<1>2. <<>> \in Seq(Light) /\ Len(<<>>) = 0 BY EmptySeq
<1>3. Blank \in Memory BY <1>1, <1>2, NoLightType DEF Blank, Memory, Unknown, None
<1>4. Blank.history = <<>> /\ Blank.confidence = 0 BY DEF Blank
<1> QED BY <1>1, <1>2, <1>3, <1>4, Constants DEF Within

LEMMA HistoryType ==
  ASSUME NEW h \in Seq(Light), Len(h) <= HistoryLen, NEW l \in Light
  PROVE  AddSyncHistory(h, l) \in Seq(Light) /\ Len(AddSyncHistory(h, l)) <= HistoryLen
<1>0. Len(h) \in Nat OBVIOUS
<1>1. CASE l.length = 0 BY <1>1 DEF AddSyncHistory
<1>2. CASE l.length # 0 /\ Len(h) < HistoryLen
  <2>1. AddSyncHistory(h, l) = Append(h, l) BY <1>2 DEF AddSyncHistory
  <2>2. Append(h, l) \in Seq(Light) /\ Len(Append(h, l)) = Len(h) + 1 BY AppendProperties
  <2> QED BY <2>1, <2>2, <1>0, <1>2, Constants
<1>3. CASE l.length # 0 /\ ~(Len(h) < HistoryLen)
  <2>1. AddSyncHistory(h, l) = Append(Tail(h), l) BY <1>3 DEF AddSyncHistory
  <2>2. Len(h) = HistoryLen BY <1>0, <1>3, Constants
  <2>3. h # <<>> BY <2>2, Constants, EmptySeq
  <2>4. Tail(h) \in Seq(Light) /\ Len(Tail(h)) = Len(h) - 1 BY <2>3, HeadTailProperties
  <2>5. Append(Tail(h), l) \in Seq(Light) /\ Len(Append(Tail(h), l)) = Len(Tail(h)) + 1
    BY <2>4, AppendProperties
  <2> QED BY <2>1, <2>2, <2>4, <2>5, Constants
<1> QED BY <1>1, <1>2, <1>3

LEMMA ResetType ==
  ASSUME NEW m, Within(m)
  PROVE  /\ Within(ResetSync(m))
         /\ ResetSync(m).state = m.state /\ ResetSync(m).confidence = m.confidence
         /\ ResetSync(m).history = m.history
<1> DEFINE r == ResetSync(m)
<1>1. m \in Memory /\ 0 \in Timestamps BY Constants DEF Within, Timestamps
<1> DEFINE a == 0
           b == 0
           c == 0
           e == None
<1>2. a \in Timestamps /\ b \in Int /\ c \in Nat /\ e \in Nat \cup {None} BY <1>1
<1>3. r = [m EXCEPT !.first = a, !.longest = b, !.count = c, !.of = e] BY DEF ResetSync
<1> HIDE DEF a, b, c, e
<1> HIDE DEF r
<1>4. r \in Memory BY <1>1, <1>2, <1>3 DEF Memory
<1>5. r.history = m.history /\ r.confidence = m.confidence /\ r.state = m.state
  BY <1>1, <1>3 DEF Memory
<1> QED BY <1>1, <1>4, <1>5 DEF Within, r

LEMMA RegisterType ==
  ASSUME NEW m, Within(m), NEW le \in Light
  PROVE  /\ Within(RegisterSync(m, le))
         /\ RegisterSync(m, le).state = m.state /\ RegisterSync(m, le).confidence = m.confidence
<1> DEFINE r == RegisterSync(m, le)
<1>1. m \in Memory BY DEF Within
<1>2. le.timestamp \in Timestamps /\ le.length \in Int BY DEF Light
<1> DEFINE a == IF le.timestamp < m.first \/ m.longest = 0 THEN le.timestamp ELSE m.first
           b == IF le.length > m.longest THEN le.length ELSE m.longest
           e == Registered(m, le)
<1>3. a \in Timestamps /\ b \in Int /\ m.count + 1 \in Nat BY <1>1, <1>2 DEF Memory
<1>4. r = [m EXCEPT !.first = a, !.longest = b, !.count = m.count + 1, !.of = e]
  BY <1>1 DEF RegisterSync, Memory
<1>7. e \in Nat \cup {None} BY <1>1 DEF Registered, Memory, Light
<1> HIDE DEF a, b, e, r
<1>5. r \in Memory BY <1>1, <1>3, <1>4, <1>7 DEF Memory
<1>6. r.history = m.history /\ r.confidence = m.confidence /\ r.state = m.state BY <1>1, <1>4 DEF Memory
<1> QED BY <1>1, <1>5, <1>6 DEF Within, r

LEMMA ModForType ==
  ASSUME NEW l \in Light, NEW k \in 1 .. 13 PROVE ModFor(l, k) \in Timestamps
<1>1. l.timestamp \in Int BY Constants DEF Light, Timestamps
<1>2. Offset[k] \in Nat BY OffsetTable
<1> QED BY <1>1, <1>2, StampType DEF ModFor

LEMMA CentreType ==
  ASSUME NEW l \in Light PROVE Centre(l) \in Timestamps /\ Centre(l) \in Int
<1>1. l.timestamp \in Int /\ l.length \in Int BY Constants DEF Light, Timestamps
<1>2. l.timestamp + l.length \div 2 \in Int BY <1>1
<1>3. Centre(l) \in Timestamps BY <1>2, StampType DEF Centre
<1> QED BY <1>3, Constants DEF Timestamps

LEMMA LhType == ASSUME NEW k \in 1 .. 12 PROVE Lh[k] \in {0, 1} /\ Acode[k] \in Int
<1>1. k \in {1, 2, 3, 4, 5, 6, 7, 8, 9, 10, 11, 12} OBVIOUS
<1> QED BY <1>1 DEF Lh, Acode

-----------------------------------------------------------------------------
(* Steps                                                                   *)

LEMMA StepSelf == ASSUME NEW x, Good(x), NEW o \in Objects PROVE Step(x, x, o)
BY DEF Step

LEMMA StepTrans ==
  ASSUME NEW x, NEW y, NEW z, NEW o \in Objects, Step(x, y, o), Step(y, z, o)
  PROVE  Step(x, z, o)
<1>1. Kept(x, o) => Kept(y, o) BY DEF Step, Kept
<1> QED BY <1>1 DEF Step

\* The memory of o becomes m, and the mode changes if no other object keeps it.
Puts(x, y, o, m) ==
  y \in States /\ y.d = [x.d EXCEPT ![o] = m] /\ (Kept(x, o) => y.mode60 = x.mode60)

LEMMA Make ==
  ASSUME NEW x, Good(x), NEW o \in Objects, NEW m, Within(m), NEW y, Puts(x, y, o, m)
  PROVE  Step(x, y, o) /\ y.d[o] = m
<1>0. y \in States /\ y.d = [x.d EXCEPT ![o] = m] /\ (Kept(x, o) => y.mode60 = x.mode60) BY DEF Puts
<1>1. x.d \in [Objects -> Memory] BY DEF Good, States
<1>2. \A p \in Objects : y.d[p] = IF p = o THEN m ELSE x.d[p] BY <1>0, <1>1
<1>3. Good(y) BY <1>0, <1>2 DEF Good
<1> QED BY <1>0, <1>2, <1>3 DEF Step

LEMMA PutType ==
  ASSUME NEW x, Good(x), NEW o \in Objects, NEW m, Within(m)
  PROVE  [x.d EXCEPT ![o] = m] \in [Objects -> Memory]
BY DEF Good, States, Within

\* What changes the memory of o only.
LEMMA Put ==
  ASSUME NEW x, Good(x), NEW o \in Objects, NEW m, Within(m)
  PROVE  Step(x, [x EXCEPT !.d[o] = m], o) /\ [x EXCEPT !.d[o] = m].d[o] = m
<1> DEFINE y == [x EXCEPT !.d[o] = m]
<1>1. x \in States BY DEF Good
<1>2. y.d = [x.d EXCEPT ![o] = m] /\ y.mode60 = x.mode60 BY <1>1 DEF States
<1>3. y \in States
  <2> DEFINE e == [x.d EXCEPT ![o] = m]
  <2>1. e \in [Objects -> Memory] BY PutType
  <2>2. y = [x EXCEPT !.d = e] OBVIOUS
  <2> HIDE DEF e, y
  <2> QED BY <1>1, <2>1, <2>2 DEF States
<1> HIDE DEF y
<1>4. Puts(x, y, o, m) BY <1>2, <1>3 DEF Puts
<1>5. Step(x, y, o) /\ y.d[o] = m BY <1>4, Make
<1> QED BY <1>5 DEF y

LEMMA SetStateStep ==
  ASSUME NEW x, Good(x), NEW o \in Objects, NEW k \in 0 .. 13
  PROVE  Step(x, SetState(x, o, k), o) /\ SetState(x, o, k).d[o].state = IF k = 13 THEN 1 ELSE k
<1> DEFINE r == ResetSync(x.d[o])
           z == IF k >= End THEN 1 ELSE k
           h == IF k = Unknown THEN <<>> ELSE x.d[o].history
           w == Blank.sweep
           m == [r EXCEPT !.state = z, !.history = h, !.sweep = w]
           y == [x EXCEPT !.d[o] = m]
           c == y.mode60 /\ (k # Unknown \/ BestKnown(y))
<1>1. Within(r) /\ r.history = x.d[o].history BY ResetType DEF Good
<1>2. r \in Memory /\ Len(r.history) <= HistoryLen BY <1>1 DEF Within
<1>3. z \in 0 .. 12 /\ z = IF k = 13 THEN 1 ELSE k BY DEF End
<1>4. h \in Seq(Light) /\ Len(h) <= HistoryLen
  <2>1. <<>> \in Seq(Light) /\ Len(<<>>) <= HistoryLen BY EmptySeq, Constants
  <2>2. r.history \in Seq(Light) BY <1>2 DEF Memory
  <2> QED BY <2>1, <2>2, <1>1, <1>2
<1>5. w \in [Sensors -> Light] BY NoLightType DEF Blank
<1>6. m \in Memory /\ m.history = h /\ m.confidence = r.confidence /\ m.state = z
  <2> HIDE DEF z, h, w, r
  <2> QED BY <1>2, <1>3, <1>4, <1>5 DEF Memory
<1>7. Within(m) BY <1>1, <1>4, <1>6 DEF Within
<1>8. SetState(x, o, k) = [y EXCEPT !.mode60 = c] BY DEF SetState
<1> HIDE DEF m
<1>9. Step(x, y, o) /\ y.d[o] = m BY <1>7, Put
<1>10. y \in States BY <1>9 DEF Step, Good
<1>11. c \in BOOLEAN BY <1>10 DEF States
<1>12. Kept(y, o) => c = y.mode60
  <2>1. Kept(y, o) => BestKnown(y) BY DEF Kept, BestKnown
  <2> QED BY <2>1, <1>10 DEF States
<1> HIDE DEF y, c
<1>13. y.d = [y.d EXCEPT ![o] = m] BY <1>9, <1>10 DEF States
<1> DEFINE q == SetState(x, o, k)
<1>14. q \in States /\ q.d = [y.d EXCEPT ![o] = m] /\ q.mode60 = c
  BY <1>8, <1>10, <1>11, <1>13 DEF States
<1>15. Good(y) BY <1>9 DEF Step
<1> HIDE DEF q
<1>16. Step(y, q, o) /\ q.d[o] = m
  <2>1. Puts(y, q, o, m) BY <1>12, <1>14 DEF Puts
  <2> QED BY <2>1, <1>7, <1>15, Make
<1>17. Step(x, q, o) BY <1>9, <1>16, StepTrans
<1> QED BY <1>3, <1>6, <1>16, <1>17 DEF q

\* What changes the memory of o, and the mode if no other object keeps it.
LEMMA PutMode ==
  ASSUME NEW x, Good(x), NEW o \in Objects, NEW m, Within(m),
         NEW b \in BOOLEAN, Kept(x, o) => b = x.mode60
  PROVE  Step(x, [x EXCEPT !.d[o] = m, !.mode60 = b], o)
<1> DEFINE y == [x EXCEPT !.d[o] = m, !.mode60 = b]
           e == [x.d EXCEPT ![o] = m]
<1>1. x \in States BY DEF Good
<1>2. e \in [Objects -> Memory] BY PutType
<1>3. y = [x EXCEPT !.d = e, !.mode60 = b] OBVIOUS
<1> HIDE DEF y, e
<1>4. y \in States /\ y.d = e /\ y.mode60 = b BY <1>1, <1>2, <1>3 DEF States
<1>5. Puts(x, y, o, m) BY <1>4 DEF Puts, e
<1>6. Step(x, y, o) BY <1>5, Make
<1> QED BY <1>6 DEF y

\* What changes the memory of o and tells something.
LEMMA PutTold ==
  ASSUME NEW x, Good(x), NEW o \in Objects, NEW m, Within(m), NEW t \in SUBSET Events
  PROVE  Step(x, [x EXCEPT !.d[o] = m, !.told = t], o)
<1> DEFINE y == [x EXCEPT !.d[o] = m, !.told = t]
           e == [x.d EXCEPT ![o] = m]
<1>1. x \in States BY DEF Good
<1>2. e \in [Objects -> Memory] BY PutType
<1>3. y = [x EXCEPT !.d = e, !.told = t] OBVIOUS
<1> HIDE DEF y, e
<1>4. y \in States /\ y.d = e /\ y.mode60 = x.mode60 BY <1>1, <1>2, <1>3 DEF States
<1>5. Puts(x, y, o, m) BY <1>4 DEF Puts, e
<1>6. Step(x, y, o) BY <1>5, Make
<1> QED BY <1>6 DEF y

-----------------------------------------------------------------------------
(* Finding the state                                                       *)

\* Some guess comes first.
LEMMA FirstOf ==
  ASSUME NEW S \in SUBSET (Syncs \X BOOLEAN), S # {}
  PROVE  FirstGuess(S) \in S
<1>1. \A g \in S : g[1] \in Nat /\ g[2] \in BOOLEAN
  <2> SUFFICES ASSUME NEW g \in S PROVE g[1] \in Nat /\ g[2] \in BOOLEAN OBVIOUS
  <2>1. g \in Syncs \X BOOLEAN OBVIOUS
  <2>2. g[1] \in Syncs /\ g[2] \in BOOLEAN BY <2>1
  <2> QED BY <2>2 DEF Syncs
<1>2. \A g \in S : Rank(g) \in Nat BY <1>1 DEF Rank
<1> DEFINE Ranks == {Rank(g) : g \in S}
<1>3. Ranks \subseteq Nat /\ Ranks # {} BY <1>2
<1>4. PICK n \in Ranks : \A k \in Ranks : <<k, n>> \notin OpToRel(<, Nat)
  <2> HIDE DEF Ranks
  <2> QED BY <1>3, NatLessThanWellFounded, WFMin
<1>5. PICK g \in S : n = Rank(g) OBVIOUS
<1>6. \A h \in S : Rank(g) <= Rank(h)
  <2> SUFFICES ASSUME NEW h \in S PROVE Rank(g) <= Rank(h) OBVIOUS
  <2>1. <<Rank(h), n>> \notin OpToRel(<, Nat) BY <1>4
  <2>2. ~(Rank(h) < n) BY <2>1, <1>2, <1>5 DEF OpToRel
  <2> QED BY <2>2, <1>2, <1>5
<1>7. \E h \in S : \A k \in S : Rank(h) <= Rank(k) BY <1>6
<1> DEFINE First(h) == \A k \in S : Rank(h) <= Rank(k)
<1>8. \E h \in S : First(h) BY <1>7
<1>9. (CHOOSE h \in S : First(h)) \in S BY <1>8
<1> QED BY <1>9 DEF FirstGuess

LEMMA EndSyncStep ==
  ASSUME NEW x, Good(x), NEW o \in Objects
  PROVE  Step(x, EndSync(x, o), o)
<1> DEFINE m == x.d[o]
           h == AddSyncHistory(m.history, LastSync(m))
           G == Guesses(x, h)
           g == FirstGuess(G)
           v == ModFor(h[HistoryLen], g[1])
           w == [l \in {0, 1} |-> v]
           c == 0
           e == [l \in {0, 1} |-> h[HistoryLen].of - Offset[g[1]]]
           found == [m EXCEPT !.history = h, !.mod = w, !.confidence = c, !.base = e]
           other == [m EXCEPT !.history = h]
<1>1. Within(m) BY DEF Good
<1>2. m \in Memory /\ Len(m.history) <= HistoryLen /\ m.confidence <= MaxConfidence BY <1>1 DEF Within
<1>3. m.history \in Seq(Light) BY <1>2 DEF Memory
<1>4. LastSync(m) \in Light BY <1>2, LastSyncType
<1> HIDE DEF m
<1>5. h \in Seq(Light) /\ Len(h) <= HistoryLen BY <1>2, <1>3, <1>4, HistoryType
<1> HIDE DEF h
<1>6. CASE G = {}
  <2>1. other \in Memory /\ other.history = h /\ other.confidence = m.confidence
    BY <1>2, <1>5 DEF Memory
  <2>2. Within(other) BY <2>1, <1>2, <1>5 DEF Within
  <2> HIDE DEF other
  <2>3. Step(x, [x EXCEPT !.d[o] = other], o) BY <2>2, Put
  <2>4. EndSync(x, o) = [x EXCEPT !.d[o] = other] BY <1>6 DEF EndSync, other, m, h
  <2> QED BY <2>3, <2>4
<1>7. CASE G # {}
  <2>1. G \subseteq Syncs \X BOOLEAN BY DEF Guesses
  <2>2. g \in G BY <1>7, <2>1, FirstOf
  <2>3. g[1] \in Syncs /\ g[2] \in BOOLEAN BY <2>1, <2>2
  <2>4. Len(h) = HistoryLen
    <3>1. ~(Len(h) < HistoryLen) BY <1>7 DEF Guesses
    <3> QED BY <3>1, <1>5, Constants
  <2>5. BestKnown(x) => g[2] = x.mode60 BY <2>2 DEF Guesses
  <2> HIDE DEF g, G
  <2>6. h[HistoryLen] \in Light
    <3>1. HistoryLen \in 1 .. Len(h) BY <2>4, Constants
    <3> QED BY <3>1, <1>5
  <2>7. g[1] \in 1 .. 13 /\ g[1] \in 0 .. 13 BY <2>3 DEF Syncs
  <2>8. v \in Timestamps BY <2>6, <2>7, ModForType
  <2> HIDE DEF v
  <2>9. w \in [{0, 1} -> Timestamps] BY <2>8
  <2>10. c \in Int /\ c <= MaxConfidence BY Constants
  <2>18. e \in [{0, 1} -> Int]
    <3>1. h[HistoryLen].of \in Int /\ Offset[g[1]] \in Int BY <2>6, <2>7, OffsetTable DEF Light, None
    <3> QED BY <3>1
  <2> HIDE DEF w, c, e
  <2>11. found \in Memory /\ found.history = h /\ found.confidence = c
    BY <1>2, <1>5, <2>9, <2>10, <2>18 DEF Memory
  <2>12. Within(found) BY <2>11, <2>10, <1>5 DEF Within
  <2> HIDE DEF found
  <2> DEFINE y == [x EXCEPT !.d[o] = found, !.mode60 = g[2]]
  <2>13. Kept(x, o) => g[2] = x.mode60 BY <2>5 DEF Kept, BestKnown
  <2>14. Step(x, y, o) BY <2>3, <2>12, <2>13, PutMode
  <2>15. EndSync(x, o) = SetState(y, o, g[1])
    BY <1>7 DEF EndSync, Lock, G, g, v, w, c, e, found, m, h
  <2> HIDE DEF y
  <2>16. Good(y) BY <2>14 DEF Step
  <2>17. Step(y, SetState(y, o, g[1]), o) BY <2>7, <2>16, SetStateStep
  <2> QED BY <2>14, <2>15, <2>17, StepTrans
<1> QED BY <1>6, <1>7

LEMMA AttemptStep ==
  ASSUME NEW x, Good(x), NEW o \in Objects, NEW le \in Light
  PROVE  Step(x, AttemptFindState(x, o, le), o)
<1> DEFINE d      == x.d[o]
           isSync == le.length \in Ticks(2250) .. Ticks(6750)
           anew   == isSync => (~d.lastWasSync \/ ~Overlaps(LastSync(d), le))
           y      == IF d.lastWasSync /\ anew THEN EndSync(x, o) ELSE x
           e      == IF anew THEN ResetSync(y.d[o]) ELSE y.d[o]
           no     == FALSE
           yes    == TRUE
           m      == [y.d[o] EXCEPT !.lastWasSync = no]
           n      == [RegisterSync(e, le) EXCEPT !.lastWasSync = yes]
<1>1. Step(x, y, o) BY EndSyncStep, StepSelf
<1> HIDE DEF y
<1>2. Good(y) /\ Within(y.d[o]) BY <1>1 DEF Step, Good
<1>3. Within(e) BY <1>2, ResetType
<1> HIDE DEF e
<1>4. Within(RegisterSync(e, le)) BY <1>3, RegisterType
<1>5. no \in BOOLEAN /\ yes \in BOOLEAN OBVIOUS
<1> HIDE DEF no, yes
<1>6. Within(m)
  <2>1. y.d[o] \in Memory BY <1>2 DEF Within
  <2>2. m \in Memory /\ m.history = y.d[o].history /\ m.confidence = y.d[o].confidence
    BY <2>1, <1>5 DEF Memory
  <2> QED BY <2>2, <1>2 DEF Within
<1>7. Within(n)
  <2> DEFINE r == RegisterSync(e, le)
  <2>1. r \in Memory BY <1>4 DEF Within
  <2> HIDE DEF r
  <2>2. n = [r EXCEPT !.lastWasSync = yes] BY DEF r
  <2> HIDE DEF n
  <2>3. n \in Memory /\ n.history = r.history /\ n.confidence = r.confidence
    BY <2>1, <2>2, <1>5 DEF Memory
  <2>4. Within(r) BY <1>4 DEF r
  <2> QED BY <2>3, <2>4 DEF Within
<1> HIDE DEF m, n
<1>8. Step(y, [y EXCEPT !.d[o] = m], o) /\ Step(y, [y EXCEPT !.d[o] = n], o)
  BY <1>2, <1>6, <1>7, Put
<1>9. \/ AttemptFindState(x, o, le) = y
      \/ AttemptFindState(x, o, le) = [y EXCEPT !.d[o] = m]
      \/ AttemptFindState(x, o, le) = [y EXCEPT !.d[o] = n]
  BY DEF AttemptFindState, y, e, m, n, no, yes
<1> QED BY <1>1, <1>8, <1>9, StepTrans

-----------------------------------------------------------------------------
(* Following the cycle                                                     *)

LEMMA TimingType == ASSUME NEW a \in Int PROVE AcodeTiming(a) \in Int
<1>1. Ticks(2750) \in Nat /\ Ticks(500) \in Nat /\ Ticks(1000) \in Nat /\ Ticks(2000) \in Nat
  BY TicksType
<1> DEFINE p == a % 2
           q == (a \div 2) % 2
           r == a \div 4
<1>2. p \in Nat /\ q \in Nat /\ r \in Int
  <2>1. p \in 0 .. 1 /\ q \in 0 .. 1 /\ r \in Int OBVIOUS
  <2> QED BY <2>1
<1>3. AcodeTiming(a) = Ticks(2750) + p * Ticks(500) + q * Ticks(1000) + r * Ticks(2000)
  BY DEF AcodeTiming
<1> HIDE DEF p, q, r
<1> DEFINE u == p * Ticks(500)
           v == q * Ticks(1000)
           w == r * Ticks(2000)
<1>4. u \in Int BY <1>1, <1>2
<1>5. v \in Int BY <1>1, <1>2
<1>6. w \in Int BY <1>1, <1>2
<1> QED BY <1>1, <1>3, <1>4, <1>5, <1>6

LEMMA LeaveSyncStep ==
  ASSUME NEW x, Good(x), NEW o \in Objects, x.d[o].state \in 1 .. 12
  PROVE  Step(x, LeaveSync(x, o), o)
<1> DEFINE d     == x.d[o]
           sync  == LastSync(d)
           k     == d.state
           l     == Lh[k]
           h     == AddSyncHistory(d.history, sync)
           f     == ModFor(sync, k)
           b     == sync.of - Offset[k]
           m     == [d EXCEPT !.history = h, !.mod[l] = f, !.base[l] = b]
           mods  == [d.mod EXCEPT ![l] = f]
           bases == [d.base EXCEPT ![l] = b]
           a     == Acode[k]
           hasData == Abs(AcodeTiming(a + 2) - sync.length) < Abs(AcodeTiming(a) - sync.length)
           code2 == IF hasData THEN a + 2 ELSE a
           event == [kind |-> "sync", object |-> o, lh |-> l, acode |-> code2,
                     at |-> sync.timestamp, length |-> sync.length]
           t     == IF d.confidence > Trusted THEN x.told \cup {event} ELSE x.told
<1>1. Within(d) /\ x.told \in SUBSET Events BY DEF Good, States
<1>2. d \in Memory /\ Len(d.history) <= HistoryLen /\ d.confidence <= MaxConfidence BY <1>1 DEF Within
<1>3. /\ d.history \in Seq(Light) /\ d.mod \in [{0, 1} -> Timestamps]
      /\ d.base \in [{0, 1} -> Int]
  BY <1>2 DEF Memory
<1>4. sync \in Light BY <1>2, LastSyncType
<1>5. k \in 1 .. 12 OBVIOUS
<1>6. l \in {0, 1} /\ a \in Int BY <1>5, LhType
<1>7. k \in 1 .. 13 BY <1>5
<1> HIDE DEF d, sync
<1>8. h \in Seq(Light) /\ Len(h) <= HistoryLen BY <1>2, <1>3, <1>4, HistoryType
<1>9. f \in Timestamps BY <1>4, <1>7, ModForType
<1>19. b \in Int BY <1>4, <1>7, OffsetTable DEF Light, None
<1>10. code2 \in Int BY <1>6
<1> HIDE DEF k, code2
<1>11. event \in Events BY <1>4, <1>6, <1>10 DEF Events, Light
<1> HIDE DEF event
<1>12. t \in SUBSET Events BY <1>1, <1>11
<1> HIDE DEF l, h, f, b, t, a, hasData
<1>13. mods \in [{0, 1} -> Timestamps] /\ bases \in [{0, 1} -> Int] BY <1>3, <1>6, <1>9, <1>19
<1>14. m = [d EXCEPT !.history = h, !.mod = mods, !.base = bases] BY <1>2 DEF Memory
<1> HIDE DEF mods, bases, m
<1>15. m \in Memory /\ m.history = h /\ m.confidence = d.confidence
  BY <1>2, <1>8, <1>13, <1>14 DEF Memory
<1>16. Within(m) BY <1>2, <1>8, <1>15 DEF Within
<1>17. Step(x, [x EXCEPT !.d[o] = m, !.told = t], o) BY <1>12, <1>16, PutTold
<1>18. LeaveSync(x, o) = x \/ LeaveSync(x, o) = [x EXCEPT !.d[o] = m, !.told = t]
  BY DEF LeaveSync, d, sync, k, l, h, f, b, m, a, hasData, code2, event, t
<1> QED BY <1>17, <1>18, StepSelf

\* What places a sweep and tells it: the memories stay.
LEMMA Tell ==
  ASSUME NEW x, Good(x), NEW o \in Objects, NEW b \in BOOLEAN, NEW t \in SUBSET Events
  PROVE  Step(x, [x EXCEPT !.behind = b, !.told = t], o)
<1> DEFINE y == [x EXCEPT !.behind = b, !.told = t]
<1>1. x \in States BY DEF Good
<1> HIDE DEF y
<1>2. y \in States /\ y.d = x.d /\ y.mode60 = x.mode60 BY <1>1 DEF States, y
<1>3. Good(y) BY <1>2 DEF Good
<1>4. Step(x, y, o) BY <1>2, <1>3 DEF Step
<1> QED BY <1>4 DEF y

LEMMA LeaveSweepStep ==
  ASSUME NEW x, Good(x), NEW o \in Objects, x.d[o].state \in 1 .. 12, IsSweep(x.d[o].state)
  PROVE  Step(x, LeaveSweep(x, o), o)
<1> DEFINE d       == x.d[o]
           k       == d.state
           lh      == Lh[k]
           lit     == {s \in Sensors : d.sweep[s].length > Ticks(100)}
           total   == LitLength(d.sweep, lit)
           minl    == DivRoundClosest(total, 4 * Cardinality(lit))
           maxl    == 3 * DivRoundClosest(total, Cardinality(lit))
           kept    == {s \in Sensors : d.sweep[s].length \in (minl .. maxl) \ {0}}
           from(s) == ApplyModOffset(Centre(d.sweep[s]), d.mod[lh], EndOfMod(x.mode60))
                        - Offset[d.state - 1 - lh]
           event(s) == [kind |-> "sweep", object |-> o, lh |-> lh, acode |-> Acode[d.state],
                        at |-> d.sweep[s].timestamp, length |-> d.sweep[s].length,
                        sensor |-> s, offset |-> from(s)]
           events  == {event(s) : s \in kept}
           b       == x.behind \/ \E e \in events : e.offset <= 0
           t       == IF d.confidence > Trusted THEN x.told \cup events ELSE x.told
<1>1. d \in Memory /\ x.told \in SUBSET Events /\ x.behind \in BOOLEAN /\ x.mode60 \in BOOLEAN
  BY DEF Good, States, Within
<1>2. d.mod \in [{0, 1} -> Timestamps] /\ d.sweep \in [Sensors -> Light] BY <1>1 DEF Memory
<1>3. lh \in {0, 1} /\ Acode[k] \in Int BY LhType
<1>4. k - 1 - lh \in 1 .. 13
  <2>1. k \in {3, 6, 9, 12} BY DEF IsSweep
  <2> QED BY <2>1, <1>3
<1>5. Offset[k - 1 - lh] \in Int BY <1>4, OffsetTable
<1>6. EndOfMod(x.mode60) \in Nat \ {0} BY <1>1, GroupType
<1>7. d.mod[lh] \in Int BY <1>2, <1>3, Constants DEF Timestamps
<1>8. \A s \in Sensors : event(s) \in Events
  <2> SUFFICES ASSUME NEW s \in Sensors PROVE event(s) \in Events OBVIOUS
  <2>1. d.sweep[s] \in Light BY <1>2
  <2>2. /\ Centre(d.sweep[s]) \in Int
        /\ d.sweep[s].timestamp \in Timestamps /\ d.sweep[s].length \in Int
    BY <2>1, CentreType DEF Light
  <2> DEFINE n == ApplyModOffset(Centre(d.sweep[s]), d.mod[lh], EndOfMod(x.mode60))
  <2>3. n \in 0 .. EndOfMod(x.mode60) - 1 BY <1>6, <1>7, <2>2, ModType
  <2>4. n \in Int BY <2>3, <1>6
  <2> HIDE DEF n
  <2>5. from(s) = n - Offset[k - 1 - lh] BY DEF n
  <2>6. from(s) \in Int BY <2>4, <2>5, <1>5
  <2> HIDE DEF from, lh
  <2> QED BY <1>3, <2>2, <2>6, SMTT(30) DEF Events
<1> HIDE DEF event
<1>9. events \in SUBSET Events BY <1>8
<1>10. LeaveSweep(x, o) = x \/ LeaveSweep(x, o) = [x EXCEPT !.behind = b, !.told = t]
  BY DEF LeaveSweep, event
<1> HIDE DEF events
<1>11. b \in BOOLEAN BY <1>1
<1>12. t \in SUBSET Events BY <1>1, <1>9
<1> HIDE DEF b, t
<1>13. Step(x, [x EXCEPT !.behind = b, !.told = t], o) BY <1>11, <1>12, Tell
<1> QED BY <1>10, <1>13, StepSelf

LEMMA ProcessStep ==
  ASSUME NEW x, Good(x), NEW o \in Objects, x.d[o].state \in 1 .. 12, NEW k \in 1 .. 13
  PROVE  /\ Step(x, ProcessStateChange(x, o, k), o)
         /\ ProcessStateChange(x, o, k).d[o].state \in 1 .. 12
<1> DEFINE y == IF IsSweep(x.d[o].state) THEN LeaveSweep(x, o) ELSE LeaveSync(x, o)
<1>1. Step(x, y, o) BY LeaveSyncStep, LeaveSweepStep
<1>2. ProcessStateChange(x, o, k) = SetState(y, o, k) BY DEF ProcessStateChange
<1> HIDE DEF y
<1>3. Good(y) BY <1>1 DEF Step
<1>4. k \in 0 .. 13 OBVIOUS
<1>5. /\ Step(y, SetState(y, o, k), o)
      /\ SetState(y, o, k).d[o].state = IF k = 13 THEN 1 ELSE k
  BY <1>3, <1>4, SetStateStep
<1> QED BY <1>1, <1>2, <1>5, StepTrans

LEMMA ConfidenceType ==
  ASSUME NEW m, Within(m), NEW c \in Int, c <= MaxConfidence
  PROVE  Within([m EXCEPT !.confidence = c])
<1> DEFINE n == [m EXCEPT !.confidence = c]
<1>1. m \in Memory BY DEF Within
<1>2. n \in Memory /\ n.history = m.history /\ n.confidence = c BY <1>1 DEF Memory
<1> HIDE DEF n
<1>3. Within(n) BY <1>2 DEF Within
<1> QED BY <1>3 DEF n

LEMMA ACodeStep ==
  ASSUME NEW x, Good(x), NEW o \in Objects, NEW le \in Light
  PROVE  Step(x, RunACodeCapture(x, o, le), o)
<1> DEFINE d == x.d[o]
           y == IF d.confidence < Penalty THEN SetState(x, o, Unknown) ELSE x
           e == RegisterSync(d, le)
           p == [y.d[o] EXCEPT !.confidence = y.d[o].confidence - Penalty]
           c == IF e.confidence < MaxConfidence THEN e.confidence + 1 ELSE e.confidence
           q == [e EXCEPT !.confidence = c]
<1>1. 0 \in 0 .. 13 OBVIOUS
<1>2. Step(x, y, o) BY <1>1, SetStateStep, StepSelf DEF Unknown
<1>3. RunACodeCapture(x, o, le) \in {x, [y EXCEPT !.d[o] = p], [x EXCEPT !.d[o] = q]}
  BY DEF RunACodeCapture
<1> HIDE DEF y
<1>4. Good(y) /\ Within(y.d[o]) BY <1>2 DEF Step, Good
<1>5. Within(p)
  <2>1. y.d[o].confidence \in Int /\ y.d[o].confidence <= MaxConfidence BY <1>4 DEF Within, Memory
  <2>2. y.d[o].confidence - Penalty \in Int /\ y.d[o].confidence - Penalty <= MaxConfidence
    BY <2>1, Constants
  <2> QED BY <2>2, <1>4, ConfidenceType
<1>6. Within(q)
  <2>1. Within(e) BY RegisterType DEF Good
  <2> HIDE DEF e
  <2>2. e.confidence \in Int /\ e.confidence <= MaxConfidence BY <2>1 DEF Within, Memory
  <2>3. c \in Int /\ c <= MaxConfidence BY <2>2, Constants
  <2> HIDE DEF c
  <2> QED BY <2>1, <2>3, ConfidenceType
<1> HIDE DEF p, q
<1>7. Step(y, [y EXCEPT !.d[o] = p], o) /\ Step(x, [x EXCEPT !.d[o] = q], o)
  BY <1>4, <1>5, <1>6, Put
<1> QED BY <1>2, <1>3, <1>7, StepSelf, StepTrans

LEMMA CaptureStep ==
  ASSUME NEW x, Good(x), NEW o \in Objects, NEW s \in Sensors, NEW le \in Light
  PROVE  Step(x, CaptureSweep(x, o, s, le), o)
<1> DEFINE d == x.d[o]
           w == [d.sweep EXCEPT ![s] = le]
           c == IF le.length > Ticks(3000) THEN d.confidence - 1 ELSE d.confidence
           m == [d EXCEPT !.sweep = w]
           n == [m EXCEPT !.confidence = c]
<1>1. Within(d) BY DEF Good
<1>2. d \in Memory BY <1>1 DEF Within
<1>3. w \in [Sensors -> Light] BY <1>2 DEF Memory
<1>4. d.confidence \in Int /\ d.confidence <= MaxConfidence BY <1>1 DEF Within, Memory
<1>5. c \in Int /\ c <= MaxConfidence BY <1>4, Constants
<1>6. CaptureSweep(x, o, s, le) = x \/ CaptureSweep(x, o, s, le) = [x EXCEPT !.d[o] = n]
  <2>1. [d EXCEPT !.sweep[s] = le, !.confidence = c] = n BY <1>2 DEF Memory
  <2> HIDE DEF n
  <2> QED BY <2>1 DEF CaptureSweep
<1> HIDE DEF d, w, c
<1>7. Within(m)
  <2>1. m \in Memory /\ m.history = d.history /\ m.confidence = d.confidence
    BY <1>2, <1>3 DEF Memory
  <2> QED BY <2>1, <1>1 DEF Within
<1> HIDE DEF m
<1>8. Within(n) BY <1>5, <1>7, ConfidenceType
<1> HIDE DEF n
<1>9. Step(x, [x EXCEPT !.d[o] = n], o) BY <1>8, Put
<1> QED BY <1>6, <1>9, StepSelf

LEMMA PropagateStep ==
  ASSUME NEW x, Good(x), NEW o \in Objects, NEW s \in Sensors, NEW le \in Light,
         x.d[o].state \in 1 .. 12
  PROVE  Step(x, PropagateState(x, o, s, le), o)
<1> DEFINE d == x.d[o]
           k == FindByOffset(ApplyModOffset(Centre(le), d.mod[Lh[d.state]], EndOfMod(x.mode60))).state
           y == IF k = d.state THEN x ELSE ProcessStateChange(x, o, k)
<1>1. x.mode60 \in BOOLEAN /\ d \in Memory BY DEF Good, States, Within
<1>2. d.mod[Lh[d.state]] \in Int
  <2>1. d.mod \in [{0, 1} -> Timestamps] BY <1>1, SMTT(30) DEF Memory
  <2>2. Lh[d.state] \in {0, 1} BY LhType
  <2> QED BY <2>1, <2>2, Constants DEF Timestamps
<1>3. k \in 1 .. 13 BY <1>1, <1>2, CentreType, WindowFound
<1>4. PropagateState(x, o, s, le) =
        IF IsSweep(y.d[o].state) THEN CaptureSweep(y, o, s, le) ELSE RunACodeCapture(y, o, le)
  BY DEF PropagateState
<1> HIDE DEF k
<1>5. Step(x, y, o) BY <1>3, ProcessStep, StepSelf
<1> HIDE DEF y
<1>6. Good(y) BY <1>5 DEF Step
<1>7. Step(y, CaptureSweep(y, o, s, le), o) /\ Step(y, RunACodeCapture(y, o, le), o)
  BY <1>6, CaptureStep, ACodeStep
<1> QED BY <1>4, <1>5, <1>7, StepTrans

LEMMA HeedStep ==
  ASSUME NEW x, Good(x), NEW o \in Objects, NEW le \in Light
  PROVE  Step(x, Heed(x, o, le), o)
<1> DEFINE d == x.d[o]
           l == le.timestamp
           m == [d EXCEPT !.last = l]
<1>1. Within(d) /\ d \in Memory BY DEF Good, Within
<1>2. l \in Timestamps BY DEF Light
<1>3. Heed(x, o, le) = [x EXCEPT !.d[o] = m] BY DEF Heed
<1> HIDE DEF d, l
<1>4. m \in Memory /\ m.history = d.history /\ m.confidence = d.confidence BY <1>1, <1>2 DEF Memory
<1>5. Within(m) BY <1>1, <1>4 DEF Within
<1> HIDE DEF m
<1>6. Step(x, [x EXCEPT !.d[o] = m], o) BY <1>5, Put
<1> QED BY <1>3, <1>6

\* A pulse, in whatever state the object is.
LEMMA PulseStep ==
  ASSUME NEW x, Good(x), NEW o \in Objects, NEW s \in Sensors, NEW le \in Light
  PROVE  Step(x, StateBased(x, o, s, le), o)
<1> DEFINE d      == x.d[o]
           diff   == Difference(le.timestamp, d.last)
           silent == IF diff > Second THEN (diff \div Second) * Decay ELSE 0
           m      == [d EXCEPT !.confidence = d.confidence - silent]
           y      == [x EXCEPT !.d[o] = m]
           u      == d.stabalize + 1
           n      == [d EXCEPT !.stabalize = u]
           p      == AttemptFindState(x, o, le)
           q      == PropagateState(y, o, s, le)
<1>1. Within(d) /\ d \in Memory BY DEF Good, Within
<1>2. CASE d.stabalize < Warmup
  <2>1. u \in 0 .. Warmup
    <3>1. d.stabalize \in 0 .. Warmup BY <1>1 DEF Memory
    <3> QED BY <1>2, <3>1, Constants
  <2>2. StateBased(x, o, s, le) = [x EXCEPT !.d[o] = n] BY <1>2 DEF StateBased
  <2> HIDE DEF d, u
  <2>3. n \in Memory /\ n.history = d.history /\ n.confidence = d.confidence BY <1>1, <2>1 DEF Memory
  <2>4. Within(n) BY <1>1, <2>3 DEF Within
  <2> HIDE DEF n
  <2>5. Step(x, [x EXCEPT !.d[o] = n], o) BY <2>4, Put
  <2> QED BY <2>2, <2>5
<1>3. CASE ~(d.stabalize < Warmup) /\ d.state = Unknown
  <2>1. Step(x, p, o) BY AttemptStep
  <2>2. StateBased(x, o, s, le) = Heed(p, o, le) BY <1>3 DEF StateBased
  <2> HIDE DEF p
  <2>3. Step(p, Heed(p, o, le), o) BY <2>1, HeedStep DEF Step
  <2> QED BY <2>1, <2>2, <2>3, StepTrans
<1>4. CASE ~(d.stabalize < Warmup) /\ d.state # Unknown
  <2>1. 0 \in 0 .. 13 OBVIOUS
  <2>2. Step(x, SetState(x, o, Unknown), o) BY <2>1, SetStateStep DEF Unknown
  <2>3. d.confidence - silent \in Int /\ d.confidence - silent <= MaxConfidence
    <3>1. diff \in Nat
      <4>1. le.timestamp \in 0 .. Clock - 1 /\ d.last \in 0 .. Clock - 1
        BY <1>1 DEF Light, Memory, Timestamps
      <4> QED BY <4>1, Constants DEF Difference, Abs
    <3> HIDE DEF diff
    <3>2. Second \in Nat \ {0} /\ Decay \in Nat BY Constants
    <3> DEFINE z == diff \div Second
    <3>3. z \in Nat BY <3>1, <3>2
    <3> HIDE DEF z
    <3>4. z * Decay \in Nat BY <3>2, <3>3
    <3>5. silent = IF diff > Second THEN z * Decay ELSE 0 BY DEF z
    <3>6. silent \in Nat BY <3>4, <3>5
    <3> HIDE DEF silent
    <3>7. d.confidence \in Int /\ d.confidence <= MaxConfidence BY <1>1 DEF Within, Memory
    <3> QED BY <3>6, <3>7, Constants
  <2>4. Within(m) BY <1>1, <2>3, ConfidenceType
  <2>5. m.state = d.state BY <1>1 DEF Memory
  <2>6. d.state \in 1 .. 12 BY <1>1, <1>4 DEF Memory, Unknown
  <2>7. StateBased(x, o, s, le) = SetState(x, o, Unknown) \/ StateBased(x, o, s, le) = Heed(q, o, le)
    BY <1>4 DEF StateBased
  <2> HIDE DEF m
  <2>8. Step(x, y, o) /\ y.d[o] = m BY <2>4, Put
  <2> HIDE DEF y
  <2>9. Good(y) /\ y.d[o].state \in 1 .. 12 BY <2>5, <2>6, <2>8 DEF Step
  <2>10. Step(y, q, o) BY <2>9, PropagateStep
  <2> HIDE DEF q
  <2>11. Step(q, Heed(q, o, le), o) BY <2>10, HeedStep DEF Step
  <2> QED BY <2>2, <2>7, <2>8, <2>10, <2>11, StepTrans
<1> QED BY <1>2, <1>3, <1>4

-----------------------------------------------------------------------------
(* The specification                                                       *)

\* What was told before the pulse is forgotten.
Before == [d |-> disamb, mode60 |-> mode60, told |-> {}, behind |-> FALSE]

LEMMA GoodBefore == ASSUME TypeOK PROVE Good(Before)
<1>1. Before \in States BY DEF TypeOK, Before, States
<1>2. Before.d = disamb BY DEF Before
<1>3. \A o \in Objects : Within(disamb[o]) BY DEF TypeOK, Within
<1> QED BY <1>1, <1>2, <1>3 DEF Good

\* The variables of the code, as a pulse leaves them.
Code == /\ disamb \in [Objects -> Memory] /\ mode60 \in BOOLEAN
        /\ \A o \in Objects : Len(disamb[o].history) <= HistoryLen /\ disamb[o].confidence <= MaxConfidence
        /\ told \subseteq Events /\ behind \in BOOLEAN

LEMMA PulseCode ==
  ASSUME TypeOK, NEW o \in Objects, NEW s \in Sensors, NEW le \in Light, Pulse(o, s, le)
  PROVE  /\ Code'
         /\ \A p \in Objects \ {o} : disamb'[p] = disamb[p] /\ (Sure(p) => mode60' = mode60)
<1> DEFINE y == StateBased(Before, o, s, le)
<1>1. Good(Before) BY GoodBefore
<1>2. Step(Before, y, o) BY <1>1, PulseStep
<1>3. disamb' = y.d /\ mode60' = y.mode60 /\ told' = y.told /\ behind' = y.behind
  BY DEF Pulse, Before
<1> HIDE DEF y
<1>4. Good(y) BY <1>2 DEF Step
<1>5. y.d \in [Objects -> Memory] /\ y.mode60 \in BOOLEAN /\ y.told \subseteq Events /\ y.behind \in BOOLEAN
  BY <1>4 DEF Good, States
<1>6. Code' BY <1>3, <1>4, <1>5 DEF Code, Good, Within
<1>7. ASSUME NEW p \in Objects \ {o} PROVE disamb'[p] = disamb[p] /\ (Sure(p) => mode60' = mode60)
  <2>1. Before.d = disamb /\ Before.mode60 = mode60 BY DEF Before
  <2>2. y.d[p] = Before.d[p] BY <1>2 DEF Step
  <2>3. Sure(p) => Kept(Before, o) BY <2>1 DEF Sure, Known, Kept
  <2> QED BY <1>2, <1>3, <2>1, <2>2, <2>3 DEF Step
<1> QED BY <1>6, <1>7

\* The world's part of the type.
World == boot \in [Objects -> Boots] /\ world60 \in BOOLEAN /\ data \in Frames /\ now \in Nat /\ turns \in Nat

LEMMA Parts == TypeOK <=> Code /\ World
BY DEF TypeOK, Code, World

LEMMA SlotType == ASSUME World PROVE Slot \in 1 .. 12 /\ Window(Slot) \in Nat
<1> DEFINE n == now % Group
           Fits(k) == Offset[k] <= n /\ n < Offset[k + 1]
           k == CHOOSE k \in 1 .. 12 : Fits(k)
<1>1. Group \in Nat \ {0} /\ Group <= Offset[13] BY GroupType DEF Group, World
<1>2. now \in Nat /\ Offset[13] \in Nat BY OffsetTable DEF World
<1>3. n \in Nat /\ n < Offset[13] BY <1>1, <1>2
<1> HIDE DEF n
<1>4. \E j \in 1 .. 12 : Fits(j) BY <1>3, InSomeWindow
<1>5. k \in 1 .. 12 /\ Fits(k) BY <1>4
<1>6. Slot = k BY DEF Slot, SlotAt, n
<1> HIDE DEF k, Fits
<1>7. Slot \in 1 .. 12 BY <1>5, <1>6
<1> HIDE DEF Slot
<1>8. Offset[Slot] \in Nat /\ Offset[Slot + 1] \in Nat /\ Offset[Slot] < Offset[Slot + 1]
  BY <1>7, OffsetTable
<1> QED BY <1>7, <1>8 DEF Window

LEMMA SyncLight ==
  ASSUME World, NEW o \in Objects
  PROVE  [timestamp |-> Stamp(o, now), length |-> SyncLength, of |-> now] \in Light
<1>1. now + boot[o] \in Int BY DisambiguatorAssumption DEF World
<1>2. Stamp(o, now) \in Timestamps BY <1>1, StampType DEF Stamp
<1>3. Acode[Slot] \in Int BY SlotType, LhType
<1>4. Bit \in Int
  <2>1. data \in Seq({0, 1}) /\ data # <<>> BY DisambiguatorAssumption DEF World
  <2>2. Len(data) \in Nat \ {0} BY <2>1, EmptySeq
  <2>3. turns % Len(data) \in 0 .. Len(data) - 1 BY <2>2 DEF World
  <2>4. (turns % Len(data)) + 1 \in 1 .. Len(data) BY <2>2, <2>3
  <2>5. Bit \in {0, 1} BY <2>1, <2>4 DEF Bit
  <2> QED BY <2>5
<1>5. Acode[Slot] + 2 * Bit \in Int BY <1>3, <1>4
<1>6. SyncLength \in Int BY <1>5, TimingType DEF SyncLength
<1> QED BY <1>2, <1>6 DEF Light, World

LEMMA OtherLight ==
  ASSUME World, NEW o \in Objects, NEW p \in Nat, NEW l \in Nat
  PROVE  [timestamp |-> Stamp(o, now + p), length |-> l, of |-> None] \in Light
<1>1. now + p + boot[o] \in Int BY DisambiguatorAssumption DEF World
<1>2. Stamp(o, now + p) \in Timestamps BY <1>1, StampType DEF Stamp
<1> QED BY <1>2 DEF Light

\* Every step that is light on a sensor is a pulse.
LEMMA LightIsPulse ==
  ASSUME TypeOK, NEW o \in Objects, NEW s \in Sensors, Sync(o, s) \/ Sweep(o, s) \/ Stray(o, s)
  PROVE  /\ UNCHANGED <<boot, world60, sight, data, now, turns>>
         /\ \E le \in Light :
              /\ Pulse(o, s, le)
              /\ \/ le.of = None
                 \/ /\ Lit /\ ~IsSweep(Slot)
                    /\ le = [timestamp |-> Stamp(o, now), length |-> SyncLength, of |-> now]
<1>0. World BY Parts
<1>1. CASE Sync(o, s)
  <2> DEFINE le == [timestamp |-> Stamp(o, now), length |-> SyncLength, of |-> now]
  <2>1. Pulse(o, s, le) /\ Lit /\ ~IsSweep(Slot) BY <1>1 DEF Sync
  <2>2. le \in Light BY <1>0, SyncLight
  <2> HIDE DEF le
  <2>3. UNCHANGED <<boot, world60, sight, data, now, turns>> BY <1>1 DEF Sync
  <2> QED BY <2>1, <2>2, <2>3 DEF le
<1>2. CASE Sweep(o, s)
  <2>1. PICK place \in Places, length \in Lengths :
          Pulse(o, s, [timestamp |-> Stamp(o, now + place), length |-> length, of |-> None])
    BY <1>2 DEF Sweep
  <2> DEFINE le == [timestamp |-> Stamp(o, now + place), length |-> length, of |-> None]
  <2>2. place \in Nat /\ length \in Nat BY DisambiguatorAssumption
  <2>3. le \in Light /\ le.of = None BY <1>0, <2>2, OtherLight
  <2>4. UNCHANGED <<boot, world60, sight, data, now, turns>> BY <1>2 DEF Sweep
  <2> HIDE DEF le
  <2> QED BY <2>1, <2>3, <2>4 DEF le
<1>3. CASE Stray(o, s)
  <2>1. PICK place \in Strays, length \in Lengths :
          Pulse(o, s, [timestamp |-> Stamp(o, now + place), length |-> length, of |-> None])
    BY <1>3 DEF Stray
  <2> DEFINE le == [timestamp |-> Stamp(o, now + place), length |-> length, of |-> None]
  <2>2. place \in Nat /\ length \in Nat BY DisambiguatorAssumption
  <2>3. le \in Light /\ le.of = None BY <1>0, <2>2, OtherLight
  <2>4. UNCHANGED <<boot, world60, sight, data, now, turns>> BY <1>3 DEF Stray
  <2> HIDE DEF le
  <2> QED BY <2>1, <2>3, <2>4 DEF le
<1> QED BY <1>1, <1>2, <1>3

(* No pulse makes the disambiguator's data ill-formed, however long it runs*)
(* and whatever the light does: the state stays in the table, the offsets  *)
(* and times in 32 bits, the history within its array.                     *)
THEOREM TypeCorrect == Spec => []TypeOK
<1>1. Init => TypeOK
  <2> SUFFICES ASSUME Init PROVE TypeOK OBVIOUS
  <2>1. Within(Blank) BY BlankType
  <2>2. disamb = [o \in Objects |-> Blank] BY DEF Init
  <2> HIDE DEF Blank
  <2>3. Code BY <2>1, <2>2 DEF Init, Code, Within
  <2>4. World BY DEF Init, World
  <2> QED BY <2>3, <2>4, Parts
<1>2. TypeOK /\ [Next]_vars => TypeOK'
  <2> SUFFICES ASSUME TypeOK, [Next]_vars PROVE Code' /\ World' BY Parts DEF TypeOK, Code, World
  <2>0. Code /\ World BY Parts
  <2>1. CASE Turn
    <3>1. Code' BY <2>0, <2>1 DEF Turn, Code
    <3>2. now + Window(Slot) \in Nat /\ turns + 1 \in Nat BY <2>0, SlotType DEF World
    <3>3. World' BY <2>0, <2>1, <3>2 DEF Turn, World
    <3> QED BY <3>1, <3>3
  <2>2. CASE Look
    BY <2>0, <2>2 DEF Look, Code, World
  <2>3. ASSUME NEW o \in Objects, Destroy(o) PROVE Code' /\ World'
    <3>1. Within(Blank) BY BlankType
    <3>2. disamb' = [disamb EXCEPT ![o] = Blank] BY <2>3 DEF Destroy
    <3> HIDE DEF Blank
    <3>3. Code' BY <2>0, <2>3, <3>1, <3>2 DEF Destroy, Code, Within
    <3>4. World' BY <2>0, <2>3 DEF Destroy, World
    <3> QED BY <3>3, <3>4
  <2>4. ASSUME NEW o \in Objects, NEW s \in Sensors, Sync(o, s) \/ Sweep(o, s) \/ Stray(o, s)
        PROVE  Code' /\ World'
    <3>1. PICK le \in Light : Pulse(o, s, le) BY <2>4, LightIsPulse
    <3>2. Code' BY <3>1, PulseCode
    <3>3. UNCHANGED <<boot, world60, data, now, turns>> BY <2>4, LightIsPulse
    <3> QED BY <2>0, <3>2, <3>3 DEF World
  <2>5. CASE UNCHANGED vars
    BY <2>0, <2>5 DEF vars, code, light, Code, World
  <2> QED BY <2>1, <2>2, <2>3, <2>4, <2>5 DEF Next
<1> QED BY <1>1, <1>2, PTL DEF Spec

(* The mode the objects share is not changed by one of them while another  *)
(* is sure of its state, except that the destruction of a device frees it. *)
THEOREM ModeIsKept == Spec => ModeKept
<1> DEFINE A == mode60' # mode60 => \/ \E o \in Objects : Destroy(o)
                                   \/ \E o \in Objects : \A p \in Objects \ {o} : ~Sure(p)
<1>1. TypeOK /\ [Next]_vars => [A]_vars
  <2> SUFFICES ASSUME TypeOK, Next PROVE A OBVIOUS
  <2>1. CASE Turn \/ Look BY <2>1 DEF Turn, Look
  <2>2. ASSUME NEW o \in Objects, Destroy(o) PROVE A
    <3> HIDE DEF Destroy
    <3> QED BY <2>2
  <2>3. ASSUME NEW o \in Objects, NEW s \in Sensors, Sync(o, s) \/ Sweep(o, s) \/ Stray(o, s) PROVE A
    <3>1. PICK le \in Light : Pulse(o, s, le) BY <2>3, LightIsPulse
    <3>2. \A p \in Objects \ {o} : Sure(p) => mode60' = mode60 BY <3>1, PulseCode
    <3> QED BY <3>2
  <2> QED BY <2>1, <2>2, <2>3 DEF Next
<1>2. Spec => []TypeOK BY TypeCorrect
<1> QED BY <1>1, <1>2, PTL DEF Spec, ModeKept

-----------------------------------------------------------------------------
(* Where the code takes the cycle to be                                    *)

\* A number is its quotient and its remainder.
LEMMA Divided ==
  ASSUME NEW x \in Int, NEW n \in Nat \ {0}
  PROVE  x \div n \in Int /\ x % n \in 0 .. n - 1 /\ x = (x \div n) * n + (x % n)
OBVIOUS

\* A multiple of g does not matter modulo g.
LEMMA ModShift ==
  ASSUME NEW a \in Int, NEW q \in Int, NEW g \in Nat \ {0}
  PROVE  (a + q * g) % g = a % g
<1> DEFINE b == a + q * g
           e == (b \div g) - (a \div g) - q
<1>1. /\ a \div g \in Int /\ a % g \in 0 .. g - 1 /\ a = (a \div g) * g + (a % g)
      /\ b \in Int /\ b \div g \in Int /\ b % g \in 0 .. g - 1 /\ b = (b \div g) * g + (b % g)
  OBVIOUS
<1>2. e \in Int /\ e * g = (a % g) - (b % g)
  BY <1>1
<1>3. e * g < g /\ e * g > -g
  BY <1>1, <1>2
<1> HIDE DEF e
<1>4. (e >= 1 => e * g >= g) /\ (e <= -1 => e * g <= -g)
  BY <1>2
<1>5. e = 0
  BY <1>2, <1>3, <1>4
<1>6. e * g = 0
  BY <1>5
<1> QED BY <1>1, <1>2, <1>6

\* apply_mod_offset, for a time less than half the clock's range after the start of
\* a cycle: exact, but for a tick that is lost when the clock wrapped in between.
LEMMA OffsetRight ==
  ASSUME NEW M \in Int, NEW T \in Int, NEW g \in Nat \ {0}, M <= T, 2 * (T - M) < Clock
  PROVE  \/ ApplyModOffset(T % Clock, M % Clock, g) = (T - M) % g
         \/ T > M /\ ApplyModOffset(T % Clock, M % Clock, g) = (T - M - 1) % g
<1> DEFINE t == T % Clock
           m == M % Clock
           h == (Clock - 1) \div 2
           k == (T \div Clock) - (M \div Clock)
<1>1. /\ Clock \in Nat \ {0} /\ h \in Nat /\ 2 * h <= Clock - 1 /\ 2 * h >= Clock - 2
  BY DisambiguatorAssumption
<1>2. /\ t \in 0 .. Clock - 1 /\ T \div Clock \in Int /\ T = (T \div Clock) * Clock + t
      /\ m \in 0 .. Clock - 1 /\ M \div Clock \in Int /\ M = (M \div Clock) * Clock + m
  BY <1>1
<1>3. k \in Int /\ (T - M) - (t - m) = k * Clock
  BY <1>1, <1>2
<1> HIDE DEF t, m, k, h
<1>4. k \in {0, 1}
  <2>1. (T - M) - (t - m) < 2 * Clock /\ (T - M) - (t - m) > -Clock
    BY <1>1, <1>2
  <2>2. (k >= 2 => k * Clock >= 2 * Clock) /\ (k <= -1 => k * Clock <= -Clock)
    BY <1>1, <1>3
  <2> QED BY <2>1, <2>2, <1>1, <1>3
<1>5. CASE k = 0
  <2>1. t - m = T - M
    BY <1>1, <1>2, <1>3, <1>5
  <2>2. CASE t > m
    BY <2>1, <2>2 DEF ApplyModOffset, t, m
  <2>3. CASE t = m
    <3>1. T - M = 0 /\ t % g \in Int
      BY <2>1, <2>3, <1>2
    <3>2. ~(t > m) /\ ~(m - t > h)
      BY <2>3, <1>1, <1>2
    <3>3. ApplyModOffset(t, m, g) = ((t % g) - (m % g)) % g
      BY <3>2 DEF ApplyModOffset, h
    <3>4. (t % g) - (m % g) = 0
      BY <3>1, <2>3
    <3> QED BY <3>1, <3>3, <3>4 DEF t, m
  <2> QED BY <2>1, <2>2, <2>3, <1>2
<1>6. CASE k = 1
  <2>1. t - m = T - M - Clock
    BY <1>1, <1>2, <1>3, <1>6
  <2>2. ~(t > m) /\ m - t > h /\ T > M
    BY <2>1, <1>1, <1>2
  <2>3. ApplyModOffset(t, m, g) = (Clock - 1 - m + t) % g
    BY <2>2 DEF ApplyModOffset, h
  <2>4. Clock - 1 - m + t = T - M - 1
    BY <2>1, <1>1, <1>2
  <2> QED BY <2>2, <2>3, <2>4 DEF t, m
<1> QED BY <1>4, <1>5, <1>6

\* The start of the cycle by a sync at the offset off, whose time is cut to the clock's n ticks first.
LEMMA StartOf ==
  ASSUME NEW a \in Int, NEW off \in Int, NEW n \in Nat \ {0}
  PROVE  ((a % n) - off) % n = (a - off) % n
<1> DEFINE z == a \div n
           x == a - off
<1>1. z \in Int /\ a % n \in Int /\ a = z * n + (a % n)
  BY Divided
<1>2. x \in Int /\ -z \in Int /\ z * n \in Int
  BY <1>1
<1> HIDE DEF z
<1>3. (-z) * n = -(z * n)
  BY <1>1
<1>4. (a % n) - off = x + (-z) * n
  BY <1>1, <1>2, <1>3
<1> HIDE DEF x
<1>5. (x + (-z) * n) % n = x % n
  BY <1>2, ModShift
<1> QED BY <1>4, <1>5 DEF x

\* A time in the clock's range, and h later: cut first or last, it is the same.
LEMMA LaterOf ==
  ASSUME NEW a \in Int, NEW h \in Int, NEW n \in Nat \ {0}
  PROVE  ((a % n) + h) % n = (a + h) % n
<1> DEFINE z == -h
<1>1. z \in Int /\ a % n \in Int
  BY Divided
<1>2. (a % n) + h = (a % n) - z /\ a + h = a - z
  BY <1>1
<1> HIDE DEF z
<1>3. ((a % n) - z) % n = (a - z) % n
  BY <1>1, StartOf
<1> QED BY <1>2, <1>3

\* One unit before an offset that is not 0 is the offset less one.
LEMMA OneBefore ==
  ASSUME NEW c \in Int, NEW g \in Nat \ {0}
  PROVE  \A x \in Nat : x > 0 /\ c % g = x => (c - 1) % g = x - 1
<1>1. \A e \in Int : ((c % g) - e) % g = (c - e) % g
  BY StartOf
<1>2. ((c % g) - 1) % g = (c - 1) % g
  <2>1. PICK e \in Int : e = 1
    OBVIOUS
  <2>2. ((c % g) - e) % g = (c - e) % g
    BY <1>1
  <2> QED BY <2>1, <2>2
<1>3. c % g \in 0 .. g - 1
  BY Divided
<1>4. SUFFICES ASSUME NEW x \in Nat, x > 0, c % g = x PROVE (c - 1) % g = x - 1
  OBVIOUS
<1>5. x - 1 \in 0 .. g - 1
  BY <1>3, <1>4
<1>6. (x - 1) % g = x - 1
  BY <1>5
<1> QED BY <1>2, <1>4, <1>6

\* The code's middle of a pulse is the clock at the pulse's middle.
LEMMA CentreOf ==
  ASSUME NEW t \in Int, NEW b \in Int, NEW h \in Int, NEW le \in Light,
         le.timestamp = (t + b) % Clock, h = le.length \div 2
  PROVE  Centre(le) = ((t + h) + b) % Clock
<1> DEFINE a == t + b
<1>1. Clock \in Nat \ {0}
  BY DisambiguatorAssumption
<1>2. a \in Int /\ a + h = (t + h) + b
  OBVIOUS
<1>3. Centre(le) = ((a % Clock) + h) % Clock
  BY DEF Centre
<1> HIDE DEF a
<1>4. ((a % Clock) + h) % Clock = (a + h) % Clock
  BY <1>1, <1>2, LaterOf
<1> QED BY <1>2, <1>3, <1>4

\* From the start of a cycle kept in 32 bits the place in the cycle is found again.
LEMMA CycleOf ==
  ASSUME NEW S \in Nat, NEW T \in Nat, NEW b \in Nat, NEW off \in Nat, NEW g \in Nat \ {0},
         S % g = off, S <= T, 2 * (T - S + off) < Clock
  PROVE  ApplyModOffset((T + b) % Clock, ((S + b) - off) % Clock, g) \in {T % g, (T - 1) % g}
<1> DEFINE z == S \div g
           M == (S + b) - off
           U == T + b
           c == T - S + off
<1>1. z \in Int /\ S % g \in 0 .. g - 1 /\ S = z * g + (S % g)
  BY Divided
<1> HIDE DEF z
<1>2. z >= 0
  <2>1. z <= -1 => z * g <= -g
    BY <1>1
  <2> QED BY <2>1, <1>1
<1> DEFINE y == -z
<1>3. z * g \in Nat /\ off < g /\ S = z * g + off /\ y * g = -(z * g) /\ y \in Int
  BY <1>1, <1>2
<1> HIDE DEF y
<1>4. M \in Nat /\ U \in Nat /\ M <= U /\ U - M = c /\ 2 * (U - M) < Clock /\ c \in Int
  BY <1>3
<1>5. c = T + y * g /\ c - 1 = (T - 1) + y * g /\ T - 1 \in Int /\ T \in Int
  <2> DEFINE w == y * g
             v == z * g
  <2>0. v \in Nat /\ S = v + off /\ w = -v
    BY <1>3
  <2> HIDE DEF w, v
  <2>1. w \in Int /\ S - off = -w
    BY <2>0
  <2>2. c = T + w /\ c - 1 = (T - 1) + w
    BY <2>1
  <2> QED BY <2>2 DEF w
<1>6. c % g = T % g /\ (c - 1) % g = (T - 1) % g
  <2> HIDE DEF c
  <2>1. (T + y * g) % g = T % g
    BY <1>3, <1>5, ModShift
  <2>2. ((T - 1) + y * g) % g = (T - 1) % g
    BY <1>3, <1>5, ModShift
  <2> QED BY <2>1, <2>2, <1>5
<1> HIDE DEF U, M, c
<1>7. \/ ApplyModOffset(U % Clock, M % Clock, g) = (U - M) % g
      \/ ApplyModOffset(U % Clock, M % Clock, g) = (U - M - 1) % g
  BY <1>4, OffsetRight
<1>8. ApplyModOffset(U % Clock, M % Clock, g) \in {T % g, (T - 1) % g}
  BY <1>4, <1>6, <1>7
<1> QED BY <1>8 DEF U, M

\* The object o saw sync, which starts state j of the cycle, at time S.
SyncOf(o, sync, j, S) == sync \in Light /\ sync.timestamp = Stamp(o, S) /\ S % Group = Offset[j]

\* The cycle of S started less than half the clock's range before t.
Soon(S, j, t) == S <= t /\ 2 * (t - S + Offset[j]) < Clock

\* The middle of the pulse le, which o saw, is at time t.
MiddleAt(o, le, t) ==
  le \in Light /\ \E T \in Int, h \in Int : le.timestamp = Stamp(o, T) /\ h = le.length \div 2 /\ t = T + h

\* In slot k, ticks after its start are not near the end that is given away.
Clear(k, p) ==
  p > 0 /\ p < Window(k) /\ (2 * p <= Window(k) \/ (IsSweep(k) /\ Window(k) - p > Ticks(1000)))

(* From a sync of state j, seen at its true time S, a device finds at any  *)
(* time less than half the clock's range later where in the cycle it is,   *)
(* or one unit less when its clock wrapped in between: this is what EndSync*)
(* and ProcessStateChange keep mod for, and PropagateState relies on.      *)
THEOREM CycleFound ==
  ASSUME TypeOK, NEW o \in Objects, NEW j \in 1 .. 12, NEW S \in Nat, NEW T \in Nat,
         NEW sync, SyncOf(o, sync, j, S), Soon(S, j, T)
  PROVE  ApplyModOffset(Stamp(o, T), ModFor(sync, j), Group) \in {T % Group, (T - 1) % Group}
<1>0. /\ sync.timestamp = Stamp(o, S) /\ S % Group = Offset[j]
      /\ S <= T /\ 2 * (T - S + Offset[j]) < Clock
  BY DEF SyncOf, Soon
<1>1. world60 \in BOOLEAN /\ boot \in [Objects -> Boots]
  BY DEF TypeOK
<1>2. Group \in Nat \ {0} /\ Offset[j] \in Nat
  BY <1>1, GroupType, OffsetTable DEF Group
<1>3. boot[o] \in Nat /\ Clock \in Nat \ {0}
  BY <1>1, DisambiguatorAssumption
<1> DEFINE a == S + boot[o]
<1>4. a \in Int /\ Offset[j] \in Int
  <2>1. boot[o] \in Int /\ Offset[j] \in Int
    BY <1>2, <1>3
  <2>2. \A b \in Int : S + b \in Int
    OBVIOUS
  <2> QED BY <2>1, <2>2
<1> HIDE DEF a
<1>5. ((a % Clock) - Offset[j]) % Clock = (a - Offset[j]) % Clock
  BY <1>3, <1>4, StartOf
<1>6. ModFor(sync, j) = (a - Offset[j]) % Clock
  BY <1>0, <1>5 DEF ModFor, Stamp, a
<1>7. Stamp(o, T) = (T + boot[o]) % Clock
  BY DEF Stamp
<1> HIDE DEF Group
<1>8. ApplyModOffset((T + boot[o]) % Clock, ((S + boot[o]) - Offset[j]) % Clock, Group)
        \in {T % Group, (T - 1) % Group}
  BY <1>0, <1>2, <1>3, CycleOf
<1> QED BY <1>6, <1>7, <1>8 DEF a

\* The windows do not overlap.
LEMMA OffsetsRise ==
  ASSUME NEW a \in 1 .. 13, NEW b \in 1 .. 13, a < b
  PROVE  Offset[a] < Offset[b]
<1>1. \A k \in 1 .. 13 : Offset[k] \in Nat
  BY OffsetTable
<1>2. /\ Offset[1] < Offset[2] /\ Offset[2] < Offset[3] /\ Offset[3] < Offset[4]
      /\ Offset[4] < Offset[5] /\ Offset[5] < Offset[6] /\ Offset[6] < Offset[7]
      /\ Offset[7] < Offset[8] /\ Offset[8] < Offset[9] /\ Offset[9] < Offset[10]
      /\ Offset[10] < Offset[11] /\ Offset[11] < Offset[12] /\ Offset[12] < Offset[13]
  BY OffsetTable, 1 + 1 = 2, 2 + 1 = 3, 3 + 1 = 4, 4 + 1 = 5, 5 + 1 = 6, 6 + 1 = 7,
     7 + 1 = 8, 8 + 1 = 9, 9 + 1 = 10, 10 + 1 = 11, 11 + 1 = 12, 12 + 1 = 13
<1>3. /\ Offset[1] \in Nat /\ Offset[2] \in Nat /\ Offset[3] \in Nat /\ Offset[4] \in Nat
      /\ Offset[5] \in Nat /\ Offset[6] \in Nat /\ Offset[7] \in Nat /\ Offset[8] \in Nat
      /\ Offset[9] \in Nat /\ Offset[10] \in Nat /\ Offset[11] \in Nat /\ Offset[12] \in Nat
      /\ Offset[13] \in Nat
  BY <1>1
<1>4. a \in {1, 2, 3, 4, 5, 6, 7, 8, 9, 10, 11, 12} /\ b \in {2, 3, 4, 5, 6, 7, 8, 9, 10, 11, 12, 13}
  OBVIOUS
<1> QED BY <1>2, <1>3, <1>4

(* In the first half of a window of syncs, and in a window of a sweep up to*)
(* its last 1000 ticks, findByOffset answers the state whose window it is. *)
THEOREM StateRight ==
  ASSUME NEW k \in 1 .. 12, NEW p \in Nat, p < Window(k),
         2 * p <= Window(k) \/ (IsSweep(k) /\ Window(k) - p > Ticks(1000))
  PROVE  FindByOffset(Offset[k] + p) = [state |-> k, error |-> p]
<1> DEFINE n == Offset[k] + p
           Fits(i) == Offset[i - 1] <= n /\ n < Offset[i]
           i == CHOOSE i \in 2 .. 13 : Fits(i)
<1>1. Offset[k] \in Nat /\ Offset[k + 1] \in Nat /\ Window(k) = Offset[k + 1] - Offset[k]
  BY OffsetTable DEF Window
<1>2. Offset[k] <= n /\ n < Offset[k + 1] /\ n - Offset[k] = p /\ Offset[k + 1] - n = Window(k) - p
      /\ n \in Nat
  BY <1>1
<1>3. k + 1 \in 2 .. 13 /\ (k + 1) - 1 = k
  OBVIOUS
<1> HIDE DEF n
<1>4. Fits(k + 1)
  BY <1>2, <1>3
<1>5. i \in 2 .. 13 /\ Fits(i)
  BY <1>3, <1>4
<1> HIDE DEF i
<1>6. i = k + 1
  <2>1. i - 1 \in 1 .. 12 /\ Offset[i - 1] <= n /\ n < Offset[i]
        /\ Offset[i - 1] \in Nat /\ Offset[i] \in Nat
    BY <1>5, OffsetTable
  <2>2. CASE i < k + 1
    <3>1. i = k \/ i < k
      BY <2>1, <2>2
    <3>2. Offset[i] <= Offset[k]
      BY <3>1, <2>1, <1>1, OffsetsRise
    <3> QED BY <3>2, <2>1, <1>1, <1>2
  <2>3. CASE i > k + 1
    <3>1. i - 1 = k + 1 \/ k + 1 < i - 1
      BY <2>1, <2>3
    <3>2. Offset[k + 1] <= Offset[i - 1]
      BY <3>1, <2>1, <1>1, <1>3, OffsetsRise
    <3> QED BY <3>2, <2>1, <1>1, <1>2
  <2> QED BY <2>1, <2>2, <2>3
<1>7. FindByOffset(n) = Closest(k + 1, n - Offset[k], Offset[k + 1] - n)
  <2>1. i = CHOOSE j \in 2 .. 13 : Offset[j - 1] <= n /\ n < Offset[j]
    BY DEF i
  <2>2. FindByOffset(n) = Closest(i, n - Offset[i - 1], Offset[i] - n)
    BY <2>1 DEF FindByOffset, End
  <2> QED BY <2>2, <1>3, <1>6
<1>8. ~(p > Window(k) - p /\ ~(IsSweep(k) /\ Window(k) - p > Ticks(1000)))
  <2>1. Window(k) \in Int
    BY <1>1
  <2> QED BY <2>1
<1>9. FindByOffset(n) = [state |-> k, error |-> p]
  BY <1>2, <1>3, <1>7, <1>8 DEF Closest
<1> QED BY <1>9 DEF n

\* The offset that is one unit too small is in the same window.
LEMMA SameWindow ==
  ASSUME NEW k \in 1 .. 12, NEW p \in Nat, Clear(k, p)
  PROVE  FindByOffset(Offset[k] + p).state = k /\ FindByOffset((Offset[k] + p) - 1).state = k
<1>0. p > 0 /\ p < Window(k) /\ (2 * p <= Window(k) \/ (IsSweep(k) /\ Window(k) - p > Ticks(1000)))
  BY DEF Clear
<1> DEFINE q == p - 1
           w == Window(k)
<1>1. w \in Int /\ Ticks(1000) \in Int /\ Offset[k] \in Int
  <2>1. Offset[k] \in Nat /\ Offset[k + 1] \in Nat
    BY OffsetTable
  <2> QED BY <2>1, TicksType DEF Window
<1>2. FindByOffset(Offset[k] + p) = [state |-> k, error |-> p]
  BY <1>0, StateRight
<1>3. q \in Nat /\ Offset[k] + q = (Offset[k] + p) - 1
  BY <1>0, <1>1
<1>4. q < w /\ (2 * q <= w \/ (IsSweep(k) /\ w - q > Ticks(1000)))
  BY <1>0, <1>1
<1> HIDE DEF q
<1>5. FindByOffset(Offset[k] + q) = [state |-> k, error |-> q]
  BY <1>3, <1>4, StateRight
<1> QED BY <1>2, <1>3, <1>5

(* Together: a pulse that is in slot k, and not at its edge, is put in the *)
(* window of k by PropagateState, when the lighthouse's mod is from a sync *)
(* of less than half the clock's range before, over any wrap of the clock  *)
(* and whatever the device's clock showed at first.                        *)
THEOREM PulsePlaced ==
  ASSUME TypeOK, NEW o \in Objects,
         NEW j \in 1 .. 12, NEW S \in Nat, NEW sync, SyncOf(o, sync, j, S),
         NEW t \in Nat, NEW le, MiddleAt(o, le, t), Soon(S, j, t),
         NEW k \in 1 .. 12, NEW p \in Nat, t % Group = Offset[k] + p, Clear(k, p)
  PROVE  FindByOffset(ApplyModOffset(Centre(le), ModFor(sync, j), Group)).state = k
<1> DEFINE x == Offset[k] + p
<1>1. FindByOffset(x).state = k /\ FindByOffset(x - 1).state = k
  BY SameWindow
<1>2. x \in Nat /\ x > 0
  <2>1. Offset[k] \in Nat /\ p > 0
    BY OffsetTable DEF Clear
  <2> QED BY <2>1
<1>3. t % Group = x
  OBVIOUS
<1> HIDE DEF x
<1>4. world60 \in BOOLEAN /\ boot \in [Objects -> Boots]
  BY DEF TypeOK
<1>5. boot[o] \in Int
  BY <1>4, DisambiguatorAssumption
<1>6. Group \in Nat \ {0}
  BY <1>4, GroupType DEF Group
<1> HIDE DEF Group
<1>7. Centre(le) = Stamp(o, t)
  <2>1. PICK T \in Int, h \in Int :
          le \in Light /\ le.timestamp = Stamp(o, T) /\ h = le.length \div 2 /\ t = T + h
    BY DEF MiddleAt
  <2>2. le.timestamp = (T + boot[o]) % Clock
    BY <2>1 DEF Stamp
  <2>3. Centre(le) = ((T + h) + boot[o]) % Clock
    BY <1>5, <2>1, <2>2, CentreOf, ZenonT(60)
  <2> QED BY <2>1, <2>3 DEF Stamp
<1>8. (t - 1) % Group = x - 1
  <2>1. t \in Int
    OBVIOUS
  <2>2. \A y \in Nat : y > 0 /\ t % Group = y => (t - 1) % Group = y - 1
    BY <1>6, <2>1, OneBefore
  <2> QED BY <1>2, <1>3, <2>2
<1>9. ApplyModOffset(Stamp(o, t), ModFor(sync, j), Group) \in {t % Group, (t - 1) % Group}
  BY CycleFound
<1> QED BY <1>1, <1>3, <1>7, <1>8, <1>9

-----------------------------------------------------------------------------
(* The grid of the syncs                                                   *)

\* A quarter of the cycle: two windows of syncs and one of a sweep.
Quarter == 2 * PulseWindow + CaptureWindow

\* Dividing before adding loses at most what rounds down.
LEMMA TicksAdd ==
  ASSUME NEW a \in Nat, NEW b \in Nat, NEW c \in Nat, a + b = c
  PROVE  Ticks(a) + Ticks(b) <= Ticks(c)
<1> DEFINE p == a \div Tick
           q == b \div Tick
           r == c \div Tick
<1>1. Tick \in Nat \ {0}
  BY DisambiguatorAssumption
<1>2. /\ p \in Int /\ a % Tick \in 0 .. Tick - 1 /\ a = p * Tick + (a % Tick)
      /\ q \in Int /\ b % Tick \in 0 .. Tick - 1 /\ b = q * Tick + (b % Tick)
  BY <1>1, Divided
<1>4. r \in Int /\ c % Tick \in 0 .. Tick - 1 /\ c = r * Tick + (c % Tick)
  BY <1>1, Divided
<1> DEFINE e == p + q - r
<1> HIDE DEF p, q, r
<1>5. e \in Int /\ e * Tick < Tick
  <2>1. e * Tick = p * Tick + q * Tick - r * Tick
    BY <1>1, <1>2, <1>4
  <2> QED BY <2>1, <1>1, <1>2, <1>4
<1>6. e >= 1 => e * Tick >= Tick
  BY <1>1, <1>5
<1>7. p + q <= r
  BY <1>1, <1>2, <1>4, <1>5, <1>6
<1> QED BY <1>7 DEF p, q, r, Ticks

\* How the widths of the windows and of the pulses compare.
LEMMA Widths ==
  /\ Ticks(500) \in Nat \ {0} /\ Ticks(1000) \in Nat /\ Ticks(2000) \in Nat /\ Ticks(2750) \in Nat
  /\ 2 * Ticks(500) <= Ticks(1000) /\ 2 * Ticks(1000) <= Ticks(2000) /\ 5 * Ticks(500) <= Ticks(2750)
  /\ Ticks(2750) + Ticks(500) + Ticks(1000) + Ticks(2000) <= PulseWindow
  /\ PulseWindow \in Nat /\ CaptureWindow \in Nat /\ PulseWindow <= CaptureWindow
  /\ 10 * Ticks(500) <= PulseWindow
  /\ Quarter \in Nat \ {0} /\ Quarter >= 3 * PulseWindow
<1>1. \A n \in Nat : Ticks(n) \in Nat
  BY TicksType
<1>2. Ticks(500) # 0
  <2> DEFINE q == 500 \div Tick
  <2>1. Tick \in Nat \ {0} /\ Tick <= 500
    BY DisambiguatorAssumption, ClockAssumption
  <2>2. q \in Int /\ 500 % Tick \in 0 .. Tick - 1 /\ 500 = q * Tick + (500 % Tick)
    BY <2>1, Divided
  <2> HIDE DEF q
  <2>3. q = 0 => q * Tick = 0
    BY <2>1
  <2> QED BY <2>1, <2>2, <2>3 DEF Ticks, q
<1>3. /\ Ticks(500) + Ticks(500) <= Ticks(1000)
      /\ Ticks(1000) + Ticks(1000) <= Ticks(2000)
      /\ Ticks(2000) + Ticks(500) <= Ticks(2500)
      /\ Ticks(2500) + Ticks(250) <= Ticks(2750)
      /\ Ticks(2750) + Ticks(500) <= Ticks(3250)
      /\ Ticks(3250) + Ticks(1000) <= Ticks(4250)
      /\ Ticks(4250) + Ticks(2000) <= Ticks(6250)
      /\ Ticks(6250) + Ticks(13750) <= Ticks(20000)
      /\ Ticks(20000) + Ticks(340000) <= Ticks(360000)
  <2>1. Ticks(500) + Ticks(500) <= Ticks(1000)
    BY TicksAdd, 500 + 500 = 1000
  <2>2. Ticks(1000) + Ticks(1000) <= Ticks(2000)
    BY TicksAdd, 1000 + 1000 = 2000
  <2>3. Ticks(2000) + Ticks(500) <= Ticks(2500)
    BY TicksAdd, 2000 + 500 = 2500
  <2>4. Ticks(2500) + Ticks(250) <= Ticks(2750)
    BY TicksAdd, 2500 + 250 = 2750
  <2>5. Ticks(2750) + Ticks(500) <= Ticks(3250)
    BY TicksAdd, 2750 + 500 = 3250
  <2>6. Ticks(3250) + Ticks(1000) <= Ticks(4250)
    BY TicksAdd, 3250 + 1000 = 4250
  <2>7. Ticks(4250) + Ticks(2000) <= Ticks(6250)
    BY TicksAdd, 4250 + 2000 = 6250
  <2>8. Ticks(6250) + Ticks(13750) <= Ticks(20000)
    BY TicksAdd, 6250 + 13750 = 20000
  <2>9. Ticks(20000) + Ticks(340000) <= Ticks(360000)
    BY TicksAdd, 20000 + 340000 = 360000
  <2> QED BY <2>1, <2>2, <2>3, <2>4, <2>5, <2>6, <2>7, <2>8, <2>9
<1>4. /\ Ticks(250) \in Nat /\ Ticks(500) \in Nat /\ Ticks(1000) \in Nat /\ Ticks(2000) \in Nat
      /\ Ticks(2500) \in Nat /\ Ticks(2750) \in Nat /\ Ticks(3250) \in Nat /\ Ticks(4250) \in Nat
      /\ Ticks(6250) \in Nat /\ Ticks(13750) \in Nat /\ Ticks(20000) \in Nat
      /\ Ticks(340000) \in Nat /\ Ticks(360000) \in Nat
  BY <1>1
<1> DEFINE a == Ticks(250) 
           b == Ticks(500) 
           c == Ticks(1000) 
           d == Ticks(2000)
           e == Ticks(2500)
           f == Ticks(2750)
           g == Ticks(3250)
           h == Ticks(4250)
           i == Ticks(6250)
           j == Ticks(13750)
           k == Ticks(20000)
           l == Ticks(340000)
           m == Ticks(360000)
<1>5. PulseWindow = k /\ CaptureWindow = m
  BY DEF PulseWindow, CaptureWindow
<1> HIDE DEF a, b, c, d, e, f, g, h, i, j, k, l, m
<1>6. /\ b \in Nat \ {0} /\ c \in Nat /\ d \in Nat /\ f \in Nat
      /\ 2 * b <= c /\ 2 * c <= d /\ 5 * b <= f /\ f + b + c + d <= k
      /\ k \in Nat /\ m \in Nat /\ k <= m /\ 10 * b <= k
  BY <1>2, <1>3, <1>4 DEF a, b, c, d, e, f, g, h, i, j, k, l, m
<1>7. Quarter \in Nat \ {0} /\ Quarter >= 3 * k
  BY <1>5, <1>6 DEF Quarter
<1> QED BY <1>5, <1>6, <1>7 DEF b, c, d, f

\* What is close to a place on the grid is on no other.
LEMMA GridApart ==
  ASSUME NEW u \in Int, NEW v \in -2 .. 2,
         NEW e \in Int, u * Quarter + v * PulseWindow = e, e <= Ticks(500), e >= -Ticks(500)
  PROVE  u = 0 /\ v = 0
<1> DEFINE H == Quarter
           P == PulseWindow
           T == Ticks(500)
           w == u * H
<1>1. H \in Nat /\ P \in Nat /\ T \in Nat \ {0} /\ H >= 3 * P /\ 10 * T <= P
  BY Widths
<1> HIDE DEF H, P, T
<1>2. (u >= 1 => w >= H) /\ (u <= -1 => w <= -H) /\ (u = 0 => w = 0) /\ w \in Int
  BY <1>1
<1>3. w + v * P = e /\ e <= T /\ e >= -T
  BY DEF H, P, T
<1> HIDE DEF w
<1>4. v = -2 \/ v = -1 \/ v = 0 \/ v = 1 \/ v = 2
  OBVIOUS
<1> QED BY <1>1, <1>2, <1>3, <1>4

\* The quarter of state k, and which of its windows it is: 0 and 1 are the syncs
\* of lighthouse 1 and 0.
QuarterOf(k) == (k - 1) \div 3
WindowOf(k) == (k - 1) % 3

\* Where a window starts, by its quarter.
LEMMA OnGrid ==
  ASSUME NEW k \in 1 .. 13
  PROVE  /\ Offset[k] = QuarterOf(k) * Quarter + WindowOf(k) * PulseWindow
         /\ QuarterOf(k) \in 0 .. 4 /\ WindowOf(k) \in 0 .. 2 /\ Offset[k] \in Nat
         /\ (k = 13 <=> QuarterOf(k) = 4)
         /\ (IsSweep(k) <=> WindowOf(k) = 2)
         /\ k = 3 * QuarterOf(k) + WindowOf(k) + 1
<1> DEFINE P == PulseWindow
           C == CaptureWindow
           H == Quarter
<1>1. P \in Nat /\ C \in Nat /\ H = 2 * P + C
  BY Widths DEF Quarter
<1>2. Offset[k] = (k - 1 - ((k - 1) \div 3)) * P + ((k - 1) \div 3) * C
  BY DEF Offset, End, P, C
<1> HIDE DEF P, C, H
<1>3. k \in {1, 2, 3, 4, 5, 6, 7, 8, 9, 10, 11, 12, 13}
  OBVIOUS
<1>4. Offset[k] = ((k - 1) \div 3) * H + ((k - 1) % 3) * P
  BY <1>1, <1>2, <1>3
<1>5. Offset[k] \in Nat
  BY OffsetTable
<1>6. QuarterOf(k) \in 0 .. 4 /\ WindowOf(k) \in 0 .. 2 /\ (k = 13 <=> QuarterOf(k) = 4)
  BY DEF QuarterOf, WindowOf
<1>7. IsSweep(k) <=> WindowOf(k) = 2
  BY <1>3 DEF WindowOf, IsSweep
<1>8. k = 3 * QuarterOf(k) + WindowOf(k) + 1
  BY DEF QuarterOf, WindowOf
<1> QED BY <1>4, <1>5, <1>6, <1>7, <1>8 DEF QuarterOf, WindowOf, H, P

(* The table: lighthouse 1 is first in each quarter; the axis goes by the  *)
(* quarter; and the lighthouse that does not sweep is told to skip.        *)
LEMMA TableRight ==
  ASSUME NEW k \in Syncs
  PROVE  /\ k \in 1 .. 12 /\ WindowOf(k) \in {0, 1} /\ QuarterOf(k) \in 0 .. 3 /\ Lh[k] = 1 - WindowOf(k)
         /\ Acode[k] = (QuarterOf(k) % 2) + (IF QuarterOf(k) \div 2 = WindowOf(k) THEN 4 ELSE 0)
         /\ (k < B0 <=> QuarterOf(k) < 2)
<1>1. k \in {1, 2, 4, 5, 7, 8, 10, 11}
  BY DEF Syncs
<1> QED BY <1>1 DEF QuarterOf, WindowOf, Lh, Acode, B0

\* How long the pulses of the eight acodes are.
LEMMA Timings ==
  /\ AcodeTiming(0) = Ticks(2750) /\ AcodeTiming(1) = Ticks(2750) + Ticks(500)
  /\ AcodeTiming(2) = Ticks(2750) + Ticks(1000)
  /\ AcodeTiming(3) = Ticks(2750) + Ticks(500) + Ticks(1000)
  /\ AcodeTiming(4) = Ticks(2750) + Ticks(2000)
  /\ AcodeTiming(5) = Ticks(2750) + Ticks(500) + Ticks(2000)
  /\ AcodeTiming(6) = Ticks(2750) + Ticks(1000) + Ticks(2000)
  /\ AcodeTiming(7) = Ticks(2750) + Ticks(500) + Ticks(1000) + Ticks(2000)
<1> DEFINE a == Ticks(2750)
           b == Ticks(500)
           c == Ticks(1000)
           d == Ticks(2000)
<1>1. a \in Nat /\ b \in Nat /\ c \in Nat /\ d \in Nat
  BY Widths
<1>2. \A n \in 0 .. 7 : AcodeTiming(n) = a + (n % 2) * b + ((n \div 2) % 2) * c + (n \div 4) * d
  BY DEF AcodeTiming
<1> HIDE DEF a, b, c, d
<1>3. /\ AcodeTiming(0) = a /\ AcodeTiming(1) = a + b /\ AcodeTiming(2) = a + c
      /\ AcodeTiming(3) = a + b + c /\ AcodeTiming(4) = a + d /\ AcodeTiming(5) = a + b + d
      /\ AcodeTiming(6) = a + c + d /\ AcodeTiming(7) = a + b + c + d
  BY <1>1, <1>2
<1> QED BY <1>3 DEF a, b, c, d

\* With its data bit or without, a sync fits no other acode.
LEMMA CodeApart ==
  ASSUME NEW b \in {0, 1, 4, 5}, NEW c \in {0, 1, 4, 5},
         NEW length \in {AcodeTiming(b), AcodeTiming(b + 2)},
         CalculateError(c, length) < Ticks(500)
  PROVE  b = c
<1> DEFINE A == Ticks(2750)
           B == Ticks(500)
           C == Ticks(1000)
           D == Ticks(2000)
           V(n) == AcodeTiming(n)
<1>1. A \in Nat /\ B \in Nat \ {0} /\ C \in Nat /\ D \in Nat /\ 2 * B <= C /\ 2 * C <= D
  BY Widths
<1>2. /\ V(0) = A /\ V(1) = A + B /\ V(2) = A + C /\ V(3) = A + B + C
      /\ V(4) = A + D /\ V(5) = A + B + D /\ V(6) = A + C + D /\ V(7) = A + B + C + D
  BY Timings
<1> HIDE DEF A, C, D, V
<1>3. /\ length = V(b) \/ length = V(b + 2)
      /\ Abs(V(c) - length) < B \/ Abs(V(c + 2) - length) < B
  BY DEF CalculateError, V
<1> HIDE DEF B
<1>4. \A n \in Int : Abs(n) < B => n < B /\ -n < B
  BY <1>1 DEF Abs
<1>5. \A n \in 0 .. 7 : V(n) \in Int
  <2>1. \A n \in 0 .. 7 : n \in {0, 1, 2, 3, 4, 5, 6, 7}
    OBVIOUS
  <2> QED BY <2>1, <1>1, <1>2
<1>6. b \in 0 .. 7 /\ b + 2 \in 0 .. 7 /\ c \in 0 .. 7 /\ c + 2 \in 0 .. 7
  OBVIOUS
<1>7. length \in Int
  BY <1>3, <1>5, <1>6
<1>8. PICK m \in {b, b + 2}, n \in {c, c + 2} : V(n) - V(m) < B /\ V(m) - V(n) < B
  <2>1. PICK m \in {b, b + 2} : length = V(m)
    BY <1>3
  <2>2. PICK n \in {c, c + 2} : Abs(V(n) - length) < B
    BY <1>3
  <2>3. V(n) \in Int /\ V(m) \in Int
    BY <1>5, <1>6
  <2>4. V(n) - length < B /\ -(V(n) - length) < B
    BY <2>2, <2>3, <1>7, <1>4
  <2> QED BY <2>1, <2>3, <2>4
<1>9. CASE b = 0
  BY <1>1, <1>2, <1>8, <1>9
<1>10. CASE b = 1
  BY <1>1, <1>2, <1>8, <1>10
<1>11. CASE b = 4
  BY <1>1, <1>2, <1>8, <1>11
<1>12. CASE b = 5
  BY <1>1, <1>2, <1>8, <1>12
<1> QED BY <1>9, <1>10, <1>11, <1>12

\* How far findByOffset says its state is.
LEMMA FoundAt ==
  ASSUME NEW n \in Nat, n < Offset[13]
  PROVE  LET f == FindByOffset(n)
         IN  /\ f.state \in 1 .. 13 /\ f.error \in Nat
             /\ f.error = n - Offset[f.state] \/ f.error = Offset[f.state] - n
<1> DEFINE Fits(i) == Offset[i - 1] <= n /\ n < Offset[i]
           i == CHOOSE i \in 2 .. 13 : Fits(i)
           f == FindByOffset(n)
<1>1. \E j \in 2 .. 13 : Fits(j)
  <2>1. PICK k \in 1 .. 12 : Offset[k] <= n /\ n < Offset[k + 1] BY InSomeWindow
  <2> QED BY <2>1, k + 1 \in 2 .. 13, (k + 1) - 1 = k
<1>2. i \in 2 .. 13 BY <1>1
<1>3. i = CHOOSE j \in 2 .. 13 : Offset[j - 1] <= n /\ n < Offset[j] OBVIOUS
<1>4. f = Closest(i, n - Offset[i - 1], Offset[i] - n) BY <1>3 DEF FindByOffset, End
<1> HIDE DEF i, f
<1>5. \/ f = [state |-> i, error |-> Offset[i] - n]
      \/ f = [state |-> i - 1, error |-> n - Offset[i - 1]]
  BY <1>4 DEF Closest
<1>6. f.error = n - Offset[f.state] \/ f.error = Offset[f.state] - n
  BY <1>5
<1>7. f.state \in 1 .. 13 /\ f.error \in Nat
  BY StateFound DEF f
<1> QED BY <1>6, <1>7 DEF f

\* t is not after last, by less than half the clock's range, and in between a clock
\* that showed b at time 0 does not wrap.
Earlier(b, t, last) ==
  t <= last /\ 2 * (last - t) < Clock /\ ((t + b) % Clock) + (last - t) = (last + b) % Clock

\* Where such a time is put in a cycle of g, when the last one is taken to be off
\* after the start of a cycle.
SeenBefore(b, t, last, off, g) ==
  ApplyModOffset((t + b) % Clock, (((last + b) % Clock) - off) % Clock, g)

SeenRight(b, t, last, off, g) ==
  LET c == t - (last - off)
      y == SeenBefore(b, t, last, off, g)
  IN  y = c % g \/ (c > 0 /\ c <= off /\ y = (c - 1) % g)

\* Where a sync before the last one is, for who takes the last one for state s.
LEMMA SeenBack ==
  ASSUME NEW t \in Int, NEW last \in Int, NEW off \in Nat, 2 * off < Clock,
         NEW b \in Int, NEW g \in Nat \ {0}, Earlier(b, t, last)
  PROVE  SeenRight(b, t, last, off, g)
<1> DEFINE c == t - (last - off)
           s == (t + b) % Clock
           z == (last + b) % Clock
           m == (z - off) % Clock
           h == (Clock - 1) \div 2
           e == last - t
<1>1. Clock \in Nat \ {0} /\ h \in Nat /\ 2 * h <= Clock - 1 /\ 2 * h >= Clock - 2
  BY DisambiguatorAssumption
<1>2. t + b \in Int /\ last + b \in Int
  OBVIOUS
<1>7. e >= 0 /\ 2 * e < Clock /\ z = s + e
  BY DEF Earlier
<1>3. s \in 0 .. Clock - 1 /\ z \in 0 .. Clock - 1
  BY <1>1, <1>2
<1>4. c \in Int /\ e \in Nat /\ z = s + e /\ c = off - e /\ 2 * e < Clock
  BY <1>7
<1> DEFINE y == ApplyModOffset(s, m, g)
<1>8. y = SeenBefore(b, t, last, off, g)
  BY DEF SeenBefore
<1>9. SUFFICES y = c % g \/ (c > 0 /\ c <= off /\ y = (c - 1) % g)
  <2> HIDE DEF y
  <2> QED BY <1>8 DEF c, SeenRight
<1> HIDE DEF c, s, z, e
<1>5. CASE z >= off
  <2>1. m = z - off
    BY <1>1, <1>3, <1>5
  <2> HIDE DEF m
  <2>2. m = s - c /\ s - m = c /\ m \in Int /\ s \in Int
    BY <2>1, <1>1, <1>3, <1>4, <1>5
  <2>3. CASE s > m
    <3>1. ApplyModOffset(s, m, g) = (s - m) % g
      BY <2>3 DEF ApplyModOffset
    <3> QED BY <2>2, <3>1
  <2>4. CASE ~(s > m)
    <3>1. ~(m - s > h)
      BY <2>2, <2>4, <1>1, <1>3, <1>4
    <3>2. ApplyModOffset(s, m, g) = ((s % g) - (m % g)) % g
      BY <2>4, <3>1 DEF ApplyModOffset, h
    <3>3. ((s % g) - (m % g)) % g = (s - m) % g
      <4> DEFINE p == s \div g
                 q == m \div g
                 r == q - p
                 w == (s % g) - (m % g)
      <4>1. /\ p \in Int /\ s % g \in 0 .. g - 1 /\ s = p * g + (s % g)
            /\ q \in Int /\ m % g \in 0 .. g - 1 /\ m = q * g + (m % g)
        BY <2>2, Divided
      <4> HIDE DEF p, q
      <4>2. r \in Int /\ s - m \in Int
        BY <4>1, <1>3, <2>2
      <4>3. r * g = q * g - p * g
        BY <4>1
      <4>4. w = (s - m) + r * g
        BY <4>1, <4>3
      <4> HIDE DEF w, r
      <4>5. w % g = (s - m) % g
        BY <4>2, <4>4, ModShift
      <4> QED BY <4>5 DEF w
    <3> QED BY <2>2, <3>2, <3>3
  <2> QED BY <2>3, <2>4
<1>6. CASE z < off
  <2>1. m = z - off + Clock
    <3>1. z - off + Clock \in 0 .. Clock - 1
      BY <1>1, <1>3, <1>6
    <3>2. \A x \in Int : x + Clock \in 0 .. Clock - 1 => x % Clock = x + Clock
      BY <1>1
    <3> QED BY <3>1, <3>2, <1>3
  <2> HIDE DEF m, h
  <2>2. m - s = Clock - c /\ c > 0 /\ c <= off /\ m \in Int /\ s \in Int
    BY <2>1, <1>1, <1>3, <1>4, <1>6
  <2>3. ~(s > m) /\ m - s > h
    BY <2>2, <1>1, <1>3, <1>4
  <2>4. ApplyModOffset(s, m, g) = (Clock - 1 - m + s) % g
    BY <2>3 DEF ApplyModOffset, h
  <2>5. Clock - 1 - m + s = c - 1
    BY <2>2, <1>1, <1>3, <1>4
  <2> QED BY <2>2, <2>4, <2>5 DEF m
<1> QED BY <1>3, <1>5, <1>6

\* The acode that a sync of window r of quarter q has without the data bit.
CodeAt(q, r) == (q % 2) + (IF ~world60 /\ (q \div 2) % 2 = r THEN 4 ELSE 0)

\* A lighthouse's sync begins at time t, in full, and is length long.
SyncAt(t, length, q, r) ==
  /\ q \in Nat /\ r \in {0, 1} /\ (world60 => r = 1)
  /\ t = q * Quarter + r * PulseWindow
  /\ length \in {AcodeTiming(CodeAt(q, r)), AcodeTiming(CodeAt(q, r) + 2)}

\* What o saw at the time of, if not None, is a lighthouse's sync.
Genuine(o, le) ==
  le.of # None => /\ le.of <= now /\ le.timestamp = Stamp(o, le.of)
                  /\ \E q \in Nat, r \in {0, 1} : SyncAt(le.of, le.length, q, r)

\* Without the data bit there are four acodes.
LEMMA CodeIs ==
  ASSUME NEW q \in Nat, NEW r \in {0, 1}
  PROVE  CodeAt(q, r) \in {0, 1, 4, 5}
BY DEF CodeAt

\* The cycle has four quarters, in 60Hz mode two.
LEMMA Groups ==
  /\ EndOfMod(TRUE) = 2 * Quarter /\ EndOfMod(FALSE) = 4 * Quarter /\ Offset[13] = 4 * Quarter
  /\ 2 * Quarter \in Nat \ {0} /\ 4 * Quarter \in Nat \ {0}
<1>1. Quarter \in Nat \ {0} /\ PulseWindow \in Nat
  BY Widths
<1>2. /\ Offset[7] = QuarterOf(7) * Quarter + WindowOf(7) * PulseWindow
      /\ Offset[13] = QuarterOf(13) * Quarter + WindowOf(13) * PulseWindow
  BY OnGrid
<1>3. QuarterOf(7) = 2 /\ WindowOf(7) = 0 /\ QuarterOf(13) = 4 /\ WindowOf(13) = 0
  BY DEF QuarterOf, WindowOf
<1> QED BY <1>1, <1>2, <1>3 DEF EndOfMod, B0, End

\* With state s for the sync of window r1 of quarter q1, in 60Hz mode if b, that of
\* window r of quarter q is put in a state that has its acode.
FitsAt(q, r, q1, r1, s, b) ==
  \E k \in Syncs, m \in Int :
    /\ q - q1 + QuarterOf(s) = QuarterOf(k) + m * (IF b THEN 2 ELSE 4)
    /\ r - r1 + WindowOf(s) = WindowOf(k)
    /\ Acode[k] = CodeAt(q, r)
    /\ b => WindowOf(k) = 1 /\ QuarterOf(k) < 2

\* A sync that fits, by a guess s for the state of the last sync, is where it is
\* taken to be: on the same place of the grid, with the acode of that place.
LEMMA InlierRight ==
  ASSUME NEW o, boot[o] \in Int, NEW s \in Syncs, NEW b \in BOOLEAN,
         NEW t \in Nat, NEW z \in Nat, NEW le \in Light, NEW last \in Light,
         le.timestamp = Stamp(o, t), last.timestamp = Stamp(o, z),
         Earlier(boot[o], t, z),
         NEW q, NEW r, SyncAt(t, le.length, q, r),
         NEW q1, NEW r1, NEW length, SyncAt(z, length, q1, r1),
         Inlier(le, ModFor(last, s), b)
  PROVE  FitsAt(q, r, q1, r1, s, b)
<1> DEFINE off == Offset[s]
           n == IF b THEN 2 ELSE 4
           g == EndOfMod(b)
           c == t - (z - off)
           y == ApplyModOffset(le.timestamp, ModFor(last, s), g)
           f == FindByOffset(y)
           H == Quarter
           P == PulseWindow
           k == f.state
<1>1. /\ H \in Nat \ {0} /\ P \in Nat \ {0} /\ H >= 3 * P /\ Ticks(500) \in Nat
  BY Widths
<1>2. g = n * H /\ g \in Nat \ {0} /\ g <= Offset[13] /\ Offset[13] = 4 * H /\ n \in {2, 4}
  <2>1. CASE b = TRUE
    <3>1. g = EndOfMod(TRUE) /\ n = 2
      BY <2>1
    <3>2. n * H = 2 * H /\ n \in {2, 4}
      BY <3>1
    <3>3. g = 2 * H /\ Offset[13] = 4 * H
      BY <3>1, Groups
    <3> HIDE DEF g, n, H
    <3>4. 2 * H \in Nat \ {0} /\ 2 * H <= 4 * H
      BY <1>1
    <3> QED BY <3>2, <3>3, <3>4
  <2>2. CASE b = FALSE
    <3>1. g = EndOfMod(FALSE) /\ n = 4
      BY <2>2
    <3>2. n * H = 4 * H /\ n \in {2, 4}
      BY <3>1
    <3>3. g = 4 * H /\ Offset[13] = 4 * H
      BY <3>1, Groups
    <3> HIDE DEF g, n, H
    <3>4. 4 * H \in Nat \ {0} /\ 4 * H <= 4 * H
      BY <1>1
    <3> QED BY <3>2, <3>3, <3>4
  <2> QED BY <2>1, <2>2
<1>3. /\ off = QuarterOf(s) * H + WindowOf(s) * P /\ QuarterOf(s) \in 0 .. 3 /\ WindowOf(s) \in {0, 1}
      /\ off \in Nat /\ off < Offset[13] /\ 2 * off < Clock
  <2>1. s \in 1 .. 13 /\ s < 13 /\ QuarterOf(s) \in 0 .. 3 /\ WindowOf(s) \in {0, 1}
    BY TableRight
  <2>2. Offset[s] < Offset[13]
    BY <2>1, OffsetsRise
  <2>3. Offset[s] \in Nat /\ Offset[13] \in Nat /\ Clock \in Nat
    BY <2>1, OffsetTable, Constants
  <2>4. 2 * Offset[13] < Clock
    BY ClockAssumption DEF End
  <2>5. Offset[s] = QuarterOf(s) * Quarter + WindowOf(s) * PulseWindow
    BY <2>1, OnGrid
  <2>6. 2 * Offset[s] < Clock
    BY <2>2, <2>3, <2>4
  <2> QED BY <2>1, <2>2, <2>3, <2>5, <2>6
<1>4. y = c % g \/ (c > 0 /\ c <= off /\ y = (c - 1) % g)
  <2>1. le.timestamp = (t + boot[o]) % Clock /\ last.timestamp = (z + boot[o]) % Clock
    BY DEF Stamp
  <2>2. ModFor(last, s) = (((z + boot[o]) % Clock) - off) % Clock
    BY <2>1 DEF ModFor
  <2>3. y = SeenBefore(boot[o], t, z, off, g)
    BY <2>1, <2>2 DEF SeenBefore
  <2>4. off \in Nat /\ 2 * off < Clock /\ g \in Nat \ {0} /\ t \in Int /\ z \in Int
    BY <1>2, <1>3
  <2>5. SeenRight(boot[o], t, z, off, g)
    <3> HIDE DEF off, g
    <3> QED BY <2>4, SeenBack
  <2> HIDE DEF off, g, y
  <2> QED BY <2>3, <2>5 DEF SeenRight
<1>5. /\ q \in Nat /\ r \in {0, 1} /\ t = q * H + r * P
      /\ q1 \in Nat /\ r1 \in {0, 1} /\ z = q1 * H + r1 * P
  BY DEF SyncAt
<1> HIDE DEF H, P
<1> DEFINE u == q - q1 + QuarterOf(s)
           v == r - r1 + WindowOf(s)
<1>6. c = u * H + v * P /\ u \in Int /\ v \in -1 .. 2
  <2> DEFINE qs == QuarterOf(s)
             rs == WindowOf(s)
  <2>1. qs \in Int /\ rs \in {0, 1} /\ off = qs * H + rs * P
    BY <1>3
  <2> HIDE DEF qs, rs, off
  <2>2. (q - q1 + qs) * H = q * H - q1 * H + qs * H
    BY <2>1, <1>1, <1>5
  <2>3. (r - r1 + rs) * P = r * P - r1 * P + rs * P
    BY <2>1, <1>1, <1>5
  <2>4. q * H \in Int /\ q1 * H \in Int /\ qs * H \in Int /\ r * P \in Int /\ r1 * P \in Int /\ rs * P \in Int
    BY <2>1, <1>1, <1>5
  <2>5. c = (q - q1 + qs) * H + (r - r1 + rs) * P
    BY <2>1, <2>2, <2>3, <2>4, <1>5
  <2>6. q - q1 + qs \in Int /\ r - r1 + rs \in -1 .. 2
    BY <2>1, <1>5
  <2> QED BY <2>5, <2>6 DEF qs, rs
<1>7. /\ ~IsSweep(k) /\ (b => Lh[k] = 0) /\ CalculateError(Acode[k], le.length) < Ticks(500)
      /\ f.error < Ticks(500)
  BY DEF Inlier
<1> HIDE DEF c, g, off
<1>8. c \in Int /\ c - 1 \in Int
  BY <1>1, <1>6
<1>9. y \in Nat /\ y < g /\ y < Offset[13]
  <2>1. g \in Nat \ {0} /\ g <= Offset[13] /\ Offset[13] \in Nat
    BY <1>2, OffsetTable
  <2>2. \A a \in Int : a % g \in 0 .. g - 1
    BY <2>1
  <2>3. y \in 0 .. g - 1
    BY <2>2, <1>4, <1>8
  <2> HIDE DEF y
  <2> QED BY <2>1, <2>3
<1> HIDE DEF y
<1>10. /\ k \in 1 .. 13 /\ f.error \in Nat
       /\ f.error = y - Offset[k] \/ f.error = Offset[k] - y
  BY <1>9, FoundAt
<1> HIDE DEF f, k
<1>11. /\ Offset[k] = QuarterOf(k) * H + WindowOf(k) * P /\ QuarterOf(k) \in 0 .. 4 /\ WindowOf(k) \in 0 .. 1
       /\ Offset[k] \in Nat /\ (k = 13 <=> QuarterOf(k) = 4)
  <2>1. Offset[k] = QuarterOf(k) * Quarter + WindowOf(k) * PulseWindow
    BY <1>10, OnGrid
  <2>2. QuarterOf(k) \in 0 .. 4 /\ WindowOf(k) \in 0 .. 2 /\ WindowOf(k) # 2 /\ Offset[k] \in Nat
        /\ (k = 13 <=> QuarterOf(k) = 4)
    BY <1>7, <1>10, OnGrid
  <2> QED BY <2>1, <2>2 DEF H, P
<1>12. PICK e \in {0, 1}, m \in Int : c = m * g + y + e /\ (e = 1 => c > 0 /\ c <= off)
  <2>1. PICK e \in {0, 1} : y = (c - e) % g /\ (e = 1 => c > 0 /\ c <= off)
    <3>1. c - 0 = c
      BY <1>8
    <3> QED BY <1>4, <3>1
  <2> DEFINE d == c - e
             m == d \div g
  <2>2. d \in Int /\ c = d + e
    BY <1>8
  <2>3. m \in Int /\ d = m * g + (d % g)
    <3> HIDE DEF d
    <3> QED BY <1>2, <2>2, Divided, ZenonT(60)
  <2>4. c = m * g + y + e
    <3>1. m * g \in Int
      BY <1>2, <2>3
    <3> HIDE DEF m
    <3> QED BY <2>1, <2>2, <2>3, <3>1, <1>9
  <2> HIDE DEF m
  <2> QED BY <2>1, <2>3, <2>4
<1> DEFINE w == u - QuarterOf(k) - m * n
           x == v - WindowOf(k)
           a == e + (y - Offset[k])
<1>13. w * H + x * P = a
  <2>1. m * g = (m * n) * H
    BY <1>1, <1>2
  <2> DEFINE mn == m * n
  <2>2. mn \in Int
    BY <1>2
  <2> HIDE DEF mn, u, v
  <2>3. (u - QuarterOf(k) - mn) * H = u * H - QuarterOf(k) * H - mn * H
    BY <1>1, <1>6, <1>11, <2>2
  <2>4. (v - WindowOf(k)) * P = v * P - WindowOf(k) * P
    BY <1>1, <1>6, <1>11
  <2>5. c = mn * H + y + e
    BY <1>12, <2>1 DEF mn
  <2> DEFINE uH == u * H
             vP == v * P
             mH == mn * H
             kH == QuarterOf(k) * H
             kP == WindowOf(k) * P
  <2>6. uH \in Int /\ vP \in Int /\ mH \in Int /\ kH \in Int /\ kP \in Int
    BY <1>1, <1>6, <1>11, <2>2
  <2>7. (u - QuarterOf(k) - mn) * H = uH - kH - mH /\ (v - WindowOf(k)) * P = vP - kP
        /\ c = mH + y + e /\ c = uH + vP /\ Offset[k] = kH + kP
    BY <2>3, <2>4, <2>5, <1>6, <1>11
  <2> HIDE DEF uH, vP, mH, kH, kP
  <2>8. (uH - kH - mH) + (vP - kP) = e + (y - Offset[k])
    BY <2>6, <2>7, <1>9, <1>12
  <2> QED BY <2>7, <2>8 DEF mn
<1>14. a \in Int /\ a <= Ticks(500) /\ a >= -Ticks(500)
  BY <1>1, <1>7, <1>9, <1>10, <1>11, <1>12
<1>15. w \in Int /\ x \in -2 .. 2
  <2>1. m * n \in Int
    BY <1>2
  <2> QED BY <2>1, <1>6, <1>11
<1> HIDE DEF a
<1>16. w = 0 /\ x = 0
  <2> HIDE DEF w, x
  <2> QED BY <1>13, <1>14, <1>15, GridApart DEF H, P
<1>17. y + e = Offset[k]
  <2>1. w * H + x * P = 0
    <3> HIDE DEF w, x
    <3> QED BY <1>16, <1>1
  <2> QED BY <2>1, <1>13, <1>9, <1>11, <1>12 DEF a
<1>18. k # 13
  <2> SUFFICES ASSUME k = 13 PROVE FALSE
    OBVIOUS
  <2>1. e = 1 /\ c > 0 /\ c <= off
    BY <1>2, <1>9, <1>12, <1>17
  <2>2. ~b
    BY <1>7 DEF Lh
  <2>3. g = Offset[13]
    <3>1. b = FALSE
      BY <2>2
    <3> QED BY <3>1, Groups DEF g
  <2>4. c = (m + 1) * g
    <3>1. g \in Int /\ c = m * g + g
      BY <2>1, <2>3, <1>2, <1>12, <1>17, <1>9
    <3> QED BY <3>1
  <2>5. (m + 1 <= 0 => (m + 1) * g <= 0) /\ (m + 1 >= 1 => (m + 1) * g >= g)
    BY <1>2
  <2> QED BY <2>1, <2>3, <2>4, <2>5, <1>2, <1>3, <1>8
<1>19. k \in Syncs
  BY <1>7, <1>10, <1>18 DEF Syncs, IsSweep
<1>20. Acode[k] = CodeAt(q, r)
  <2>1. CodeAt(q, r) \in {0, 1, 4, 5}
    BY <1>5, CodeIs
  <2>2. Acode[k] \in {0, 1, 4, 5}
    BY <1>19, TableRight
  <2>3. le.length \in {AcodeTiming(CodeAt(q, r)), AcodeTiming(CodeAt(q, r) + 2)}
    BY DEF SyncAt
  <2> QED BY <2>1, <2>2, <2>3, <1>7, CodeApart
<1>21. b => WindowOf(k) = 1 /\ QuarterOf(k) < 2
  <2> SUFFICES ASSUME b PROVE WindowOf(k) = 1 /\ QuarterOf(k) < 2
    OBVIOUS
  <2>1. Lh[k] = 1 - WindowOf(k) /\ Lh[k] = 0
    BY <1>7, <1>19, TableRight
  <2>2. WindowOf(k) = 1
    BY <2>1, <1>11
  <2>3. QuarterOf(k) * H + P <= 2 * H
    BY <2>2, <1>1, <1>2, <1>9, <1>11, <1>12, <1>17
  <2>4. QuarterOf(k) \in {0, 1, 2, 3, 4}
    BY <1>11
  <2>5. QuarterOf(k) # 2 /\ QuarterOf(k) # 3 /\ QuarterOf(k) # 4
    BY <2>3, <1>1
  <2> QED BY <2>2, <2>4, <2>5
<1>22. u = QuarterOf(k) + m * n /\ v = WindowOf(k)
  <2>1. m * n \in Int
    BY <1>2
  <2> HIDE DEF u, v
  <2> QED BY <2>1, <1>6, <1>11, <1>16
<1> QED BY <1>19, <1>20, <1>21, <1>22 DEF FitsAt

\* A time on the grid, modulo n quarters.
LEMMA ModGrid ==
  ASSUME NEW q \in Nat, NEW r \in {0, 1}, NEW n \in {2, 4}
  PROVE  (q * Quarter + r * PulseWindow) % (n * Quarter) = (q % n) * Quarter + r * PulseWindow
<1> DEFINE H == Quarter
           P == PulseWindow
           g == n * H
           a == q % n
           p == q \div n
           x == a * H + r * P
<1>1. H \in Nat \ {0} /\ P \in Nat /\ H >= 3 * P
  BY Widths
<1>2. p \in Int /\ a \in 0 .. n - 1 /\ q = p * n + a
  BY Divided
<1> HIDE DEF H, P, a, p
<1>3. p * n \in Int /\ q * H = (p * n) * H + a * H /\ (p * n) * H = p * g
  BY <1>1, <1>2
<1>4. q * H + r * P = x + p * g
  <2>1. q * H \in Int /\ a * H \in Int /\ p * g \in Int /\ r * P \in Int
    BY <1>1, <1>2
  <2> QED BY <2>1, <1>3
<1>5. x \in Nat /\ x < g /\ g \in Nat \ {0} /\ x \in Int
  <2>1. r = 0 \/ r = 1
    OBVIOUS
  <2>2. CASE n = 2
    <3>1. a = 0 \/ a = 1
      BY <2>2, <1>2
    <3> QED BY <3>1, <2>1, <2>2, <1>1
  <2>3. CASE n = 4
    <3>1. a = 0 \/ a = 1 \/ a = 2 \/ a = 3
      BY <2>3, <1>2
    <3> QED BY <3>1, <2>1, <2>3, <1>1
  <2> QED BY <2>2, <2>3
<1> HIDE DEF x, g
<1>6. (x + p * g) % g = x % g
  BY <1>2, <1>5, ModShift
<1>7. x % g = x
  BY <1>5
<1> QED BY <1>4, <1>6, <1>7 DEF x, g, H, P, a

\* The slot of a time is the one window it is in.
LEMMA SlotIs ==
  ASSUME NEW k \in 1 .. 12, NEW t, NEW x \in Int, t % Group = x, Offset[k] <= x, x < Offset[k + 1]
  PROVE  SlotAt(t) = k
<1> DEFINE Fits(j) == Offset[j] <= x /\ x < Offset[j + 1]
           i == CHOOSE j \in 1 .. 12 : Fits(j)
<1>1. SlotAt(t) = i
  BY DEF SlotAt
<1>2. i \in 1 .. 12 /\ Fits(i)
  BY Fits(k)
<1> HIDE DEF i
<1>3. /\ k + 1 \in 1 .. 13 /\ i + 1 \in 1 .. 13 /\ k \in 1 .. 13 /\ i \in 1 .. 13
  BY <1>2
<1>4. \A j \in 1 .. 13 : Offset[j] \in Int
  BY OffsetTable
<1>5. CASE i < k
  <2>1. i + 1 = k \/ i + 1 < k
    BY <1>2, <1>5
  <2>2. Offset[i + 1] <= Offset[k]
    BY <2>1, <1>3, <1>4, OffsetsRise
  <2> QED BY <2>2, <1>2, <1>3, <1>4
<1>6. CASE k < i
  <2>1. k + 1 = i \/ k + 1 < i
    BY <1>2, <1>6
  <2>2. Offset[k + 1] <= Offset[i]
    BY <2>1, <1>3, <1>4, OffsetsRise
  <2> QED BY <2>2, <1>2, <1>3, <1>4
<1> QED BY <1>1, <1>2, <1>5, <1>6

LEMMA GroupIs ==
  ASSUME world60 \in BOOLEAN
  PROVE  Group = (IF world60 THEN 2 ELSE 4) * Quarter
<1>1. world60 = TRUE \/ world60 = FALSE
  OBVIOUS
<1> QED BY <1>1, Groups DEF Group

\* Whose a sync is, and in which half of the cycle.
LEMMA SlotOf ==
  ASSUME world60 \in BOOLEAN, NEW q \in Nat, NEW r \in {0, 1}, world60 => r = 1,
         NEW t, t = q * Quarter + r * PulseWindow
  PROVE  /\ Lh[SlotAt(t)] = 1 - r
         /\ ((t % Offset[End] >= Offset[B0]) <=> (q \div 2) % 2 = 1)
<1> DEFINE n == IF world60 THEN 2 ELSE 4
           H == Quarter
           P == PulseWindow
           a == q % n
           k == 3 * a + r + 1
           c == q % 4
<1>1. H \in Nat \ {0} /\ P \in Nat \ {0} /\ H >= 3 * P
  BY Widths
<1>2. n \in {2, 4} /\ a \in 0 .. 3 /\ c \in 0 .. 3
  OBVIOUS
<1>3. t % Group = a * H + r * P
  BY <1>2, GroupIs, ModGrid
<1>4. t % Offset[End] = c * H + r * P
  BY ModGrid, Groups DEF End
<1> HIDE DEF n, a
<1>5. k \in 1 .. 12 /\ k \in 1 .. 13 /\ k + 1 \in 1 .. 13 /\ k \in Syncs
      /\ QuarterOf(k) = a /\ WindowOf(k) = r
      /\ QuarterOf(k + 1) = a /\ WindowOf(k + 1) = r + 1
  BY <1>2 DEF QuarterOf, WindowOf, Syncs
<1>6. Offset[k] = a * H + r * P /\ Offset[k + 1] = a * H + (r + 1) * P
  BY <1>5, OnGrid
<1>7. SlotAt(t) = k
  <2> DEFINE x == a * H + r * P
  <2>1. x \in Int /\ x < a * H + (r + 1) * P
    BY <1>1, <1>2
  <2>2. Offset[k] <= x /\ x < Offset[k + 1]
    BY <2>1, <1>6
  <2> HIDE DEF x, k
  <2>3. t % Group = x
    BY <1>3 DEF x
  <2> QED BY <2>1, <2>2, <2>3, <1>5, SlotIs
<1>8. Lh[SlotAt(t)] = 1 - r
  BY <1>5, <1>7, TableRight
<1>9. Offset[B0] = 2 * H
  BY Groups DEF EndOfMod
<1>10. (c * H + r * P >= 2 * H) <=> (c >= 2)
  <2>1. c = 0 \/ c = 1 \/ c = 2 \/ c = 3
    OBVIOUS
  <2>2. r = 0 \/ r = 1
    OBVIOUS
  <2> HIDE DEF c, H, P
  <2> QED BY <2>1, <2>2, <1>1
<1>11. (c >= 2) <=> ((q \div 2) % 2 = 1)
  OBVIOUS
<1> QED BY <1>4, <1>8, <1>9, <1>10, <1>11

\* The axis and the lighthouse that skips, by the acode, are those of the state.
FitsSo(q, r, q1, r1, s, b) ==
  \E c \in 0 .. 3, e \in {0, 1}, m \in Int :
    /\ q - q1 + QuarterOf(s) = c + m * (IF b THEN 2 ELSE 4)
    /\ r - r1 + WindowOf(s) = e
    /\ c % 2 = q % 2
    /\ (c \div 2 = e <=> (~world60 /\ (q \div 2) % 2 = r))
    /\ b => e = 1 /\ c < 2

\* An inlier is put in a window of a sync, whose acode it has.
LEMMA FitsHow ==
  ASSUME world60 \in BOOLEAN, NEW q \in Nat, NEW r \in {0, 1}, NEW q1 \in Nat, NEW r1 \in {0, 1},
         NEW s \in Syncs, NEW b \in BOOLEAN, FitsAt(q, r, q1, r1, s, b)
  PROVE  FitsSo(q, r, q1, r1, s, b)
<1>1. PICK k \in Syncs, m \in Int :
        /\ q - q1 + QuarterOf(s) = QuarterOf(k) + m * (IF b THEN 2 ELSE 4)
        /\ r - r1 + WindowOf(s) = WindowOf(k)
        /\ Acode[k] = CodeAt(q, r)
        /\ b => WindowOf(k) = 1 /\ QuarterOf(k) < 2
  BY DEF FitsAt
<1> DEFINE c == QuarterOf(k)
           e == WindowOf(k)
<1>2. c \in 0 .. 3 /\ e \in {0, 1} /\ Acode[k] = (c % 2) + (IF c \div 2 = e THEN 4 ELSE 0)
  BY TableRight
<1>3. (c % 2) + (IF c \div 2 = e THEN 4 ELSE 0)
        = (q % 2) + (IF ~world60 /\ (q \div 2) % 2 = r THEN 4 ELSE 0)
  BY <1>1, <1>2 DEF CodeAt
<1> HIDE DEF c, e
<1>4. c % 2 \in {0, 1} /\ q % 2 \in {0, 1}
  BY <1>2
<1>5. c % 2 = q % 2 /\ (c \div 2 = e <=> (~world60 /\ (q \div 2) % 2 = r))
  BY <1>3, <1>4
<1> QED BY <1>1, <1>2, <1>5 DEF c, e, FitsSo

\* How far an object may be off: of two lighthouses one alone is taken for the other.
Shift(a) ==
  \/ a = 0
  \/ ~world60 /\ sight = {0} /\ a = 2 * Quarter - PulseWindow
  \/ ~world60 /\ sight = {1} /\ a = 2 * Quarter + PulseWindow

Has(S, q, r) == <<q, r>> \in S

\* By the windows S of the syncs, each <<its quarter, which in it>>, they are both
\* lighthouses', or of both halves of the cycle and of those in sight.
TellingCells(S) ==
  \/ \E q \in Nat, p \in Nat : Has(S, q, 0) /\ Has(S, p, 1)
  \/ /\ \E q \in Nat, p \in Nat, r \in {0, 1}, e \in {0, 1} :
          Has(S, q, r) /\ Has(S, p, e) /\ (q \div 2) % 2 = 1 /\ (p \div 2) % 2 = 0
     /\ world60 \/ \A l \in {0, 1} : l \in sight <=> \E q \in Nat : Has(S, q, 1 - l)

\* A guess by which syncs that tell where the cycle is are put where their acodes are
\* is right, but that one lighthouse alone may be taken for the other.
LEMMA GuessOfCells ==
  ASSUME world60 \in BOOLEAN, sight \subseteq {0, 1},
         NEW S \in SUBSET (Nat \X {0, 1}), TellingCells(S),
         \A q \in Nat, r \in {0, 1} : Has(S, q, r) => (world60 => r = 1),
         NEW q1 \in Nat, NEW r1 \in {0, 1}, Has(S, q1, r1),
         NEW s \in Syncs, NEW b \in BOOLEAN, b => s < B0,
         \A q \in Nat, r \in {0, 1} : Has(S, q, r) => FitsAt(q, r, q1, r1, s, b)
  PROVE  /\ b = world60
         /\ \E a \in Int : Shift(a) /\ (q1 * Quarter + r1 * PulseWindow - Offset[s] + a) % Group = 0
<1> DEFINE H == Quarter
           P == PulseWindow
           x == QuarterOf(s)
           y == WindowOf(s)
           n == IF b THEN 2 ELSE 4
<1>1. /\ x \in 0 .. 3 /\ y \in {0, 1} /\ Offset[s] = x * H + y * P /\ (b => x < 2)
  BY TableRight, OnGrid
<1>2. H \in Nat \ {0} /\ P \in Nat
  BY Widths
<1> DEFINE Fits(q, r, c, e, m) ==
             /\ q - q1 + x = c + m * n /\ r - r1 + y = e /\ c % 2 = q % 2
             /\ (c \div 2 = e <=> (~world60 /\ (q \div 2) % 2 = r))
             /\ b => e = 1 /\ c < 2
<1>3. \A q \in Nat, r \in {0, 1} : Has(S, q, r) =>
        (world60 => r = 1) /\ \E c \in 0 .. 3, e \in {0, 1}, m \in Int : Fits(q, r, c, e, m)
  <2> SUFFICES ASSUME NEW q \in Nat, NEW r \in {0, 1}, Has(S, q, r)
               PROVE  \E c \in 0 .. 3, e \in {0, 1}, m \in Int : Fits(q, r, c, e, m)
    OBVIOUS
  <2>1. FitsAt(q, r, q1, r1, s, b)
    OBVIOUS
  <2>2. FitsSo(q, r, q1, r1, s, b)
    BY <2>1, FitsHow
  <2> QED BY <2>2 DEF FitsSo
<1> HIDE DEF x, y, H, P
\* The last sync itself is put where the guess says.
<1>4. /\ x % 2 = q1 % 2 /\ (x \div 2 = y <=> (~world60 /\ (q1 \div 2) % 2 = r1))
      /\ b => y = 1
  <2>1. PICK c \in 0 .. 3, e \in {0, 1}, m \in Int : Fits(q1, r1, c, e, m)
    BY <1>3
  <2>2. x = c + m * n /\ y = e
    BY <2>1, <1>1
  <2>3. x = c
    <3>1. CASE b = TRUE
      <4>1. x = c + m * 2 /\ x < 2 /\ c < 2
        BY <2>1, <2>2, <3>1, <1>1
      <4> QED BY <4>1, <1>1
    <3>2. CASE b = FALSE
      <4>1. x = c + m * 4
        BY <2>2, <3>2
      <4> QED BY <4>1, <1>1
    <3> QED BY <3>1, <3>2
  <2> QED BY <2>1, <2>2, <2>3
<1>5. CASE world60 /\ b
  <2>1. r1 = 1 /\ y = 1 /\ x % 2 = q1 % 2
    BY <1>3, <1>4, <1>5
  <2>2. PICK m \in Int : q1 - x = m * 2
    <3>1. q1 - x = ((q1 - x) \div 2) * 2 /\ (q1 - x) \div 2 \in Int
      BY <2>1, <1>1
    <3> QED BY <3>1
  <2>3. q1 * H + r1 * P - (x * H + y * P) + 0 = m * (2 * H)
    <3>1. (q1 - x) * H = q1 * H - x * H /\ (q1 - x) * H = m * (2 * H)
      BY <2>2, <1>1, <1>2
    <3>2. q1 * H \in Int /\ x * H \in Int /\ r1 * P = P /\ y * P = P
      BY <2>1, <1>1, <1>2
    <3> QED BY <3>1, <3>2, <1>2
  <2>4. (m * (2 * H)) % (2 * H) = 0
    <3> DEFINE g == 2 * H
    <3>1. g \in Nat \ {0}
      BY <1>2
    <3> HIDE DEF g
    <3>2. (0 + m * g) % g = 0 % g /\ 0 % g = 0 /\ 0 + m * g = m * g
      <4>1. 0 \in Int
        OBVIOUS
      <4>2. (0 + m * g) % g = 0 % g
        BY <3>1, <4>1, ModShift
      <4> QED BY <4>2, <3>1
    <3> QED BY <3>2 DEF g
  <2>5. Group = 2 * H
    BY <1>5, GroupIs DEF H
  <2>6. (q1 * H + r1 * P - Offset[s] + 0) % Group = 0
    BY <1>1, <2>3, <2>4, <2>5
  <2>7. Shift(0)
    BY DEF Shift
  <2>8. \E a \in Int : Shift(a) /\ (q1 * H + r1 * P - Offset[s] + a) % Group = 0
    BY <2>6, <2>7
  <2> QED BY <2>8, <1>5 DEF H, P
\* In one mode alone are both halves of the cycle not put in the same half.
<1>6. CASE world60 /\ ~b
  <2>1. r1 = 1 /\ \A q \in Nat : ~Has(S, q, 0)
    BY <1>3, <1>6
  <2>2. PICK q \in Nat, p \in Nat, r \in {0, 1}, e \in {0, 1} :
          Has(S, q, r) /\ Has(S, p, e) /\ (q \div 2) % 2 = 1 /\ (p \div 2) % 2 = 0
    BY <2>1 DEF TellingCells
  <2>3. n = 4
    BY <1>6
  <2>4. ASSUME NEW j \in Nat, NEW i \in {0, 1}, Has(S, j, i)
        PROVE  \E c \in 0 .. 3, m \in Int :
                 j - q1 + x = c + m * 4 /\ c % 2 = j % 2 /\ c \div 2 # y
    <3>1. PICK c \in 0 .. 3, d \in {0, 1}, m \in Int : Fits(j, i, c, d, m)
      BY <2>4, <1>3
    <3>2. i = 1 /\ d = y
      BY <2>1, <2>4, <3>1, <1>1, <1>3, <1>6
    <3> QED BY <2>3, <3>1, <3>2, <1>6
  <2>5. PICK c \in 0 .. 3, m \in Int : q - q1 + x = c + m * 4 /\ c % 2 = q % 2 /\ c \div 2 # y
    BY <2>2, <2>4
  <2>6. PICK d \in 0 .. 3, i \in Int : p - q1 + x = d + i * 4 /\ d % 2 = p % 2 /\ d \div 2 # y
    BY <2>2, <2>4
  <2>7. c \div 2 = d \div 2
    BY <2>5, <2>6, <1>1
  <2> QED BY <2>2, <2>5, <2>6, <2>7, <1>1, <1>4
<1>7. CASE ~world60 /\ b
  <2>1. n = 2 /\ y = 1
    BY <1>4, <1>7
  <2>2. ASSUME NEW q \in Nat, NEW r \in {0, 1}, Has(S, q, r)
        PROVE  r = r1 /\ (q \div 2) % 2 = 1 - r1
    <3>1. PICK c \in 0 .. 3, e \in {0, 1}, m \in Int : Fits(q, r, c, e, m)
      BY <2>2, <1>3
    <3>2. e = 1 /\ c \div 2 = 0 /\ r = r1
      BY <2>1, <3>1, <1>7
    <3> QED BY <3>1, <3>2, <1>7
  <2>3. ASSUME NEW q \in Nat, NEW p \in Nat, NEW i \in {0, 1}, NEW j \in {0, 1},
               Has(S, q, i), Has(S, p, j)
        PROVE  i = j
    BY <2>2, <2>3
  <2> QED BY <2>2, <2>3 DEF TellingCells
<1>8. CASE ~world60 /\ ~b
  <2>1. Group = 4 * H /\ n = 4
    BY <1>8, GroupIs DEF H
  <2>2. ASSUME NEW k \in Int, k % 4 = 0 PROVE (k * H) % Group = 0
    <3> DEFINE g == 4 * H
               m == k \div 4
    <3>1. g \in Nat \ {0}
      BY <1>2
    <3>2. m \in Int /\ k = m * 4
      BY <2>2
    <3>3. k * H = m * g
      <4> HIDE DEF m
      <4> QED BY <3>2, <1>2
    <3> HIDE DEF g, m
    <3>4. (0 + m * g) % g = 0
      <4>1. 0 \in Int
        OBVIOUS
      <4>2. (0 + m * g) % g = 0 % g
        BY <3>1, <3>2, <4>1, ModShift
      <4> QED BY <4>2, <3>1
    <3>5. 0 + m * g = m * g
      BY <3>1, <3>2
    <3> QED BY <2>1, <3>3, <3>4, <3>5 DEF g
  <2>3. ASSUME NEW r \in {0, 1}, NEW q \in Nat, Has(S, q, r)
        PROVE  r - r1 + y \in {0, 1}
    <3>1. PICK c \in 0 .. 3, e \in {0, 1}, m \in Int : Fits(q, r, c, e, m)
      BY <2>3, <1>3
    <3> QED BY <3>1
  <2>4. q1 * H \in Int /\ x * H \in Int
    BY <1>1, <1>2
  <2>5. CASE r1 = y
    <3>1. (q1 - x) % 4 = 0
      BY <2>5, <1>1, <1>4, <1>8
    <3>2. q1 - x \in Int
      BY <1>1
    <3>3. ((q1 - x) * H) % Group = 0
      BY <2>2, <3>1, <3>2
    <3>4. q1 * H + r1 * P - (x * H + y * P) + 0 = (q1 - x) * H
      <4>1. (q1 - x) * H = q1 * H - x * H
        BY <1>1, <1>2
      <4>2. r1 * P \in Int
        BY <1>2
      <4> QED BY <2>4, <2>5, <4>1, <4>2
    <3>5. (q1 * H + r1 * P - Offset[s] + 0) % Group = 0
      BY <3>3, <3>4, <1>1
    <3>6. \E a \in Int : Shift(a) /\ (q1 * H + r1 * P - Offset[s] + a) % Group = 0
      BY <3>5 DEF Shift
    <3> QED BY <3>6, <1>8 DEF H, P
  <2>6. CASE r1 = 0 /\ y = 1
    <3>1. \A p \in Nat, i \in {0, 1} : Has(S, p, i) => i # 1
      BY <2>3, <2>6
    <3>2. sight = {1}
      <4>1. 1 \in sight /\ 0 \notin sight
        <5>1. Has(S, q1, 0) /\ \A p \in Nat : ~Has(S, p, 1)
          BY <3>1, <2>6
        <5> QED BY <5>1, <1>8 DEF TellingCells
      <4> QED BY <4>1
    <3>3. (q1 - x + 2) % 4 = 0 /\ q1 - x + 2 \in Int
      BY <2>6, <1>1, <1>4, <1>8
    <3>4. ((q1 - x + 2) * H) % Group = 0
      BY <2>2, <3>3
    <3>5. q1 * H + r1 * P - (x * H + y * P) + (2 * H + P) = (q1 - x + 2) * H
      <4>1. (q1 - x + 2) * H = q1 * H - x * H + 2 * H
        BY <1>1, <1>2
      <4>2. r1 * P = 0 /\ y * P = P
        BY <2>6, <1>2
      <4> QED BY <2>4, <4>1, <4>2, <1>2
    <3>6. (q1 * H + r1 * P - Offset[s] + (2 * H + P)) % Group = 0 /\ 2 * H + P \in Int
      BY <3>4, <3>5, <1>1, <1>2
    <3>7. Shift(2 * H + P)
      BY <3>2, <1>8 DEF Shift, H, P
    <3>8. \E a \in Int : Shift(a) /\ (q1 * H + r1 * P - Offset[s] + a) % Group = 0
      BY <3>6, <3>7
    <3> QED BY <3>8, <1>8 DEF H, P
  <2>7. CASE r1 = 1 /\ y = 0
    <3>1. \A p \in Nat, i \in {0, 1} : Has(S, p, i) => i # 0
      BY <2>3, <2>7
    <3>2. sight = {0}
      <4>1. 0 \in sight /\ 1 \notin sight
        <5>1. Has(S, q1, 1) /\ \A p \in Nat : ~Has(S, p, 0)
          BY <3>1, <2>7
        <5> QED BY <5>1, <1>8 DEF TellingCells
      <4> QED BY <4>1
    <3>3. (q1 - x + 2) % 4 = 0 /\ q1 - x + 2 \in Int
      BY <2>7, <1>1, <1>4, <1>8
    <3>4. ((q1 - x + 2) * H) % Group = 0
      BY <2>2, <3>3
    <3>5. q1 * H + r1 * P - (x * H + y * P) + (2 * H - P) = (q1 - x + 2) * H
      <4>1. (q1 - x + 2) * H = q1 * H - x * H + 2 * H
        BY <1>1, <1>2
      <4>2. r1 * P = P /\ y * P = 0
        BY <2>7, <1>2
      <4> QED BY <2>4, <4>1, <4>2, <1>2
    <3>6. (q1 * H + r1 * P - Offset[s] + (2 * H - P)) % Group = 0 /\ 2 * H - P \in Int
      BY <3>4, <3>5, <1>1, <1>2
    <3>7. Shift(2 * H - P)
      BY <3>2, <1>8 DEF Shift, H, P
    <3>8. \E a \in Int : Shift(a) /\ (q1 * H + r1 * P - Offset[s] + a) % Group = 0
      BY <3>6, <3>7
    <3> QED BY <3>8, <1>8 DEF H, P
  <2> QED BY <2>5, <2>6, <2>7, <1>1
<1> QED BY <1>5, <1>6, <1>7, <1>8

\* The windows of the syncs in history that are before the last one as Telling asks.
Cells(o, history) ==
  {w \in Nat \X {0, 1} :
     \E i \in 1 .. HistoryLen :
       /\ history[i].of # None /\ Earlier(boot[o], history[i].of, history[HistoryLen].of)
       /\ SyncAt(history[i].of, history[i].length, w[1], w[2])}

\* What is in the windows of the syncs of a history.
LEMMA CellOf ==
  ASSUME NEW o, NEW h, NEW q \in Nat, NEW r \in {0, 1}
  PROVE  Has(Cells(o, h), q, r) <=>
           \E i \in 1 .. HistoryLen :
             /\ h[i].of # None /\ Earlier(boot[o], h[i].of, h[HistoryLen].of)
             /\ SyncAt(h[i].of, h[i].length, q, r)
BY DEF Has, Cells

\* Telling, by the windows.
LEMMA CellsTell ==
  ASSUME world60 \in BOOLEAN, NEW o, NEW h \in Seq(Light), Len(h) = HistoryLen,
         \A i \in 1 .. HistoryLen : Genuine(o, h[i]), Telling(o, h)
  PROVE  TellingCells(Cells(o, h))
<1> DEFINE last == h[HistoryLen].of
           Prior(t) == t <= last /\ Stamp(o, t) + (last - t) = Stamp(o, last) /\ 2 * (last - t) < Clock
           times == {le.of : le \in Range(h)} \ {None}
           tells(t) == t \in times /\ Prior(t)
           whose == {Lh[SlotAt(t)] : t \in {u \in times : Prior(u)}}
           second == {t % Offset[End] >= Offset[B0] : t \in {u \in times : Prior(u)}}
           S == Cells(o, h)
<1>1. whose = {0, 1} \/ ((world60 \/ whose = sight) /\ second = BOOLEAN)
  BY DEF Telling
<1>2. DOMAIN h = 1 .. HistoryLen
  OBVIOUS
<1>3. ASSUME NEW t, tells(t)
      PROVE  \E q \in Nat, r \in {0, 1} :
               /\ Has(S, q, r) /\ Lh[SlotAt(t)] = 1 - r
               /\ ((t % Offset[End] >= Offset[B0]) <=> (q \div 2) % 2 = 1)
  <2>1. PICK i \in 1 .. HistoryLen : h[i].of = t /\ t # None
    BY <1>2, <1>3 DEF Range
  <2>2. PICK q \in Nat, r \in {0, 1} : SyncAt(t, h[i].length, q, r)
    BY <2>1 DEF Genuine
  <2>3. Earlier(boot[o], t, last)
    BY <1>3 DEF Earlier, Stamp
  <2>4. Has(S, q, r)
    BY <2>1, <2>2, <2>3, CellOf
  <2>5. (world60 => r = 1) /\ t = q * Quarter + r * PulseWindow
    BY <2>2 DEF SyncAt
  <2>6. Lh[SlotAt(t)] = 1 - r /\ ((t % Offset[End] >= Offset[B0]) <=> (q \div 2) % 2 = 1)
    BY <2>5, SlotOf
  <2> QED BY <2>4, <2>6
<1>4. ASSUME NEW q \in Nat, NEW r \in {0, 1}, Has(S, q, r)
      PROVE  \E t : tells(t) /\ Lh[SlotAt(t)] = 1 - r
  <2>1. PICK i \in 1 .. HistoryLen :
          h[i].of # None /\ Earlier(boot[o], h[i].of, last) /\ SyncAt(h[i].of, h[i].length, q, r)
    BY <1>4, CellOf
  <2> DEFINE t == h[i].of
  <2>2. t \in times
    BY <2>1, <1>2 DEF Range
  <2>3. Prior(t)
    BY <2>1 DEF Earlier, Stamp
  <2>4. (world60 => r = 1) /\ t = q * Quarter + r * PulseWindow
    BY <2>1 DEF SyncAt
  <2>5. Lh[SlotAt(t)] = 1 - r
    BY <2>4, SlotOf
  <2> QED BY <2>2, <2>3, <2>5
<1>5. \A l : l \in whose <=> \E t : tells(t) /\ Lh[SlotAt(t)] = l
  OBVIOUS
<1>6. \A l : l \in second <=> \E t : tells(t) /\ (t % Offset[End] >= Offset[B0]) = l
  OBVIOUS
<1> HIDE DEF tells, whose, second, S
<1>7. CASE whose = {0, 1}
  <2>1. PICK t : tells(t) /\ Lh[SlotAt(t)] = 1
    BY <1>5, <1>7
  <2>2. PICK u : tells(u) /\ Lh[SlotAt(u)] = 0
    BY <1>5, <1>7
  <2>3. PICK q \in Nat, r \in {0, 1} : Has(S, q, r) /\ Lh[SlotAt(t)] = 1 - r
    BY <2>1, <1>3
  <2>4. PICK p \in Nat, e \in {0, 1} : Has(S, p, e) /\ Lh[SlotAt(u)] = 1 - e
    BY <2>2, <1>3
  <2>5. r = 0 /\ e = 1
    BY <2>1, <2>2, <2>3, <2>4
  <2> QED BY <2>3, <2>4, <2>5 DEF TellingCells, S
<1>8. CASE (world60 \/ whose = sight) /\ second = BOOLEAN
  <2>1. PICK t : tells(t) /\ (t % Offset[End] >= Offset[B0]) = TRUE
    BY <1>6, <1>8
  <2>2. PICK u : tells(u) /\ (u % Offset[End] >= Offset[B0]) = FALSE
    BY <1>6, <1>8
  <2>3. PICK q \in Nat, r \in {0, 1} : Has(S, q, r) /\ ((t % Offset[End] >= Offset[B0]) <=> (q \div 2) % 2 = 1)
    BY <2>1, <1>3
  <2>4. PICK p \in Nat, e \in {0, 1} : Has(S, p, e) /\ ((u % Offset[End] >= Offset[B0]) <=> (p \div 2) % 2 = 1)
    BY <2>2, <1>3
  <2>5. (q \div 2) % 2 = 1 /\ (p \div 2) % 2 = 0
    BY <2>1, <2>2, <2>3, <2>4
  <2>6. ASSUME whose = sight, NEW l \in {0, 1}
        PROVE  l \in sight <=> \E j \in Nat : Has(S, j, 1 - l)
    <3>1. ASSUME l \in sight PROVE \E j \in Nat : Has(S, j, 1 - l)
      <4>1. PICK v : tells(v) /\ Lh[SlotAt(v)] = l
        BY <1>5, <2>6, <3>1
      <4>2. PICK j \in Nat, i \in {0, 1} : Has(S, j, i) /\ Lh[SlotAt(v)] = 1 - i
        BY <4>1, <1>3
      <4>3. i = 1 - l
        BY <4>1, <4>2
      <4> QED BY <4>2, <4>3
    <3>2. ASSUME NEW j \in Nat, Has(S, j, 1 - l) PROVE l \in sight
      <4>1. 1 - l \in {0, 1} /\ 1 - (1 - l) = l
        OBVIOUS
      <4>2. PICK v : tells(v) /\ Lh[SlotAt(v)] = 1 - (1 - l)
        BY <3>2, <4>1, <1>4
      <4> QED BY <4>1, <4>2, <1>5, <2>6
    <3> QED BY <3>1, <3>2
  <2> QED BY <2>3, <2>4, <2>5, <2>6, <1>8 DEF TellingCells, S
<1> QED BY <1>1, <1>7, <1>8

\* State s begins at time t, but that an object may be off.
Aligned(t, s) == \E a \in Int : Shift(a) /\ (t - Offset[s] + a) % Group = 0

(* What find_relative_offset finds from a history whose syncs tell where   *)
(* the cycle is: the mode is the lighthouses', and the state is the one    *)
(* that begins with the last sync, for one lighthouse of two alone or the  *)
(* other's. The acodes of a cycle fit at no other place.                   *)
THEOREM GuessRight ==
  ASSUME world60 \in BOOLEAN, sight \subseteq {0, 1}, NEW o, boot[o] \in Int,
         NEW h \in Seq(Light), Len(h) = HistoryLen,
         \A i \in 1 .. HistoryLen : Genuine(o, h[i]), Telling(o, h),
         NEW s \in Syncs, NEW b \in BOOLEAN, b => s < B0,
         \A i \in 1 .. HistoryLen : Inlier(h[i], ModFor(h[HistoryLen], s), b)
  PROVE  /\ b = world60
         /\ Aligned(h[HistoryLen].of, s)
<1> DEFINE last == h[HistoryLen]
           S == Cells(o, h)
<1>1. HistoryLen \in 1 .. HistoryLen /\ \A i \in 1 .. HistoryLen : h[i] \in Light
  BY Constants
<1>2. last.of # None /\ last.of \in Nat
  <2>1. last.of # None
    BY DEF Telling
  <2> QED BY <2>1, <1>1 DEF Light
<1>3. last.timestamp = Stamp(o, last.of) /\ \E q \in Nat, r \in {0, 1} : SyncAt(last.of, last.length, q, r)
  BY <1>1, <1>2 DEF Genuine
<1>4. PICK q1 \in Nat, r1 \in {0, 1} : SyncAt(last.of, last.length, q1, r1)
  BY <1>3
<1>5. Earlier(boot[o], last.of, last.of)
  <2>1. (last.of + boot[o]) % Clock \in Int
    BY <1>2, Constants
  <2> QED BY <2>1, <1>2, Constants, SMTT(30) DEF Earlier
<1>6. Has(S, q1, r1)
  BY <1>1, <1>2, <1>4, <1>5, CellOf
<1>7. S \in SUBSET (Nat \X {0, 1})
  BY DEF Cells
<1>8. TellingCells(S)
  BY CellsTell
<1>9. ASSUME NEW q \in Nat, NEW r \in {0, 1}, Has(S, q, r)
      PROVE  (world60 => r = 1) /\ FitsAt(q, r, q1, r1, s, b)
  <2>1. PICK i \in 1 .. HistoryLen :
          /\ h[i].of # None /\ Earlier(boot[o], h[i].of, last.of)
          /\ SyncAt(h[i].of, h[i].length, q, r)
    BY <1>9, CellOf
  <2>2. h[i] \in Light /\ h[i].of \in Nat /\ h[i].timestamp = Stamp(o, h[i].of)
    <3>1. h[i] \in Light
      BY <1>1
    <3>2. h[i].timestamp = Stamp(o, h[i].of)
      BY <2>1 DEF Genuine
    <3> QED BY <2>1, <3>1, <3>2 DEF Light
  <2>3. Inlier(h[i], ModFor(last, s), b)
    OBVIOUS
  <2>4. last \in Light
    BY <1>1
  <2> HIDE DEF last
  <2>5. FitsAt(q, r, q1, r1, s, b)
    BY <1>2, <1>3, <1>4, <2>1, <2>2, <2>3, <2>4, InlierRight
  <2> QED BY <2>1, <2>5 DEF SyncAt
<1>10. last.of = q1 * Quarter + r1 * PulseWindow
  BY <1>4 DEF SyncAt
<1> HIDE DEF S, last
<1>11. /\ b = world60
       /\ \E a \in Int : Shift(a) /\ (q1 * Quarter + r1 * PulseWindow - Offset[s] + a) % Group = 0
  BY <1>6, <1>7, <1>8, <1>9, GuessOfCells
<1>12. Aligned(q1 * Quarter + r1 * PulseWindow, s)
  <2> DEFINE u == q1 * Quarter
             v == r1 * PulseWindow
             w == Offset[s]
  <2>1. u \in Int /\ v \in Int /\ w \in Int
    <3>1. s \in 1 .. 13 /\ Quarter \in Nat /\ PulseWindow \in Nat
      BY Widths DEF Syncs
    <3>2. Offset[s] \in Nat
      BY <3>1, OnGrid
    <3> QED BY <3>1, <3>2
  <2>2. PICK a \in Int : Shift(a) /\ (u + (v - w) + a) % Group = 0
    BY <1>11
  <2> HIDE DEF u, v, w
  <2>3. u + (v - w) + a = ((u + v) - w) + a
    BY <2>1
  <2>4. (((u + v) - w) + a) % Group = 0
    BY <2>2, <2>3
  <2> QED BY <2>2, <2>4 DEF Aligned, u, v, w
<1>13. Aligned(last.of, s)
  BY <1>10, <1>12
<1> QED BY <1>11, <1>13 DEF last

-----------------------------------------------------------------------------
(* Following the cycle                                                     *)

\* The starts of the cycle that m, of object o, follows are where they are, but a off.
Bases(o, a, m) ==
  \A l \in {0, 1} : m.base[l] <= now /\ m.mod[l] = Stamp(o, m.base[l]) /\ (m.base[l] + a) % Group = 0

\* What is registered in m is a sync of a lighthouse, and of m's state, but a off.
Open(o, a, m) ==
  m.count > 0 => /\ m.of # None /\ m.of <= now /\ m.first = Stamp(o, m.of)
                 /\ (m.of + a) % Group = Offset[m.state]

\* o follows the cycle in x, a off.
Follows(o, a, x) ==
  x.mode60 = world60 /\ x.d[o].state \in 1 .. 12 /\ Bases(o, a, x.d[o]) /\ Open(o, a, x.d[o])

\* What o sees as t is t, or one unit before.
SeenAt(o, m, l, t) == ApplyModOffset(Stamp(o, t), m.mod[l], Group)

Either(y, t) == y = t % Group \/ y = (t - 1) % Group

\* Who follows the cycle sees any time where it is, but a off, or a unit before.
LEMMA SeenFrom ==
  ASSUME world60 \in BOOLEAN, NEW o, boot[o] \in Int, NEW a \in Int, NEW m \in Memory, Bases(o, a, m),
         NEW l \in {0, 1}, NEW t \in Int, m.base[l] <= t, 2 * (t - m.base[l]) < Clock
  PROVE  Either(SeenAt(o, m, l, t), t + a)
<1> DEFINE b == m.base[l]
           M == b + boot[o]
           T == t + boot[o]
           y == SeenAt(o, m, l, t)
           G == Group
           z == (b + a) \div G
<1>1. b \in Int /\ m.mod[l] = M % Clock /\ (b + a) % G = 0
  BY DEF Bases, Memory, Stamp
<1>2. G \in Nat \ {0}
  BY GroupType DEF Group
<1>3. M \in Int /\ T \in Int /\ M <= T /\ 2 * (T - M) < Clock /\ T - M = t - b
  BY <1>1
<1>4. y = ApplyModOffset(T % Clock, M % Clock, G)
  BY <1>1 DEF SeenAt, Stamp
<1> HIDE DEF M, T, G
<1>5. y = (T - M) % G \/ y = (T - M - 1) % G
  BY <1>2, <1>3, <1>4, OffsetRight
<1>6. z \in Int /\ b + a = z * G
  <2> DEFINE c == b + a
  <2>1. c \in Int /\ c % G = 0
    BY <1>1
  <2> HIDE DEF c
  <2>2. c \div G \in Int /\ c = (c \div G) * G + (c % G)
    BY <2>1, <1>2, Divided
  <2>3. (c \div G) * G \in Int
    BY <2>2, <1>2
  <2> QED BY <2>1, <2>2, <2>3 DEF c
<1> HIDE DEF z, b, y
<1> DEFINE w == z * G
           u == -z
<1>7. w \in Int /\ u \in Int /\ u * G = -w
  BY <1>2, <1>6
<1>8. T - M = (t + a) + u * G /\ T - M - 1 = (t + a - 1) + u * G
  <2>1. b + a = w
    BY <1>6
  <2> HIDE DEF w, u
  <2> QED BY <2>1, <1>1, <1>3, <1>7
<1> HIDE DEF w, u
<1>9. t + a \in Int /\ t + a - 1 \in Int
  OBVIOUS
<1> DEFINE p == t + a
           q == t + a - 1
<1>10. p \in Int /\ q \in Int /\ T - M = p + u * G /\ T - M - 1 = q + u * G
  BY <1>8, <1>9
<1> HIDE DEF p, q
<1>11. (T - M) % G = p % G /\ (T - M - 1) % G = q % G
  <2>1. (p + u * G) % G = p % G
    BY <1>2, <1>7, <1>10, ModShift
  <2>2. (q + u * G) % G = q % G
    BY <1>2, <1>7, <1>10, ModShift
  <2> QED BY <2>1, <2>2, <1>10
<1> QED BY <1>5, <1>11 DEF p, q, G, y, Either

LEMMA BitType == ASSUME World PROVE Bit \in {0, 1}
<1>1. data \in Seq({0, 1}) /\ data # <<>>
  BY DisambiguatorAssumption DEF World
<1>2. Len(data) \in Nat \ {0}
  BY <1>1, EmptySeq
<1>3. turns % Len(data) \in 0 .. Len(data) - 1
  BY <1>2 DEF World
<1>4. (turns % Len(data)) + 1 \in 1 .. Len(data)
  BY <1>2, <1>3
<1> QED BY <1>1, <1>4 DEF Bit

\* A sync's pulse is in the window of its state, and its middle in the first half.
LEMMA LengthFits ==
  ASSUME NEW n \in 0 .. 7
  PROVE  AcodeTiming(n) \in Nat /\ AcodeTiming(n) >= 2 /\ AcodeTiming(n) <= PulseWindow
<1> DEFINE A == Ticks(2750)
           B == Ticks(500)
           C == Ticks(1000)
           D == Ticks(2000)
           P == PulseWindow
           V(i) == AcodeTiming(i)
<1>1. /\ A \in Nat /\ B \in Nat \ {0} /\ C \in Nat /\ D \in Nat /\ P \in Nat
      /\ 5 * B <= A /\ A + B + C + D <= P
  BY Widths
<1>2. /\ V(0) = A /\ V(1) = A + B /\ V(2) = A + C /\ V(3) = A + B + C
      /\ V(4) = A + D /\ V(5) = A + B + D /\ V(6) = A + C + D /\ V(7) = A + B + C + D
  BY Timings
<1>3. n \in {0, 1, 2, 3, 4, 5, 6, 7}
  OBVIOUS
<1> HIDE DEF A, B, C, D, P, V
<1>4. V(n) \in Nat /\ V(n) >= 2 /\ V(n) <= P
  BY <1>1, <1>2, <1>3
<1> QED BY <1>4 DEF V, P

\* The slot is where the time is, and lighthouse 1 is not in sight in 60Hz mode.
Clockwork == /\ now % Group = Offset[Slot]
             /\ sight \subseteq {0, 1} /\ (world60 => sight \subseteq {0})

\* The sync that a lighthouse sends now.
SyncNow == SyncLength \in Nat /\ SyncLength >= 2 /\ SyncLength <= PulseWindow
           /\ \E q \in Nat, r \in {0, 1} : SyncAt(now, SyncLength, q, r)

\* The slot of a lighthouse's sync.
LEMMA SyncSlot ==
  ASSUME World, Clockwork, Lit, ~IsSweep(Slot)
  PROVE  /\ Slot \in Syncs /\ QuarterOf(Slot) \in 0 .. 3 /\ WindowOf(Slot) = 1 - Lh[Slot]
         /\ Offset[Slot] = QuarterOf(Slot) * Quarter + WindowOf(Slot) * PulseWindow
         /\ world60 => QuarterOf(Slot) < 2 /\ WindowOf(Slot) = 1
<1> DEFINE k == Slot
<1>1. k \in 1 .. 12
  BY SlotType
<1>2. k \in Syncs
  BY <1>1 DEF Syncs, IsSweep
<1>3. WindowOf(k) \in {0, 1} /\ QuarterOf(k) \in 0 .. 3 /\ Lh[k] = 1 - WindowOf(k)
  BY <1>2, TableRight
<1>4. Offset[k] = QuarterOf(k) * Quarter + WindowOf(k) * PulseWindow
  BY <1>1, OnGrid
<1>5. ASSUME world60 PROVE QuarterOf(k) < 2 /\ WindowOf(k) = 1
  <2>1. Lh[k] = 0
    BY <1>5 DEF Lit, Clockwork
  <2>2. Group = 2 * Quarter
    <3>1. world60 = TRUE
      BY <1>5 DEF World
    <3> QED BY <3>1, Groups DEF Group
  <2>3. now % Group < Group
    BY <2>2, Groups DEF World
  <2>4. QuarterOf(k) * Quarter + PulseWindow < 2 * Quarter
    BY <1>3, <1>4, <2>1, <2>2, <2>3, Widths DEF Clockwork
  <2> DEFINE H == Quarter
             P == PulseWindow
             c == QuarterOf(k)
  <2>5. H \in Nat \ {0} /\ P \in Nat /\ c \in {0, 1, 2, 3} /\ c * H + P < 2 * H
    BY <2>4, <1>3, Widths
  <2> HIDE DEF H, P, c
  <2>6. c < 2
    BY <2>5
  <2> QED BY <2>1, <2>6, <1>3 DEF c
<1>6. WindowOf(k) = 1 - Lh[k]
  BY <1>3
<1> QED BY <1>2, <1>3, <1>4, <1>5, <1>6

\* What a lighthouse sends is a sync, by its time and its length.
LEMMA SyncIsNow ==
  ASSUME World, Clockwork, Lit, ~IsSweep(Slot)
  PROVE  SyncNow
<1> DEFINE k == Slot
           c == QuarterOf(k)
           r == WindowOf(k)
           n == IF world60 THEN 2 ELSE 4
           G == Group
           m == now \div G
           q == m * n + c
           H == Quarter
<1>1. /\ k \in Syncs /\ c \in 0 .. 3 /\ r \in {0, 1} /\ (world60 => c < 2 /\ r = 1)
      /\ Offset[k] = c * H + r * PulseWindow
  <2>1. k \in Syncs
    BY SyncSlot
  <2> QED BY <2>1, SyncSlot, TableRight
<1>2. G = n * H /\ G \in Nat \ {0} /\ H \in Nat \ {0} /\ n \in {2, 4}
  <2>1. world60 \in BOOLEAN
    BY DEF World
  <2> QED BY <2>1, GroupIs, GroupType, Widths DEF Group
<1> HIDE DEF G
<1>3. now \in Nat
  BY DEF World
<1>4. m \in Int /\ now = m * G + (now % G)
  <2>1. now \in Int
    BY <1>3
  <2> HIDE DEF n, c, r, q
  <2> QED BY <2>1, <1>2, Divided
<1>5. m \in Nat
  <2>1. now % G \in 0 .. G - 1
    BY <1>2, <1>3, Divided
  <2> DEFINE w == m * G
  <2>2. m <= -1 => w <= -G
    BY <1>2, <1>4
  <2>3. w \in Int /\ now = w + (now % G)
    BY <1>2, <1>4
  <2> HIDE DEF w, m
  <2> QED BY <1>2, <1>3, <1>4, <2>1, <2>2, <2>3
<1>6. now % G = c * H + r * PulseWindow
  BY <1>1 DEF Clockwork, G
<1> HIDE DEF m
<1>7. q \in Nat /\ m * n \in Nat
  <2> HIDE DEF n, c
  <2> QED BY <1>1, <1>2, <1>5
<1>8. now = q * H + r * PulseWindow
  <2> DEFINE v == r * PulseWindow
             w == c * H
             x == m * n
  <2>1. v \in Int /\ w \in Int /\ x \in Int
    <3>1. PulseWindow \in Int
      BY Widths
    <3> HIDE DEF c, r, H, n
    <3> QED BY <3>1, <1>1, <1>2, <1>7
  <2>2. m * G = x * H
    <3> HIDE DEF n, H
    <3> QED BY <1>2, <1>5
  <2> HIDE DEF x, n, c, H
  <2>3. q * H = x * H + w
    BY <1>1, <1>2, <2>1 DEF x
  <2> HIDE DEF v, w, q
  <2>4. now = x * H + (w + v)
    BY <1>4, <1>6, <2>2 DEF v, w
  <2>5. x * H \in Int
    BY <2>1, <1>2
  <2> QED BY <2>1, <2>3, <2>4, <2>5 DEF v
<1>9. Acode[k] = CodeAt(q, r)
  <2>1. Acode[k] = (c % 2) + (IF c \div 2 = r THEN 4 ELSE 0)
    BY <1>1, TableRight
  <2>2. CASE world60 = TRUE
    <3>1. q = m * 2 + c /\ c < 2 /\ r = 1 /\ c \div 2 # r
      <4>1. n = 2
        BY <2>2
      <4>2. c < 2 /\ r = 1
        BY <1>1, <2>2
      <4> HIDE DEF n, c, r
      <4> QED BY <1>1, <4>1, <4>2
    <3> HIDE DEF q, n, c, r
    <3>2. q % 2 = c % 2
      BY <1>1, <1>5, <3>1
    <3> QED BY <2>1, <2>2, <3>1, <3>2 DEF CodeAt
  <2>3. CASE world60 = FALSE
    <3>1. q = m * 4 + c
      <4>1. n = 4
        BY <2>3
      <4> HIDE DEF n, c
      <4> QED BY <4>1
    <3> HIDE DEF q, n, c, r
    <3>2. q % 2 = c % 2 /\ (q \div 2) % 2 = c \div 2
      BY <1>1, <1>5, <3>1
    <3> QED BY <2>1, <2>3, <3>2 DEF CodeAt
  <2> QED BY <2>2, <2>3 DEF World
<1>10. SyncLength \in {AcodeTiming(CodeAt(q, r)), AcodeTiming(CodeAt(q, r) + 2)}
  <2>1. SyncLength = AcodeTiming(CodeAt(q, r) + 2 * Bit)
    BY <1>9 DEF SyncLength
  <2>2. CodeAt(q, r) \in {0, 1, 4, 5}
    BY <1>1, <1>7, CodeIs
  <2>3. \/ CodeAt(q, r) + 2 * Bit = CodeAt(q, r)
        \/ CodeAt(q, r) + 2 * Bit = CodeAt(q, r) + 2
    BY <2>2, BitType
  <2> QED BY <2>1, <2>3
<1>11. SyncLength \in Nat /\ SyncLength >= 2 /\ SyncLength <= PulseWindow
  <2>1. CodeAt(q, r) \in {0, 1, 4, 5}
    BY <1>1, <1>7, CodeIs
  <2> DEFINE u == CodeAt(q, r)
  <2>2. u \in 0 .. 7 /\ u + 2 \in 0 .. 7
    BY <2>1
  <2> HIDE DEF u
  <2>3. SyncLength = AcodeTiming(u) \/ SyncLength = AcodeTiming(u + 2)
    BY <1>10 DEF u
  <2> QED BY <2>2, <2>3, LengthFits
<1>12. SyncAt(now, SyncLength, q, r)
  BY <1>1, <1>7, <1>8, <1>10 DEF SyncAt
<1> HIDE DEF q, r
<1> QED BY <1>1, <1>7, <1>11, <1>12 DEF SyncNow

\* What a lighthouse's sync starts, for who is a off, is the window of a sync too.
LEMMA ShiftedSlot ==
  ASSUME World, Clockwork, Lit, ~IsSweep(Slot), NEW a \in Int, Shift(a)
  PROVE  \E j \in Syncs : (now + a) % Group = Offset[j] /\ Acode[j] = Acode[Slot]
<1> DEFINE k == Slot
           c == QuarterOf(k)
           r == WindowOf(k)
           H == Quarter
           P == PulseWindow
           x == now % Group
           z == now \div Group
           G == Group
<1>1. k \in Syncs /\ c \in 0 .. 3 /\ r = 1 - Lh[k] /\ Offset[k] = c * H + r * P
  BY SyncSlot
<1>2. now \in Int /\ G \in Nat \ {0}
  BY GroupType DEF Group, World
<1>3. now % G = Offset[k]
  BY DEF Clockwork
<1>6. Acode[k] = (c % 2) + (IF c \div 2 = r THEN 4 ELSE 0)
  BY <1>1, TableRight
<1>4. CASE a = 0
  <2>1. now + a = now
    BY <1>2, <1>4
  <2> QED BY <1>1, <1>3, <2>1
<1>5. CASE ~world60 /\ a # 0
  <2>1. G = 4 * H /\ H \in Nat \ {0} /\ P \in Nat
    <3>1. world60 = FALSE
      BY <1>5 DEF World
    <3>2. Group = EndOfMod(FALSE)
      BY <3>1 DEF Group
    <3>3. Group = 4 * Quarter
      BY <3>2, Groups
    <3> QED BY <3>3, Widths
  <2>2. (now + a) % G = (c * H + r * P + a) % G
    <3> HIDE DEF G
    <3>1. ((now % G) + a) % G = (now + a) % G
      BY <1>2, LaterOf
    <3> QED BY <3>1, <1>1, <1>3
  <2>3. \A d \in 0 .. 3 : (3 * d + 1) \in Syncs /\ QuarterOf(3 * d + 1) = d /\ WindowOf(3 * d + 1) = 0
                       /\ (3 * d + 2) \in Syncs /\ QuarterOf(3 * d + 2) = d /\ WindowOf(3 * d + 2) = 1
    BY DEF Syncs, QuarterOf, WindowOf
  <2>4. \A j \in Syncs : j \in 1 .. 13
    BY DEF Syncs
  <2> DEFINE d == (c + 2) % 4
             q == c + 2
  <2>5. d \in 0 .. 3 /\ q \in Nat /\ d % 2 = c % 2 /\ (d \div 2 = 1 - r <=> c \div 2 = r)
    <3> HIDE DEF c, r
    <3>1. r \in {0, 1}
      BY <1>1, TableRight
    <3>2. c \in {0, 1, 2, 3}
      BY <1>1
    <3> QED BY <3>1, <3>2
  <2>8. \A i \in Syncs : Acode[i] = (QuarterOf(i) % 2) + (IF QuarterOf(i) \div 2 = WindowOf(i) THEN 4 ELSE 0)
    BY TableRight
  <2>6. CASE sight = {0} /\ a = 2 * H - P
    <3>1. r = 1
      BY <1>1, <2>6 DEF Lit
    <3>2. c * H + r * P + a = q * H + 0 * P
      <4> HIDE DEF c, r, H, P
      <4> QED BY <3>1, <2>1, <2>6, <1>1
    <3>3. (q * H + 0 * P) % (4 * H) = (q % 4) * H + 0 * P
      <4> HIDE DEF q, c
      <4> QED BY <2>5, ModGrid
    <3>4. Offset[3 * d + 1] = QuarterOf(3 * d + 1) * H + WindowOf(3 * d + 1) * P
      <4> HIDE DEF d
      <4> QED BY <2>3, <2>4, <2>5, OnGrid
    <3>5. Offset[3 * d + 1] = d * H + 0 * P /\ 3 * d + 1 \in Syncs
      <4> HIDE DEF d
      <4> QED BY <2>3, <2>5, <3>4
    <3>6. Acode[3 * d + 1] = Acode[k]
      <4> HIDE DEF c, d, r
      <4> QED BY <1>6, <2>3, <2>5, <2>8, <3>1
    <3> QED BY <2>1, <2>2, <3>2, <3>3, <3>5, <3>6
  <2>7. CASE sight = {1} /\ a = 2 * H + P
    <3>1. r = 0
      BY <1>1, <2>7 DEF Lit
    <3>2. c * H + r * P + a = q * H + 1 * P
      <4> HIDE DEF c, r, H, P
      <4> QED BY <3>1, <2>1, <2>7, <1>1
    <3>3. (q * H + 1 * P) % (4 * H) = (q % 4) * H + 1 * P
      <4> HIDE DEF q, c
      <4> QED BY <2>5, ModGrid
    <3>4. Offset[3 * d + 2] = QuarterOf(3 * d + 2) * H + WindowOf(3 * d + 2) * P
      <4> HIDE DEF d
      <4> QED BY <2>3, <2>4, <2>5, OnGrid
    <3>5. Offset[3 * d + 2] = d * H + 1 * P /\ 3 * d + 2 \in Syncs
      <4> HIDE DEF d
      <4> QED BY <2>3, <2>5, <3>4
    <3>6. Acode[3 * d + 2] = Acode[k]
      <4> HIDE DEF c, d, r
      <4> QED BY <1>6, <2>3, <2>5, <2>8, <3>1
    <3> QED BY <2>1, <2>2, <3>2, <3>3, <3>5, <3>6
  <2> QED BY <2>6, <2>7, <1>5 DEF Shift
<1> QED BY <1>4, <1>5 DEF Shift

LEMMA MiddleOf ==
  ASSUME World, NEW o \in Objects, NEW t \in Int, NEW le \in Light, le.timestamp = Stamp(o, t),
         NEW p \in Int, p = le.length \div 2
  PROVE  Centre(le) = Stamp(o, t + p)
<1> DEFINE b == boot[o]
<1>1. b \in Int
  BY DisambiguatorAssumption DEF World
<1>2. le.timestamp = (t + b) % Clock
  BY DEF Stamp
<1> HIDE DEF b
<1>3. Centre(le) = ((t + p) + b) % Clock
  BY <1>1, <1>2, CentreOf
<1> QED BY <1>3 DEF Stamp, b

\* The window PropagateState finds for the pulse le by the lighthouse l.
Found(m, l, le) == FindByOffset(ApplyModOffset(Centre(le), m.mod[l], Group)).state

(* A sync of a lighthouse is put in the window that it starts, for who is  *)
(* a off.                                                                  *)
THEOREM SyncPlaced ==
  ASSUME World, Clockwork, Lit, ~IsSweep(Slot), NEW o \in Objects,
         NEW a \in Int, Shift(a), NEW m \in Memory, Bases(o, a, m), NEW l \in {0, 1},
         2 * (now + PulseWindow - m.base[l]) < Clock,
         NEW le \in Light, le = [timestamp |-> Stamp(o, now), length |-> SyncLength, of |-> now]
  PROVE  Found(m, l, le) \in Syncs /\ (now + a) % Group = Offset[Found(m, l, le)]
<1> DEFINE p == SyncLength \div 2
           T == now + p
           G == Group
           y == SeenAt(o, m, l, T)
<1>1. PICK j \in Syncs : (now + a) % G = Offset[j]
  BY ShiftedSlot
<1>2. SyncLength \in Nat /\ SyncLength >= 2 /\ SyncLength <= PulseWindow /\ PulseWindow \in Nat
  BY SyncIsNow, Widths DEF SyncNow
<1>3. p \in Nat /\ p >= 1 /\ 2 * p <= PulseWindow /\ p < PulseWindow
  BY <1>2
<1>4. world60 \in BOOLEAN /\ boot[o] \in Int /\ now \in Nat
  BY DisambiguatorAssumption DEF World
<1>5. G \in Nat \ {0}
  BY <1>4, GroupType DEF Group
<1>6. m.base[l] \in Int /\ m.base[l] <= now
  BY DEF Memory, Bases
<1>7. j \in 1 .. 12 /\ j \in 1 .. 13 /\ j + 1 \in 1 .. 13 /\ Offset[j] \in Nat /\ Offset[j + 1] \in Nat
      /\ Offset[j + 1] = Offset[j] + PulseWindow /\ ~IsSweep(j)
  <2>1. j \in 1 .. 12 /\ j \in 1 .. 13 /\ j + 1 \in 1 .. 13 /\ ~IsSweep(j)
    BY DEF Syncs, IsSweep
  <2>2. j \in {1, 2, 4, 5, 7, 8, 10, 11}
    BY DEF Syncs
  <2>3. QuarterOf(j + 1) = QuarterOf(j) /\ WindowOf(j + 1) = WindowOf(j) + 1
    BY <2>2 DEF QuarterOf, WindowOf
  <2> DEFINE u == QuarterOf(j)
             v == WindowOf(j)
             H == Quarter
             P == PulseWindow
  <2>4. Offset[j] = u * H + v * P /\ Offset[j] \in Nat /\ u \in Int /\ v \in Int
    <3>1. /\ Offset[j] = QuarterOf(j) * Quarter + WindowOf(j) * PulseWindow
          /\ QuarterOf(j) \in 0 .. 4 /\ WindowOf(j) \in 0 .. 2 /\ Offset[j] \in Nat
      BY <2>1, OnGrid
    <3>2. QuarterOf(j) \in Int /\ WindowOf(j) \in Int
      BY <3>1
    <3> QED BY <3>1, <3>2
  <2>5. Offset[j + 1] = u * H + (v + 1) * P /\ Offset[j + 1] \in Nat
    BY <2>1, <2>3, OnGrid
  <2>6. H \in Nat /\ P \in Nat
    BY Widths
  <2> HIDE DEF u, v, H, P
  <2>7. (v + 1) * P = v * P + P /\ u * H \in Int /\ v * P \in Int
    BY <2>4, <2>6
  <2>8. Offset[j + 1] = Offset[j] + P
    BY <2>4, <2>5, <2>6, <2>7
  <2> QED BY <2>1, <2>4, <2>5, <2>8 DEF P
<1>8. Centre(le) = Stamp(o, T)
  <2>1. le.timestamp = Stamp(o, now) /\ p = le.length \div 2 /\ p \in Int /\ now \in Int
    BY <1>3, <1>4
  <2> HIDE DEF p
  <2> QED BY <2>1, MiddleOf
<1>9. Found(m, l, le) = FindByOffset(y).state
  BY <1>8 DEF Found, SeenAt
<1>10. Either(y, T + a)
  <2> HIDE DEF y, p
  <2>1. T \in Int /\ m.base[l] <= T /\ T <= now + PulseWindow
    BY <1>2, <1>3, <1>4, <1>6
  <2>2. 2 * (T - m.base[l]) < Clock
    BY <2>1, <1>2, <1>4, <1>6, Constants
  <2> HIDE DEF T
  <2> QED BY <2>1, <2>2, <1>4, SeenFrom DEF y
<1> HIDE DEF y, p, G
<1>11. (T + a) % G = Offset[j] + p
  <2> DEFINE n == now + a
             x == Offset[j]
             h == p
  <2>1. n \in Int /\ x \in Nat /\ h \in Int /\ n % G = x /\ x = n % G
    BY <1>1, <1>3, <1>4, <1>7
  <2>2. x < G
    BY <2>1, <1>5
  <2>3. x + h < G /\ x + h \in Nat
    <3>1. PICK e \in {7, 13} : G = Offset[e]
      <4>1. CASE world60 = TRUE
        BY <4>1 DEF G, Group, EndOfMod, B0
      <4>2. CASE world60 = FALSE
        BY <4>2 DEF G, Group, EndOfMod, End
      <4> QED BY <4>1, <4>2, <1>4
    <3>2. e \in 1 .. 13
      OBVIOUS
    <3>3. j < e
      <4> SUFFICES ASSUME ~(j < e) PROVE FALSE
        OBVIOUS
      <4>1. e < j \/ e = j
        BY <1>7, <3>2
      <4>2. Offset[e] <= Offset[j]
        <5>1. Offset[e] \in Int /\ Offset[j] \in Int
          BY <3>2, <1>7, OffsetTable
        <5>2. e < j => Offset[e] < Offset[j]
          BY <3>2, <1>7, OffsetsRise
        <5> HIDE DEF x
        <5> QED BY <4>1, <5>1, <5>2
      <4> QED BY <4>2, <3>1, <2>2, <1>5, <1>7
    <3>4. j + 1 < e \/ j + 1 = e
      BY <3>2, <3>3, <1>7
    <3>5. Offset[j + 1] <= G
      BY <3>1, <3>2, <3>4, <1>5, <1>7, OffsetsRise
    <3> QED BY <3>5, <1>2, <1>3, <1>5, <1>7
  <2> HIDE DEF n, x, h
  <2>4. ((n % G) + h) % G = (n + h) % G
    BY <2>1, <1>5, LaterOf
  <2>5. (x + h) % G = x + h
    BY <2>3, <1>5
  <2>6. (n + h) % G = x + h
    BY <2>1, <2>4, <2>5
  <2>7. n + h = T + a
    BY <1>3, <1>4 DEF n, h
  <2> QED BY <2>6, <2>7 DEF x, h
<1> DEFINE x == Offset[j] + p
<1>12. x \in Nat /\ x > 0 /\ T + a \in Int
  BY <1>3, <1>4, <1>7
<1>13. ((T + a) - 1) % G = x - 1
  <2> DEFINE c == T + a
  <2>1. c \in Int /\ c % G = x
    BY <1>11, <1>12
  <2> HIDE DEF c, x
  <2>2. (c - 1) % G = x - 1
    BY <2>1, <1>5, <1>12, OneBefore
  <2> QED BY <2>2 DEF c
<1>14. FindByOffset(x).state = j /\ FindByOffset(x - 1).state = j
  <2>1. Clear(j, p)
    <3>1. Window(j) = PulseWindow
      BY <1>2, <1>7 DEF Window
    <3> HIDE DEF p
    <3> QED BY <3>1, <1>2, <1>3, <1>7 DEF Clear
  <2> QED BY <2>1, <1>3, <1>7, SameWindow
<1>15. y = x \/ y = x - 1
  <2> HIDE DEF x, T
  <2>1. y = (T + a) % G \/ y = ((T + a) - 1) % G
    BY <1>10 DEF Either, G
  <2>2. (T + a) % G = x
    BY <1>11 DEF x
  <2> QED BY <2>1, <2>2, <1>13
<1> HIDE DEF x
<1>16. Found(m, l, le) = j
  BY <1>9, <1>14, <1>15
<1> QED BY <1>1, <1>16 DEF G

\* Nothing is registered as longer than what is not there.
Tidy(m) == m.count = 0 => m.longest = 0

\* The state was given up, and all that it was found from.
Lost(m) == m.state = Unknown /\ m.history = <<>> /\ m.count = 0

Kempt(m) == Tidy(m) /\ (m.state = Unknown => Lost(m))

\* What an object that follows the cycle does.
After(o, a, y) == y.d[o].state = Unknown \/ Misled(y.d[o]) \/ Follows(o, a, y)

\* What the invariant is about is the same in m and n.
Same(m, n) ==
  /\ n.state = m.state /\ n.mod = m.mod /\ n.base = m.base /\ n.history = m.history
  /\ n.count = m.count /\ n.first = m.first /\ n.of = m.of /\ n.longest = m.longest

\* What is the same is as right as before.
LEMMA SameMoves ==
  ASSUME NEW o, NEW a, NEW x, NEW y, Same(x.d[o], y.d[o]), y.mode60 = x.mode60
  PROVE  /\ Tidy(x.d[o]) => Tidy(y.d[o])
         /\ Kempt(x.d[o]) => Kempt(y.d[o])
         /\ Follows(o, a, x) => Follows(o, a, y)
         /\ After(o, a, x) => After(o, a, y)
<1> DEFINE m == x.d[o]
           n == y.d[o]
<1>1. /\ n.state = m.state /\ n.mod = m.mod /\ n.base = m.base /\ n.history = m.history
      /\ n.count = m.count /\ n.first = m.first /\ n.of = m.of /\ n.longest = m.longest
  BY DEF Same
<1>2. Bases(o, a, m) => Bases(o, a, n)
  <2> HIDE DEF m, n
  <2> QED BY <1>1 DEF Bases
<1>3. Open(o, a, m) => Open(o, a, n)
  <2> HIDE DEF m, n
  <2> QED BY <1>1 DEF Open
<1>4. (Tidy(m) => Tidy(n)) /\ (Kempt(m) => Kempt(n)) /\ (Misled(m) => Misled(n))
  <2> HIDE DEF m, n
  <2> QED BY <1>1 DEF Tidy, Kempt, Lost, Misled
<1>5. Follows(o, a, x) => Follows(o, a, y)
  BY <1>1, <1>2, <1>3 DEF Follows
<1> QED BY <1>1, <1>4, <1>5 DEF After

\* What SetState leaves of an object's data.
LEMMA SetStateIs ==
  ASSUME NEW x, Good(x), NEW o \in Objects, NEW k \in 0 .. 13
  PROVE  LET y == SetState(x, o, k)
             m == y.d[o]
         IN  /\ m.state = (IF k = 13 THEN 1 ELSE k) /\ m.count = 0 /\ m.longest = 0
             /\ m.mod = x.d[o].mod /\ m.base = x.d[o].base
             /\ m.history = (IF k = Unknown THEN <<>> ELSE x.d[o].history)
             /\ m.sweep = [s \in Sensors |-> NoLight]
             /\ k # Unknown => y.mode60 = x.mode60
<1> DEFINE d == x.d[o]
           r == ResetSync(d)
           z == IF k >= End THEN 1 ELSE k
           h == IF k = Unknown THEN <<>> ELSE d.history
           w == Blank.sweep
           m == [r EXCEPT !.state = z, !.history = h, !.sweep = w]
           y == [x EXCEPT !.d[o] = m]
           c == y.mode60 /\ (k # Unknown \/ BestKnown(y))
           q == SetState(x, o, k)
<1>1. x \in States /\ d \in Memory /\ Within(d)
  BY DEF Good, Within
<1>2. r = [d EXCEPT !.first = 0, !.longest = 0, !.count = 0, !.of = None]
  BY DEF ResetSync
<1>3. z = IF k = 13 THEN 1 ELSE k
  BY DEF End
<1>4. q = [y EXCEPT !.mode60 = c]
  BY DEF SetState
<1>11. w = [s \in Sensors |-> NoLight]
  BY DEF Blank
<1> HIDE DEF z, h, w, q
<1>5. r \in Memory
  BY <1>1, ResetType DEF Within
<1>6. r.count = 0 /\ r.longest = 0 /\ r.mod = d.mod /\ r.base = d.base
  <2> HIDE DEF d, r
  <2> QED BY <1>1, <1>2 DEF Memory
<1> HIDE DEF r
<1>7. m.state = z /\ m.count = 0 /\ m.longest = 0 /\ m.mod = d.mod /\ m.base = d.base /\ m.history = h
      /\ m.sweep = w
  <2> HIDE DEF d
  <2> QED BY <1>5, <1>6 DEF Memory
<1> HIDE DEF m, d
<1>8. y.d[o] = m /\ y.mode60 = x.mode60 /\ q.d = y.d /\ q.mode60 = c
  BY <1>1, <1>4 DEF States
<1>9. k # Unknown => q.mode60 = x.mode60
  <2>1. x.mode60 \in BOOLEAN
    BY <1>1 DEF States
  <2> HIDE DEF y
  <2> QED BY <2>1, <1>8
<1> HIDE DEF y, c
<1>10. q.d[o] = m
  BY <1>8
<1> QED BY <1>3, <1>7, <1>9, <1>10, <1>11 DEF q, d, h

LEMMA UnknownSet ==
  ASSUME NEW x, Good(x), NEW o \in Objects
  PROVE  Lost(SetState(x, o, Unknown).d[o]) /\ Kempt(SetState(x, o, Unknown).d[o])
<1> DEFINE m == SetState(x, o, 0).d[o]
<1>1. 0 \in 0 .. 13 /\ 0 # 13
  OBVIOUS
<1>2. m.state = 0 /\ m.count = 0 /\ m.longest = 0 /\ m.history = <<>>
  BY <1>1, SetStateIs DEF Unknown
<1> HIDE DEF m
<1>3. Lost(m) /\ Kempt(m)
  BY <1>2 DEF Lost, Kempt, Tidy, Unknown
<1> QED BY <1>3 DEF m, Unknown

LEMMA StateSet ==
  ASSUME NEW x, Good(x), NEW o \in Objects, NEW k \in 1 .. 13
  PROVE  LET y == SetState(x, o, k)
         IN  /\ y.d[o].state = (IF k = 13 THEN 1 ELSE k) /\ y.d[o].count = 0 /\ y.mode60 = x.mode60
             /\ y.d[o].mod = x.d[o].mod /\ y.d[o].base = x.d[o].base /\ Kempt(y.d[o])
             /\ y.d[o].sweep = [s \in Sensors |-> NoLight]
<1> DEFINE y == SetState(x, o, k)
           m == y.d[o]
<1>1. m.state = (IF k = 13 THEN 1 ELSE k) /\ m.count = 0 /\ m.longest = 0
      /\ m.mod = x.d[o].mod /\ m.base = x.d[o].base /\ y.mode60 = x.mode60
      /\ m.sweep = [s \in Sensors |-> NoLight]
  <2>1. k \in 0 .. 13 /\ k # Unknown
    BY DEF Unknown
  <2>2. y = SetState(x, o, k)
    OBVIOUS
  <2> HIDE DEF y
  <2>3. m.sweep = [s \in Sensors |-> NoLight]
    BY <2>1, <2>2, SetStateIs, SMTT(30)
  <2>4. m.mod = x.d[o].mod /\ m.base = x.d[o].base /\ y.mode60 = x.mode60
    BY <2>1, <2>2, SetStateIs, SMTT(30)
  <2>5. m.state = (IF k = 13 THEN 1 ELSE k) /\ m.count = 0 /\ m.longest = 0
    BY <2>1, <2>2, SetStateIs, SMTT(30)
  <2> QED BY <2>3, <2>4, <2>5
<1> HIDE DEF y
<1>2. Kempt(m)
  BY <1>1 DEF Kempt, Tidy, Unknown
<1> QED BY <1>1, <1>2 DEF y

\* A state set by who knows where the cycle starts: nothing is registered yet.
LEMMA KnownSet ==
  ASSUME NEW x, Good(x), NEW o \in Objects, NEW a, NEW k \in 1 .. 13,
         x.mode60 = world60, Bases(o, a, x.d[o])
  PROVE  Follows(o, a, SetState(x, o, k))
<1> DEFINE y == SetState(x, o, k)
           m == y.d[o]
<1>1. /\ m.state = (IF k = 13 THEN 1 ELSE k) /\ m.count = 0
      /\ m.mod = x.d[o].mod /\ m.base = x.d[o].base /\ y.mode60 = x.mode60
  BY StateSet
<1> HIDE DEF y
<1>2. m.state \in 1 .. 12
  BY <1>1
<1>3. Bases(o, a, m)
  BY <1>1 DEF Bases
<1>4. Open(o, a, m)
  BY <1>1 DEF Open
<1>5. Follows(o, a, y)
  BY <1>1, <1>2, <1>3, <1>4 DEF Follows
<1> QED BY <1>5 DEF y

\* The time that is off after the start of a cycle is kept as that start.
LEMMA StartKept ==
  ASSUME NEW o, boot[o] \in Int, NEW t \in Int, NEW off \in Int
  PROVE  (Stamp(o, t) - off) % Clock = Stamp(o, t - off)
<1> DEFINE c == t + boot[o]
<1>1. c \in Int /\ (t - off) + boot[o] = c - off /\ Clock \in Nat \ {0}
  BY Constants
<1>2. Stamp(o, t) = c % Clock /\ Stamp(o, t - off) = (c - off) % Clock
  <2>1. Stamp(o, t - off) = ((t - off) + boot[o]) % Clock
    BY DEF Stamp
  <2> HIDE DEF c
  <2>2. Stamp(o, t - off) = (c - off) % Clock
    BY <2>1, <1>1
  <2> QED BY <2>2 DEF c, Stamp
<1> HIDE DEF c
<1>3. ((c % Clock) - off) % Clock = (c - off) % Clock
  BY <1>1, StartOf
<1> QED BY <1>2, <1>3

\* The start of the cycle that the code takes from the sync of state k is where it
\* is, but a off.
LEMMA CycleKept ==
  ASSUME World, NEW o \in Objects, NEW a \in Int, NEW t \in Nat, t <= now, NEW k \in 1 .. 12,
         (t + a) % Group = Offset[k]
  PROVE  t - Offset[k] <= now /\ ((t - Offset[k]) + a) % Group = 0
<1> DEFINE c == t + a
           x == Offset[k]
           G == Group
<1>1. x \in Int /\ x >= 0 /\ c \in Int
  BY OffsetTable
<1>2. G \in Nat \ {0} /\ now \in Nat
  BY GroupType DEF Group, World
<1>3. c % G = x /\ (t - x) + a = c - x
  BY <1>1
<1>5. t - x <= now
  BY <1>1, <1>2
<1> HIDE DEF c, G, x
<1>4. ((c % G) - x) % G = (c - x) % G
  BY <1>1, <1>2, StartOf
<1>6. (x - x) % G = 0
  BY <1>1, <1>2
<1>7. (c - x) % G = 0
  BY <1>3, <1>4, <1>6
<1>8. ((t - x) + a) % G = 0
  BY <1>3, <1>7
<1> QED BY <1>5, <1>8 DEF x, G

\* What LeaveSync leaves of an object's data.
LEMMA LeaveSyncIs ==
  ASSUME NEW x, Good(x), NEW o \in Objects, x.d[o].state \in 1 .. 12, x.d[o].count # 0
  PROVE  LET d == x.d[o]
             y == LeaveSync(x, o)
             l == Lh[d.state]
         IN  /\ y.mode60 = x.mode60
             /\ y.d[o].mod = [d.mod EXCEPT ![l] = (d.first - Offset[d.state]) % Clock]
             /\ y.d[o].base = [d.base EXCEPT ![l] = d.of - Offset[d.state]]
<1> DEFINE d     == x.d[o]
           y     == LeaveSync(x, o)
           sync  == LastSync(d)
           k     == d.state
           l     == Lh[k]
           h     == AddSyncHistory(d.history, sync)
           f     == ModFor(sync, k)
           b     == sync.of - Offset[k]
           m     == [d EXCEPT !.history = h, !.mod[l] = f, !.base[l] = b]
           a     == Acode[k]
           hasData == Abs(AcodeTiming(a + 2) - sync.length) < Abs(AcodeTiming(a) - sync.length)
           code2 == IF hasData THEN a + 2 ELSE a
           event == [kind |-> "sync", object |-> o, lh |-> l, acode |-> code2,
                     at |-> sync.timestamp, length |-> sync.length]
           t     == IF d.confidence > Trusted THEN x.told \cup {event} ELSE x.told
<1>1. x \in States /\ d \in Memory
  BY DEF Good, Within
<1>2. sync = [timestamp |-> d.first, length |-> d.longest, of |-> d.of]
  BY DEF LastSync
<1>3. f = (d.first - Offset[k]) % Clock /\ b = d.of - Offset[k]
  BY <1>2 DEF ModFor
<1>4. y = [x EXCEPT !.d[o] = m, !.told = t]
  BY DEF LeaveSync
<1> HIDE DEF h, f, b, t, y
<1>5. m.mod = [d.mod EXCEPT ![l] = f] /\ m.base = [d.base EXCEPT ![l] = b]
  <2> HIDE DEF d, l
  <2> QED BY <1>1 DEF Memory
<1> HIDE DEF m
<1>6. y.d[o] = m /\ y.mode60 = x.mode60
  BY <1>1, <1>4 DEF States
<1> QED BY <1>3, <1>5, <1>6 DEF y

\* Leaving a sync, the start of its lighthouse's cycle is where it is, but a off.
LEMMA LeaveSyncBases ==
  ASSUME World, NEW x, Good(x), NEW o \in Objects, NEW a \in Int, Follows(o, a, x)
  PROVE  LeaveSync(x, o).mode60 = world60 /\ Bases(o, a, LeaveSync(x, o).d[o])
<1> DEFINE d == x.d[o]
           y == LeaveSync(x, o)
           k == d.state
           l == Lh[k]
           b == d.of - Offset[k]
           n == y.d[o]
<1>1. d \in Memory /\ boot[o] \in Int
  BY DisambiguatorAssumption DEF Good, Within, World
<1>2. x.mode60 = world60 /\ k \in 1 .. 12 /\ Bases(o, a, d) /\ Open(o, a, d)
  BY DEF Follows
<1>3. CASE d.count = 0
  <2>1. y = x
    BY <1>3 DEF LeaveSync
  <2> QED BY <1>2, <2>1
<1>4. CASE d.count # 0
  <2>1. /\ y.mode60 = x.mode60
        /\ n.mod = [d.mod EXCEPT ![l] = (d.first - Offset[k]) % Clock]
        /\ n.base = [d.base EXCEPT ![l] = b]
    BY <1>2, <1>4, LeaveSyncIs
  <2>2. l \in {0, 1} /\ Offset[k] \in Int
    BY <1>2, LhType, OffsetTable
  <2>3. d.mod \in [{0, 1} -> Timestamps] /\ d.base \in [{0, 1} -> Int] /\ d.count > 0
    BY <1>1, <1>4 DEF Memory
  <2>4. d.of \in Nat /\ d.of <= now /\ d.first = Stamp(o, d.of) /\ (d.of + a) % Group = Offset[k]
    <3>1. d.of # None /\ d.of \in Nat \cup {None}
      BY <1>1, <1>2, <2>3 DEF Open, Memory
    <3> QED BY <3>1, <1>2, <2>3 DEF Open
  <2> HIDE DEF d, y, k, l
  <2>5. b <= now /\ (b + a) % Group = 0
    BY <1>2, <2>4, CycleKept
  <2>6. (d.first - Offset[k]) % Clock = Stamp(o, b)
    <3>1. d.of \in Int /\ Offset[k] \in Int
      BY <2>2, <2>4
    <3>2. (Stamp(o, d.of) - Offset[k]) % Clock = Stamp(o, d.of - Offset[k])
      BY <1>1, <3>1, StartKept
    <3> QED BY <3>2, <2>4
  <2> HIDE DEF b
  <2>7. /\ n.mod[l] = Stamp(o, b) /\ n.base[l] = b
        /\ \A j \in {0, 1} : j # l => n.mod[j] = d.mod[j] /\ n.base[j] = d.base[j]
    BY <2>1, <2>2, <2>3, <2>6
  <2> HIDE DEF n
  <2>8. \A j \in {0, 1} : n.base[j] <= now /\ n.mod[j] = Stamp(o, n.base[j]) /\ (n.base[j] + a) % Group = 0
    <3> SUFFICES ASSUME NEW j \in {0, 1}
                 PROVE  n.base[j] <= now /\ n.mod[j] = Stamp(o, n.base[j]) /\ (n.base[j] + a) % Group = 0
      OBVIOUS
    <3>1. CASE j = l
      BY <3>1, <2>5, <2>7
    <3>2. CASE j # l
      <4>1. d.base[j] <= now /\ d.mod[j] = Stamp(o, d.base[j]) /\ (d.base[j] + a) % Group = 0
        BY <1>2 DEF Bases
      <4> QED BY <4>1, <3>2, <2>7
    <3> QED BY <3>1, <3>2
  <2>9. Bases(o, a, n)
    BY <2>8 DEF Bases
  <2> QED BY <1>2, <2>1, <2>9 DEF n, y
<1> QED BY <1>3, <1>4

\* LeaveSweep leaves an object's data as it is.
LEMMA LeaveSweepIs ==
  ASSUME NEW x, Good(x), NEW o \in Objects
  PROVE  LeaveSweep(x, o).d = x.d /\ LeaveSweep(x, o).mode60 = x.mode60
<1>1. x \in States
  BY DEF Good
<1>2. ASSUME NEW b, NEW t
      PROVE  [x EXCEPT !.behind = b, !.told = t].d = x.d /\ [x EXCEPT !.behind = b, !.told = t].mode60 = x.mode60
  BY <1>1, SMTT(30) DEF States
<1>3. LeaveSweep(x, o) = x \/ \E b, t : LeaveSweep(x, o) = [x EXCEPT !.behind = b, !.told = t]
  BY DEF LeaveSweep
<1>4. CASE LeaveSweep(x, o) = x
  BY <1>4
<1>5. CASE \E b, t : LeaveSweep(x, o) = [x EXCEPT !.behind = b, !.told = t]
  <2>1. PICK b, t : LeaveSweep(x, o) = [x EXCEPT !.behind = b, !.told = t]
    BY <1>5
  <2> QED BY <2>1, <1>2
<1> QED BY <1>3, <1>4, <1>5

(* A change of the state: who follows the cycle goes on.                   *)
LEMMA ChangeFollows ==
  ASSUME World, NEW x, Good(x), NEW o \in Objects, x.d[o].state \in 1 .. 12, NEW a \in Int,
         NEW k \in 1 .. 13
  PROVE  LET y == ProcessStateChange(x, o, k)
         IN  /\ y.d[o].state = (IF k = 13 THEN 1 ELSE k) /\ y.d[o].count = 0 /\ Kempt(y.d[o])
             /\ Follows(o, a, x) => Follows(o, a, y)
<1> DEFINE z == IF IsSweep(x.d[o].state) THEN LeaveSweep(x, o) ELSE LeaveSync(x, o)
           y == ProcessStateChange(x, o, k)
<1>1. y = SetState(z, o, k)
  BY DEF ProcessStateChange
<1>2. Good(z)
  BY LeaveSyncStep, LeaveSweepStep DEF Step
<1>3. ASSUME Follows(o, a, x) PROVE z.mode60 = world60 /\ Bases(o, a, z.d[o])
  <2>1. CASE IsSweep(x.d[o].state)
    <3>1. z.d = x.d /\ z.mode60 = x.mode60
      BY <2>1, LeaveSweepIs
    <3> HIDE DEF z
    <3> QED BY <3>1, <1>3 DEF Follows
  <2>2. CASE ~IsSweep(x.d[o].state)
    <3>1. z = LeaveSync(x, o)
      BY <2>2
    <3> HIDE DEF z
    <3> QED BY <3>1, <1>3, LeaveSyncBases
  <2> QED BY <2>1, <2>2
<1> HIDE DEF z
<1>4. Follows(o, a, x) => Follows(o, a, y)
  BY <1>1, <1>2, <1>3, KnownSet
<1>5. y.d[o].state = (IF k = 13 THEN 1 ELSE k) /\ y.d[o].count = 0 /\ Kempt(y.d[o])
  BY <1>1, <1>2, StateSet
<1> HIDE DEF y
<1> QED BY <1>4, <1>5 DEF y

\* If le is a sync of a lighthouse, it is of state k, but a off.
Begins(o, a, k, le) ==
  le.of # None => le.of <= now /\ le.timestamp = Stamp(o, le.of) /\ (le.of + a) % Group = Offset[k]

\* What RegisterSync makes of an object's data.
LEMMA RegisterIs ==
  ASSUME NEW m \in Memory, NEW le \in Light
  PROVE  LET r == RegisterSync(m, le)
         IN  /\ r.state = m.state /\ r.mod = m.mod /\ r.base = m.base /\ r.history = m.history
             /\ r.count = m.count + 1 /\ r.of = Registered(m, le)
             /\ r.first = (IF le.timestamp < m.first \/ m.longest = 0 THEN le.timestamp ELSE m.first)
             /\ r.longest = (IF le.length > m.longest THEN le.length ELSE m.longest)
<1> DEFINE r == RegisterSync(m, le)
           f == IF le.timestamp < m.first \/ m.longest = 0 THEN le.timestamp ELSE m.first
           g == IF le.length > m.longest THEN le.length ELSE m.longest
           c == m.count + 1
           e == Registered(m, le)
<1>1. r = [m EXCEPT !.first = f, !.longest = g, !.count = c, !.of = e]
  BY DEF RegisterSync, Memory
<1> HIDE DEF r, f, g, c, e
<1>2. /\ r.state = m.state /\ r.mod = m.mod /\ r.base = m.base /\ r.history = m.history
      /\ r.count = c /\ r.of = e /\ r.first = f /\ r.longest = g
  BY <1>1 DEF Memory
<1> QED BY <1>2 DEF r, f, g, c, e

\* Registering a sync keeps what is registered a sync of the state, or nobody's.
LEMMA RegisterFollows ==
  ASSUME NEW o, NEW a, NEW m \in Memory, m.state \in 1 .. 12, Tidy(m), Bases(o, a, m), Open(o, a, m),
         NEW le \in Light, Begins(o, a, m.state, le)
  PROVE  LET r == RegisterSync(m, le)
         IN  Bases(o, a, r) /\ (Misled(r) \/ Open(o, a, r)) /\ r.count > 0
<1> DEFINE r == RegisterSync(m, le)
<1>1. /\ r.state = m.state /\ r.mod = m.mod /\ r.base = m.base
      /\ r.count = m.count + 1 /\ r.of = Registered(m, le)
      /\ r.first = (IF le.timestamp < m.first \/ m.longest = 0 THEN le.timestamp ELSE m.first)
  BY RegisterIs
<1> HIDE DEF r
<1>2. r.count > 0 /\ m.count \in Nat
  BY <1>1 DEF Memory
<1>3. Bases(o, a, r)
  BY <1>1 DEF Bases
<1>4. CASE r.of = None
  BY <1>2, <1>3, <1>4 DEF Misled, r
<1>5. CASE r.of # None /\ m.count = 0
  <2>1. r.of = le.of /\ r.first = le.timestamp
    BY <1>1, <1>5 DEF Registered, Tidy
  <2>2. Open(o, a, r)
    BY <2>1, <1>1, <1>5 DEF Open, Begins
  <2> QED BY <2>2, <1>2, <1>3 DEF r
<1>6. CASE r.of # None /\ m.count # 0
  <2>1. m.of # None /\ le.of # None
    BY <1>1, <1>6 DEF Registered
  <2>2. \/ r.of = le.of /\ r.first = le.timestamp
        \/ r.of = m.of /\ r.first = m.first
    BY <2>1, <1>1, <1>6 DEF Registered
  <2>3. /\ m.of <= now /\ m.first = Stamp(o, m.of) /\ (m.of + a) % Group = Offset[m.state]
        /\ le.of <= now /\ le.timestamp = Stamp(o, le.of) /\ (le.of + a) % Group = Offset[m.state]
    BY <2>1, <1>2, <1>6 DEF Open, Begins
  <2>4. Open(o, a, r)
    BY <2>2, <2>3, <1>1, <1>6 DEF Open
  <2> QED BY <2>4, <1>2, <1>3 DEF r
<1> QED BY <1>4, <1>5, <1>6

(* A pulse in a window of syncs.                                           *)
LEMMA ACodeFollows ==
  ASSUME World, NEW x, Good(x), NEW o \in Objects, x.d[o].state \in 1 .. 12, Tidy(x.d[o]),
         NEW a \in Int, NEW le \in Light
  PROVE  LET y == RunACodeCapture(x, o, le)
         IN  /\ Kempt(y.d[o])
             /\ Follows(o, a, x) /\ Begins(o, a, x.d[o].state, le) => After(o, a, y)
<1> DEFINE d == x.d[o]
           y == IF d.confidence < Penalty THEN SetState(x, o, Unknown) ELSE x
           e == RegisterSync(d, le)
           v == y.d[o].confidence - Penalty
           p == [y.d[o] EXCEPT !.confidence = v]
           c == IF e.confidence < MaxConfidence THEN e.confidence + 1 ELSE e.confidence
           q == [e EXCEPT !.confidence = c]
           yp == [y EXCEPT !.d[o] = p]
           xq == [x EXCEPT !.d[o] = q]
           z == RunACodeCapture(x, o, le)
<1>1. z = x \/ z = yp \/ z = xq
  BY DEF RunACodeCapture
<1>2. Kempt(d) /\ d \in Memory /\ x \in States
  BY DEF Kempt, Unknown, Good, Within
<1>3. CASE z = x
  <2> HIDE DEF z
  <2> QED BY <1>2, <1>3 DEF After, z
<1>4. CASE z = yp
  <2>1. 0 \in 0 .. 13
    OBVIOUS
  <2>2. Good(y) /\ y.d[o] \in Memory /\ y \in States
    <3>1. Step(x, y, o)
      BY <2>1, SetStateStep, StepSelf DEF Unknown
    <3> HIDE DEF y
    <3> QED BY <3>1 DEF Step, Good, Within
  <2>3. Kempt(y.d[o]) /\ (Follows(o, a, x) => After(o, a, y))
    <3>1. CASE d.confidence < Penalty
      <4>1. y = SetState(x, o, Unknown)
        BY <3>1
      <4> HIDE DEF y
      <4> QED BY <4>1, UnknownSet DEF After, Lost
    <3>2. CASE ~(d.confidence < Penalty)
      <4>1. y = x
        BY <3>2
      <4> HIDE DEF y
      <4> QED BY <4>1, <1>2 DEF After
    <3> QED BY <3>1, <3>2
  <2> HIDE DEF y, v
  <2>4. Same(y.d[o], p)
    BY <2>2 DEF Same, Memory
  <2> HIDE DEF p
  <2>5. yp.d[o] = p /\ yp.mode60 = y.mode60
    BY <2>2 DEF States
  <2> HIDE DEF yp
  <2>6. (Kempt(y.d[o]) => Kempt(yp.d[o])) /\ (After(o, a, y) => After(o, a, yp))
    BY <2>4, <2>5, SameMoves
  <2> HIDE DEF z
  <2>7. Kempt(z.d[o]) /\ (Follows(o, a, x) => After(o, a, z))
    BY <2>3, <2>6, <1>4
  <2> QED BY <2>7 DEF z
<1>5. CASE z = xq
  <2>1. e \in Memory /\ e.state = d.state
    BY <1>2, RegisterType DEF Good, Within
  <2>2. e.count > 0
    BY <1>2, RegisterIs, SMTT(30) DEF Memory
  <2>3. Follows(o, a, x) /\ Begins(o, a, d.state, le) => Bases(o, a, e) /\ (Misled(e) \/ Open(o, a, e))
    BY <1>2, RegisterFollows DEF Follows
  <2> HIDE DEF e, d, c
  <2>4. Same(e, q)
    BY <2>1 DEF Same, Memory
  <2> HIDE DEF q
  <2>5. xq.d[o] = q /\ xq.mode60 = x.mode60
    BY <1>2 DEF States
  <2> HIDE DEF xq
  <2>6. q.state = d.state /\ d.state \in 1 .. 12 /\ q.count > 0
    BY <2>1, <2>2, <2>4 DEF Same, d
  <2>7. Kempt(q)
    BY <2>6 DEF Kempt, Tidy, Unknown
  <2>8. Follows(o, a, x) /\ Begins(o, a, d.state, le) => Bases(o, a, q) /\ (Misled(q) \/ Open(o, a, q))
    <3>1. (Bases(o, a, e) => Bases(o, a, q)) /\ (Misled(e) => Misled(q)) /\ (Open(o, a, e) => Open(o, a, q))
      BY <2>4 DEF Same, Bases, Misled, Open
    <3> QED BY <3>1, <2>3
  <2>9. Follows(o, a, x) /\ Begins(o, a, d.state, le) => After(o, a, xq)
    BY <2>5, <2>6, <2>8 DEF After, Follows
  <2> HIDE DEF z
  <2>10. Kempt(z.d[o]) /\ (Follows(o, a, x) /\ Begins(o, a, d.state, le) => After(o, a, z))
    BY <2>5, <2>7, <2>9, <1>5
  <2> QED BY <2>10 DEF z, d
<1> QED BY <1>1, <1>3, <1>4, <1>5

(* A pulse in a window of a sweep.                                         *)
LEMMA CaptureFollows ==
  ASSUME NEW x, Good(x), NEW o \in Objects, NEW a, NEW s \in Sensors, NEW le \in Light
  PROVE  LET y == CaptureSweep(x, o, s, le)
         IN  /\ Kempt(x.d[o]) => Kempt(y.d[o])
             /\ Follows(o, a, x) => After(o, a, y)
<1> DEFINE d == x.d[o]
           w == [d.sweep EXCEPT ![s] = le]
           c == IF le.length > Ticks(3000) THEN d.confidence - 1 ELSE d.confidence
           m == [d EXCEPT !.sweep = w, !.confidence = c]
           xm == [x EXCEPT !.d[o] = m]
           y == CaptureSweep(x, o, s, le)
<1>1. d \in Memory /\ x \in States
  BY DEF Good, Within
<1>2. y = x \/ y = xm
  <2>1. [d EXCEPT !.sweep[s] = le, !.confidence = c] = m
    BY <1>1 DEF Memory
  <2> HIDE DEF m
  <2> QED BY <2>1 DEF CaptureSweep
<1> HIDE DEF y
<1>3. CASE y = x
  BY <1>3 DEF After, y
<1>4. CASE y = xm
  <2> HIDE DEF d, w, c
  <2>1. Same(d, m)
    BY <1>1 DEF Same, Memory
  <2> HIDE DEF m
  <2>2. xm.d[o] = m /\ xm.mode60 = x.mode60
    BY <1>1 DEF States
  <2> HIDE DEF xm
  <2>3. (Kempt(d) => Kempt(xm.d[o])) /\ (Follows(o, a, x) => Follows(o, a, xm))
    BY <2>1, <2>2, SameMoves DEF d
  <2> QED BY <2>3, <1>4 DEF After, y, d
<1> QED BY <1>2, <1>3, <1>4

(* A pulse, when the state is known: it is put in a window, the windows up *)
(* to it are left, and it is registered there.                             *)
LEMMA PropagateFollows ==
  ASSUME World, NEW x, Good(x), NEW o \in Objects, x.d[o].state \in 1 .. 12, Tidy(x.d[o]),
         NEW a \in Int, NEW s \in Sensors, NEW le \in Light
  PROVE  LET y == PropagateState(x, o, s, le)
             k == Found(x.d[o], Lh[x.d[o].state], le)
         IN  /\ Kempt(y.d[o])
             /\ Follows(o, a, x) /\ (le.of # None => k \in Syncs /\ Begins(o, a, k, le)) => After(o, a, y)
<1> DEFINE d == x.d[o]
           k == FindByOffset(ApplyModOffset(Centre(le), d.mod[Lh[d.state]], EndOfMod(x.mode60))).state
           y == IF k = d.state THEN x ELSE ProcessStateChange(x, o, k)
           z == PropagateState(x, o, s, le)
           f == Found(d, Lh[d.state], le)
           Right == Follows(o, a, x) /\ (le.of # None => f \in Syncs /\ Begins(o, a, f, le))
<1>1. d \in Memory /\ x \in States /\ d.state \in 1 .. 12
  BY SMTT(30) DEF Good, Within
<1>2. k \in 1 .. 13
  <2>1. d.mod[Lh[d.state]] \in Int
    <3>1. d.mod \in [{0, 1} -> Timestamps]
      BY <1>1 DEF Memory
    <3>2. Lh[d.state] \in {0, 1}
      BY <1>1, LhType
    <3> QED BY <3>1, <3>2, Constants DEF Timestamps
  <2>2. x.mode60 \in BOOLEAN
    BY <1>1 DEF States
  <2> QED BY <2>1, <2>2, CentreType, WindowFound
<1>3. Follows(o, a, x) => k = f
  BY DEF Follows, Found, Group
<1>4. z = IF IsSweep(y.d[o].state) THEN CaptureSweep(y, o, s, le) ELSE RunACodeCapture(y, o, le)
  BY DEF PropagateState
<1> HIDE DEF k, f, z
<1>5. Good(y)
  BY <1>2, ProcessStep, StepSelf DEF Step
<1>6. /\ Kempt(y.d[o]) /\ Tidy(y.d[o]) /\ y.d[o].state = (IF k = 13 THEN 1 ELSE k)
      /\ Follows(o, a, x) => Follows(o, a, y)
  <2>1. CASE k = d.state
    <3>1. y = x
      BY <2>1
    <3> HIDE DEF y
    <3> QED BY <3>1, <2>1, <1>1 DEF Kempt, Unknown
  <2>2. CASE k # d.state
    <3>1. y = ProcessStateChange(x, o, k)
      BY <2>2
    <3> HIDE DEF y
    <3>2. /\ Kempt(y.d[o]) /\ y.d[o].state = (IF k = 13 THEN 1 ELSE k)
          /\ Follows(o, a, x) => Follows(o, a, y)
      BY <3>1, <1>2, ChangeFollows
    <3> QED BY <3>2 DEF Kempt
  <2> QED BY <2>1, <2>2
<1> HIDE DEF y
<1>7. y.d[o].state \in 1 .. 12
  BY <1>2, <1>6
<1>8. ASSUME Right PROVE Follows(o, a, y) /\ Begins(o, a, y.d[o].state, le)
  <2>1. Follows(o, a, y) /\ k = f
    BY <1>3, <1>6, <1>8
  <2>2. CASE le.of = None
    BY <2>1, <2>2 DEF Begins
  <2>3. CASE le.of # None
    <3>1. k \in Syncs /\ Begins(o, a, k, le)
      BY <2>1, <2>3, <1>8
    <3>2. y.d[o].state = k
      BY <3>1, <1>6 DEF Syncs
    <3> QED BY <3>1, <3>2, <2>1
  <2> QED BY <2>2, <2>3
<1> HIDE DEF Right
<1>9. CASE IsSweep(y.d[o].state)
  <2>1. z = CaptureSweep(y, o, s, le)
    BY <1>4, <1>9
  <2>2. Kempt(z.d[o]) /\ (Follows(o, a, y) => After(o, a, z))
    BY <2>1, <1>5, <1>6, CaptureFollows
  <2> QED BY <2>2, <1>8 DEF z, Right, f, d
<1>10. CASE ~IsSweep(y.d[o].state)
  <2>1. z = RunACodeCapture(y, o, le)
    BY <1>4, <1>10
  <2>2. Kempt(z.d[o]) /\ (Follows(o, a, y) /\ Begins(o, a, y.d[o].state, le) => After(o, a, z))
    BY <2>1, <1>5, <1>6, <1>7, ACodeFollows
  <2> QED BY <2>2, <1>8 DEF z, Right, f, d
<1> QED BY <1>9, <1>10

-----------------------------------------------------------------------------
(* Finding the state: what it is found from is genuine                     *)

Ready(o, m) ==
  /\ Tidy(m)
  /\ m.state = Unknown => /\ \A i \in 1 .. Len(m.history) : Genuine(o, m.history[i])
                          /\ Genuine(o, LastSync(m))

\* Who has given up has nothing to find a state from.
LEMMA KemptReady ==
  ASSUME NEW o, NEW m, Kempt(m)
  PROVE  Ready(o, m)
<1>1. CASE m.state = Unknown
  <2>1. m.history = <<>> /\ m.count = 0
    BY <1>1 DEF Kempt, Lost
  <2>2. Len(m.history) = 0
    BY <2>1, EmptySeq
  <2>3. \A i \in 1 .. Len(m.history) : Genuine(o, m.history[i])
    BY <2>2
  <2>4. Genuine(o, LastSync(m))
    BY <2>1 DEF LastSync, NoLight, Genuine
  <2> QED BY <2>3, <2>4 DEF Ready, Kempt
<1>2. CASE m.state # Unknown
  BY <1>2 DEF Ready, Kempt
<1> QED BY <1>1, <1>2

LEMMA SameReady ==
  ASSUME NEW o, NEW m, NEW n, Same(m, n), Ready(o, m)
  PROVE  Ready(o, n)
<1>1. LastSync(n) = LastSync(m)
  BY DEF Same, LastSync
<1> QED BY <1>1 DEF Same, Ready, Tidy

\* A history of lighthouses' syncs stays one.
LEMMA HistoryGenuine ==
  ASSUME NEW o, NEW h \in Seq(Light), \A i \in 1 .. Len(h) : Genuine(o, h[i]), NEW l \in Light, Genuine(o, l)
  PROVE  \A i \in 1 .. Len(AddSyncHistory(h, l)) : Genuine(o, AddSyncHistory(h, l)[i])
<1>1. ASSUME NEW k \in Seq(Light), \A i \in 1 .. Len(k) : Genuine(o, k[i])
      PROVE  \A i \in 1 .. Len(Append(k, l)) : Genuine(o, Append(k, l)[i])
  <2> SUFFICES ASSUME NEW i \in 1 .. Len(Append(k, l)) PROVE Genuine(o, Append(k, l)[i])
    OBVIOUS
  <2>1. Len(Append(k, l)) = Len(k) + 1 /\ Len(k) \in Nat
    BY AppendProperties
  <2>2. CASE i = Len(k) + 1
    BY <2>2, AppendProperties
  <2>3. CASE i # Len(k) + 1
    <3>1. i \in 1 .. Len(k)
      BY <2>1, <2>3
    <3>2. Append(k, l)[i] = k[i]
      BY <3>1, AppendProperties
    <3> QED BY <3>1, <3>2, <1>1
  <2> QED BY <2>2, <2>3
<1>2. CASE l.length = 0
  BY <1>2 DEF AddSyncHistory
<1>3. CASE l.length # 0 /\ Len(h) < HistoryLen
  <2>1. AddSyncHistory(h, l) = Append(h, l)
    BY <1>3, SMTT(30) DEF AddSyncHistory
  <2> QED BY <2>1, <1>1
<1>4. CASE l.length # 0 /\ ~(Len(h) < HistoryLen)
  <2>1. AddSyncHistory(h, l) = Append(Tail(h), l)
    BY <1>4 DEF AddSyncHistory
  <2>2. h # <<>> /\ Len(h) \in Nat
    BY <1>4, Constants, EmptySeq
  <2>3. Tail(h) \in Seq(Light) /\ Len(Tail(h)) = Len(h) - 1 /\ \A i \in 1 .. Len(Tail(h)) : Tail(h)[i] = h[i + 1]
    BY <2>2, HeadTailProperties
  <2>4. \A i \in 1 .. Len(Tail(h)) : Genuine(o, Tail(h)[i])
    <3> SUFFICES ASSUME NEW i \in 1 .. Len(Tail(h)) PROVE Genuine(o, Tail(h)[i])
      OBVIOUS
    <3>1. i + 1 \in 1 .. Len(h)
      BY <2>2, <2>3
    <3>2. Tail(h)[i] = h[i + 1]
      BY <2>3
    <3> QED BY <3>1, <3>2
  <2> QED BY <2>1, <2>3, <2>4, <1>1
<1> QED BY <1>2, <1>3, <1>4

\* What EndSync finds: the state is set by who knows where the cycle starts, if the
\* syncs tell.
LEMMA LockFollows ==
  ASSUME World, Clockwork, NEW x, Good(x), NEW o \in Objects,
         NEW h \in Seq(Light), Len(h) = HistoryLen, \A i \in 1 .. HistoryLen : Genuine(o, h[i]),
         NEW s \in Syncs, NEW b \in BOOLEAN, b => s < B0,
         \A i \in 1 .. HistoryLen : Inlier(h[i], ModFor(h[HistoryLen], s), b),
         x.d[o].mod = [l \in {0, 1} |-> ModFor(h[HistoryLen], s)],
         x.d[o].base = [l \in {0, 1} |-> h[HistoryLen].of - Offset[s]],
         x.mode60 = b, Telling(o, h)
  PROVE  \E a \in Int : Shift(a) /\ x.mode60 = world60 /\ Bases(o, a, x.d[o])
<1> DEFINE last == h[HistoryLen]
           t == last.of
           m == x.d[o]
<1>1. boot[o] \in Int /\ world60 \in BOOLEAN /\ sight \subseteq {0, 1}
  BY DisambiguatorAssumption DEF World, Clockwork
<1>2. b = world60 /\ Aligned(t, s)
  BY <1>1, GuessRight
<1>3. PICK a \in Int : Shift(a) /\ (t - Offset[s] + a) % Group = 0
  BY <1>2 DEF Aligned
<1>4. last \in Light /\ Genuine(o, last)
  <2>1. HistoryLen \in 1 .. HistoryLen
    BY Constants
  <2> QED BY <2>1
<1>5. t # None
  BY DEF Telling
<1> HIDE DEF last
<1>6. t \in Nat /\ t <= now /\ last.timestamp = Stamp(o, t)
  BY <1>4, <1>5 DEF Genuine, Light
<1>7. Offset[s] \in Nat /\ now \in Nat
  <2>1. s \in 1 .. 13
    BY DEF Syncs
  <2> QED BY <2>1, OffsetTable DEF World
<1> DEFINE c == t - Offset[s]
<1>8. c <= now /\ (c + a) % Group = 0
  <2>1. c <= now
    <3> HIDE DEF t
    <3> QED BY <1>6, <1>7
  <2> QED BY <2>1, <1>3
<1>9. ModFor(last, s) = Stamp(o, c)
  <2>1. t \in Int /\ Offset[s] \in Int
    BY <1>6, <1>7
  <2> HIDE DEF t
  <2>2. (Stamp(o, t) - Offset[s]) % Clock = Stamp(o, t - Offset[s])
    BY <1>1, <2>1, StartKept
  <2> QED BY <2>2, <1>6 DEF ModFor
<1>10. \A l \in {0, 1} : m.base[l] = c /\ m.mod[l] = ModFor(last, s)
  BY DEF last
<1> HIDE DEF c, m
<1>11. Bases(o, a, m)
  BY <1>8, <1>9, <1>10 DEF Bases
<1> QED BY <1>2, <1>3, <1>11 DEF m

(* A sync has ended while the state is looked for: the state found, if any,*)
(* is right, if the syncs it is found from tell where the cycle is.        *)
LEMMA EndSyncRight ==
  ASSUME World, Clockwork, NEW x, Good(x), NEW o \in Objects, x.d[o].state = Unknown, Ready(o, x.d[o])
  PROVE  LET y == EndSync(x, o)
         IN  /\ Ready(o, y.d[o])
             /\ y.d[o].state # Unknown /\ Telling(o, y.d[o].history)
                  => \E a \in Int : Shift(a) /\ Follows(o, a, y)
<1> DEFINE m == x.d[o]
           h == AddSyncHistory(m.history, LastSync(m))
           G == Guesses(x, h)
           g == FirstGuess(G)
           v == ModFor(h[HistoryLen], g[1])
           w == [l \in {0, 1} |-> v]
           c == 0
           e == [l \in {0, 1} |-> h[HistoryLen].of - Offset[g[1]]]
           found == [m EXCEPT !.history = h, !.mod = w, !.confidence = c, !.base = e]
           other == [m EXCEPT !.history = h]
           z == EndSync(x, o)
<1>1. Within(m) /\ x \in States
  BY DEF Good
<1>2. m \in Memory /\ Len(m.history) <= HistoryLen
  BY <1>1 DEF Within
<1>3. m.history \in Seq(Light) /\ LastSync(m) \in Light
  BY <1>2, LastSyncType DEF Memory
<1>4. (\A i \in 1 .. Len(m.history) : Genuine(o, m.history[i])) /\ Genuine(o, LastSync(m)) /\ Tidy(m)
      /\ m.state = Unknown
  BY DEF Ready
<1> HIDE DEF m
<1>5. h \in Seq(Light) /\ Len(h) <= HistoryLen
  BY <1>2, <1>3, HistoryType
<1>6. \A i \in 1 .. Len(h) : Genuine(o, h[i])
  BY <1>3, <1>4, HistoryGenuine
<1> HIDE DEF h
<1>7. CASE G = {}
  <2>1. z = [x EXCEPT !.d[o] = other]
    BY <1>7 DEF EndSync, other, m, h
  <2> HIDE DEF z
  <2>2. /\ other.history = h /\ other.state = m.state /\ other.count = m.count
        /\ other.longest = m.longest /\ other.first = m.first /\ other.of = m.of
    BY <1>2 DEF Memory
  <2> HIDE DEF other
  <2>3. Ready(o, other)
    <3>1. LastSync(other) = LastSync(m)
      BY <2>2 DEF LastSync
    <3> QED BY <3>1, <2>2, <1>4, <1>6 DEF Ready, Tidy
  <2>4. z.d[o] = other
    BY <2>1, <1>1 DEF States
  <2>5. Ready(o, z.d[o]) /\ z.d[o].state = Unknown
    BY <2>2, <2>3, <2>4, <1>4
  <2> QED BY <2>5 DEF z
<1>8. CASE G # {}
  <2>1. G \subseteq Syncs \X BOOLEAN
    BY DEF Guesses
  <2>2. g \in G
    BY <1>8, <2>1, FirstOf
  <2>3. g[1] \in Syncs /\ g[2] \in BOOLEAN
    BY <2>1, <2>2
  <2>4. Len(h) = HistoryLen
    <3>1. ~(Len(h) < HistoryLen)
      BY <1>8 DEF Guesses
    <3> QED BY <3>1, <1>5, Constants
  <2>5. /\ BestKnown(x) => g[2] = x.mode60
        /\ g[2] => g[1] < B0
        /\ \A k \in 1 .. HistoryLen : Inlier(h[k], v, g[2])
    BY <2>2 DEF Guesses
  <2> HIDE DEF g, G
  <2>6. h[HistoryLen] \in Light
    <3>1. HistoryLen \in 1 .. Len(h)
      BY <2>4, Constants
    <3> QED BY <3>1, <1>5
  <2>7. g[1] \in 1 .. 13
    BY <2>3 DEF Syncs
  <2>8. v \in Timestamps
    BY <2>6, <2>7, ModForType
  <2> HIDE DEF v
  <2>9. w \in [{0, 1} -> Timestamps]
    BY <2>8
  <2>10. c \in Int /\ c <= MaxConfidence
    BY Constants
  <2>18. e \in [{0, 1} -> Int]
    <3>1. h[HistoryLen].of \in Int /\ Offset[g[1]] \in Int
      BY <2>6, <2>7, OffsetTable DEF Light, None
    <3> QED BY <3>1
  <2> HIDE DEF w, c, e
  <2>11. /\ found \in Memory /\ found.history = h /\ found.confidence = c
         /\ found.mod = w /\ found.base = e
    BY <1>2, <1>5, <2>9, <2>10, <2>18 DEF Memory
  <2>12. Within(found)
    BY <2>11, <2>10, <1>5 DEF Within
  <2> HIDE DEF found
  <2> DEFINE y == [x EXCEPT !.d[o] = found, !.mode60 = g[2]]
  <2>13. Good(y)
    <3>1. Kept(x, o) => g[2] = x.mode60
      BY <2>5 DEF Kept, BestKnown
    <3>2. Step(x, y, o)
      BY <2>3, <2>12, <3>1, PutMode
    <3> HIDE DEF y
    <3> QED BY <3>2 DEF Step
  <2>14. z = SetState(y, o, g[1])
    BY <1>8 DEF EndSync, Lock, G, g, v, w, c, e, found, m, h
  <2>15. y.d[o] = found /\ y.mode60 = g[2]
    BY <1>1 DEF States
  <2> HIDE DEF y, z
  <2>16. /\ z.d[o].history = h /\ Ready(o, z.d[o])
    <3>1. g[1] \in 0 .. 13 /\ g[1] # Unknown
      BY <2>7 DEF Unknown
    <3>2. z.d[o].history = h
      <4> DEFINE k == g[1]
      <4>1. k \in 0 .. 13 /\ k # Unknown /\ z = SetState(y, o, k)
        BY <3>1, <2>14
      <4> HIDE DEF k
      <4>2. z.d[o].history = y.d[o].history
        BY <4>1, <2>13, SetStateIs, SMTT(30)
      <4> QED BY <4>2, <2>11, <2>15
    <3>3. Kempt(z.d[o])
      BY <2>7, <2>13, <2>14, StateSet
    <3> QED BY <3>2, <3>3, KemptReady
  <2>17. ASSUME Telling(o, h) PROVE \E a \in Int : Shift(a) /\ Follows(o, a, z)
    <3>1. PICK a \in Int : Shift(a) /\ y.mode60 = world60 /\ Bases(o, a, y.d[o])
      <4>1. \A i \in 1 .. HistoryLen : Genuine(o, h[i]) /\ Inlier(h[i], ModFor(h[HistoryLen], g[1]), g[2])
        BY <2>4, <2>5, <1>6 DEF v
      <4>2. /\ y.d[o].mod = [l \in {0, 1} |-> ModFor(h[HistoryLen], g[1])]
            /\ y.d[o].base = [l \in {0, 1} |-> h[HistoryLen].of - Offset[g[1]]]
        BY <2>11, <2>15 DEF w, v, e
      <4>3. y.mode60 = g[2]
        BY <2>15
      <4> QED BY <4>1, <4>2, <4>3, <2>3, <2>4, <2>5, <2>13, <2>17, <1>5, LockFollows
    <3>2. Follows(o, a, z)
      BY <3>1, <2>7, <2>13, <2>14, KnownSet
    <3> QED BY <3>1, <3>2
  <2> QED BY <2>16, <2>17 DEF z
<1> QED BY <1>7, <1>8

\* A sync that is dropped, and one that is registered, while the state is looked for.
LEMMA ResetReady ==
  ASSUME NEW o, NEW m \in Memory, Ready(o, m)
  PROVE  /\ Ready(o, ResetSync(m)) /\ ResetSync(m) \in Memory
         /\ ResetSync(m).state = m.state /\ ResetSync(m).history = m.history
<1> DEFINE r == ResetSync(m)
           a == 0
           b == 0
           c == 0
           e == None
<1>1. a \in Timestamps /\ b \in Int /\ c \in Nat /\ e \in Nat \cup {None}
  BY Constants DEF Timestamps
<1>2. r = [m EXCEPT !.first = a, !.longest = b, !.count = c, !.of = e]
  BY DEF ResetSync
<1> HIDE DEF r
<1>3. r.longest = 0 /\ r.count = 0 /\ r.state = m.state /\ r.history = m.history
  BY <1>2 DEF Memory
<1> HIDE DEF a, b, c, e
<1>4. r \in Memory
  BY <1>1, <1>2 DEF Memory
<1>5. Ready(o, r)
  <2>1. Genuine(o, LastSync(r))
    BY <1>3 DEF LastSync, NoLight, Genuine
  <2> QED BY <2>1, <1>3 DEF Ready, Tidy
<1> QED BY <1>3, <1>4, <1>5 DEF r

LEMMA RegisterReady ==
  ASSUME NEW o, NEW m \in Memory, m.state = Unknown, Ready(o, m),
         NEW le \in Light, Genuine(o, le)
  PROVE  /\ Ready(o, RegisterSync(m, le))
         /\ RegisterSync(m, le).state = m.state /\ RegisterSync(m, le).history = m.history
<1> DEFINE r == RegisterSync(m, le)
           z == LastSync(r)
           s == LastSync(m)
<1>1. /\ r.state = m.state /\ r.history = m.history
      /\ r.count = m.count + 1 /\ r.of = Registered(m, le)
      /\ r.first = (IF le.timestamp < m.first \/ m.longest = 0 THEN le.timestamp ELSE m.first)
      /\ r.longest = (IF le.length > m.longest THEN le.length ELSE m.longest)
  BY RegisterIs
<1> HIDE DEF r
<1>2. r.count > 0 /\ m.count \in Nat
  BY <1>1 DEF Memory
<1>3. z.timestamp = r.first /\ z.length = r.longest /\ z.of = r.of
  BY <1>2 DEF LastSync
<1>4. Genuine(o, s) /\ Tidy(m) /\ \A i \in 1 .. Len(m.history) : Genuine(o, m.history[i])
  BY DEF Ready
<1> HIDE DEF z
<1>5. Genuine(o, z)
  <2> SUFFICES ASSUME r.of # None PROVE Genuine(o, z)
    BY <1>3 DEF Genuine
  <2>1. le.of # None /\ r.of = le.of
    BY <1>1 DEF Registered
  <2>2. /\ le.of <= now /\ le.timestamp = Stamp(o, le.of)
        /\ \E q \in Nat, e \in {0, 1} : SyncAt(le.of, le.length, q, e)
    BY <2>1 DEF Genuine
  <2>3. CASE m.count = 0
    <3>1. m.longest = 0 /\ r.first = le.timestamp
      BY <1>1, <1>4, <2>3 DEF Tidy
    <3>2. le.length >= 2 /\ le.length \in Int
      <4>1. PICK q \in Nat, e \in {0, 1} : SyncAt(le.of, le.length, q, e)
        BY <2>2
      <4> DEFINE u == CodeAt(q, e)
      <4>2. le.length \in {AcodeTiming(u), AcodeTiming(u + 2)}
        BY <4>1 DEF SyncAt
      <4>3. u \in {0, 1, 4, 5}
        BY CodeIs
      <4> HIDE DEF u
      <4>4. u \in 0 .. 7 /\ u + 2 \in 0 .. 7
        BY <4>3
      <4> QED BY <4>2, <4>4, LengthFits
    <3>3. r.longest = le.length
      BY <1>1, <3>1, <3>2
    <3> QED BY <3>1, <3>3, <2>1, <2>2, <1>3 DEF Genuine
  <2>4. CASE m.count # 0
    <3>1. s.timestamp = m.first /\ s.length = m.longest /\ s.of = m.of
      BY <2>4 DEF LastSync
    <3>2. m.of # None /\ m.of = le.of
      BY <1>1, <2>4 DEF Registered
    <3>3. m.first = Stamp(o, m.of) /\ \E q \in Nat, e \in {0, 1} : SyncAt(m.of, m.longest, q, e)
      BY <1>4, <3>1, <3>2 DEF Genuine
    <3>4. r.first = Stamp(o, le.of)
      BY <1>1, <2>2, <3>2, <3>3
    <3>5. r.longest = le.length \/ r.longest = m.longest
      BY <1>1
    <3> QED BY <3>2, <3>3, <3>4, <3>5, <2>1, <2>2, <1>3 DEF Genuine
  <2> QED BY <2>3, <2>4
<1>6. Ready(o, r)
  BY <1>1, <1>2, <1>4, <1>5 DEF Ready, Tidy, z
<1> QED BY <1>1, <1>6 DEF r

(* A pulse while the state is looked for.                                  *)
LEMMA AttemptRight ==
  ASSUME World, Clockwork, NEW x, Good(x), NEW o \in Objects, x.d[o].state = Unknown, Ready(o, x.d[o]),
         NEW le \in Light, Genuine(o, le)
  PROVE  LET y == AttemptFindState(x, o, le)
         IN  /\ Ready(o, y.d[o])
             /\ y.d[o].state # Unknown /\ Telling(o, y.d[o].history)
                  => \E a \in Int : Shift(a) /\ Follows(o, a, y)
<1> DEFINE d      == x.d[o]
           isSync == le.length \in Ticks(2250) .. Ticks(6750)
           anew   == isSync => (~d.lastWasSync \/ ~Overlaps(LastSync(d), le))
           y      == IF d.lastWasSync /\ anew THEN EndSync(x, o) ELSE x
           e      == IF anew THEN ResetSync(y.d[o]) ELSE y.d[o]
           r      == RegisterSync(e, le)
           m      == [y.d[o] EXCEPT !.lastWasSync = FALSE]
           n      == [r EXCEPT !.lastWasSync = TRUE]
           ym     == [y EXCEPT !.d[o] = m]
           yn     == [y EXCEPT !.d[o] = n]
           z      == AttemptFindState(x, o, le)
<1>1. /\ Good(y) /\ Ready(o, y.d[o])
      /\ y.d[o].state # Unknown /\ Telling(o, y.d[o].history)
           => \E a \in Int : Shift(a) /\ Follows(o, a, y)
  <2>1. CASE d.lastWasSync /\ anew
    <3>1. y = EndSync(x, o)
      BY <2>1
    <3> HIDE DEF y
    <3>2. Good(y)
      BY <3>1, EndSyncStep DEF Step
    <3> QED BY <3>1, <3>2, EndSyncRight
  <2>2. CASE ~(d.lastWasSync /\ anew)
    <3>1. y = x
      BY <2>2
    <3> HIDE DEF y
    <3> QED BY <3>1
  <2> QED BY <2>1, <2>2
<1>2. \/ y.d[o].state # Unknown /\ z = y
      \/ y.d[o].state = Unknown /\ z = ym
      \/ y.d[o].state = Unknown /\ z = yn
  BY DEF AttemptFindState
<1> HIDE DEF y, z, anew, isSync
<1>3. y.d[o] \in Memory /\ y \in States
  BY <1>1 DEF Good, Within
<1>4. CASE y.d[o].state # Unknown /\ z = y
  BY <1>1, <1>4 DEF z
<1>5. CASE y.d[o].state = Unknown /\ z = ym
  <2>1. Same(y.d[o], m)
    BY <1>3 DEF Same, Memory
  <2> HIDE DEF m
  <2>2. ym.d[o] = m
    BY <1>3 DEF States
  <2> HIDE DEF ym
  <2>3. Ready(o, m)
    BY <2>1, <1>1, SameReady
  <2>4. m.state = Unknown
    BY <2>1, <1>5 DEF Same
  <2>5. Ready(o, z.d[o]) /\ z.d[o].state = Unknown
    BY <2>2, <2>3, <2>4, <1>5
  <2> QED BY <2>5 DEF z
<1>6. CASE y.d[o].state = Unknown /\ z = yn
  <2>1. Ready(o, e) /\ e \in Memory /\ e.state = Unknown
    BY <1>1, <1>3, <1>6, ResetReady
  <2> HIDE DEF e
  <2>2. Ready(o, r) /\ r.state = Unknown
    BY <2>1, RegisterReady
  <2>3. Same(r, n)
    BY DEF Same, RegisterSync
  <2>4. yn.d[o] = n
    BY <1>3 DEF States
  <2> HIDE DEF n, r, yn
  <2>5. Ready(o, n)
    BY <2>2, <2>3, SameReady
  <2>6. n.state = Unknown
    BY <2>2, <2>3 DEF Same
  <2>7. Ready(o, z.d[o]) /\ z.d[o].state = Unknown
    BY <2>4, <2>5, <2>6, <1>6
  <2> QED BY <2>7 DEF z
<1> QED BY <1>2, <1>4, <1>5, <1>6

LEMMA HeedSame ==
  ASSUME NEW x, Good(x), NEW o \in Objects, NEW le \in Light
  PROVE  /\ Same(x.d[o], Heed(x, o, le).d[o]) /\ Heed(x, o, le).mode60 = x.mode60
         /\ Heed(x, o, le).d[o].sweep = x.d[o].sweep
<1> DEFINE d == x.d[o]
           l == le.timestamp
           m == [d EXCEPT !.last = l]
           y == [x EXCEPT !.d[o] = m]
<1>1. d \in Memory /\ x \in States
  BY DEF Good, Within
<1>2. Heed(x, o, le) = y
  BY DEF Heed
<1> HIDE DEF d, l
<1>3. Same(d, m) /\ m.sweep = d.sweep
  BY <1>1 DEF Same, Memory
<1> HIDE DEF m
<1>4. y.d[o] = m /\ y.mode60 = x.mode60
  BY <1>1 DEF States
<1> QED BY <1>2, <1>3, <1>4 DEF d

\* If le is a sync, who is a off puts it in the window that it starts.
Placed(o, a, m, le) ==
  le.of # None => Found(m, Lh[m.state], le) \in Syncs /\ Begins(o, a, Found(m, Lh[m.state], le), le)

(* What a pulse does to what its object takes the cycle for.               *)
Right(o, x, z, le) ==
  /\ Ready(o, z.d[o])
  /\ x.d[o].state = Unknown /\ z.d[o].state # Unknown /\ Telling(o, z.d[o].history)
       => \E a \in Int : Shift(a) /\ Follows(o, a, z)
  /\ \A a \in Int : Follows(o, a, x) /\ Placed(o, a, x.d[o], le) => After(o, a, z)

LEMMA SameRight ==
  ASSUME NEW o, NEW x, NEW y, NEW z, NEW le, Right(o, x, y, le), Same(y.d[o], z.d[o]), z.mode60 = y.mode60
  PROVE  Right(o, x, z, le)
<1>1. Ready(o, z.d[o])
  BY SameReady DEF Right
<1>2. \A a : (Follows(o, a, y) => Follows(o, a, z)) /\ (After(o, a, y) => After(o, a, z))
  BY SameMoves
<1>3. z.d[o].state = y.d[o].state /\ z.d[o].history = y.d[o].history
  BY DEF Same
<1> QED BY <1>1, <1>2, <1>3 DEF Right

(* A pulse, in whatever state the object is.                               *)
LEMMA PulseRight ==
  ASSUME World, Clockwork, NEW x, Good(x), NEW o \in Objects, Ready(o, x.d[o]),
         NEW s \in Sensors, NEW le \in Light, Genuine(o, le)
  PROVE  Right(o, x, StateBased(x, o, s, le), le)
<1> DEFINE d      == x.d[o]
           diff   == Difference(le.timestamp, d.last)
           silent == IF diff > Second THEN (diff \div Second) * Decay ELSE 0
           v      == d.confidence - silent
           m      == [d EXCEPT !.confidence = v]
           y      == [x EXCEPT !.d[o] = m]
           u      == d.stabalize + 1
           n      == [d EXCEPT !.stabalize = u]
           w      == [x EXCEPT !.d[o] = n]
           p      == AttemptFindState(x, o, le)
           q      == PropagateState(y, o, s, le)
           z      == StateBased(x, o, s, le)
<1>1. Within(d) /\ d \in Memory /\ x \in States
  BY DEF Good, Within
<1>2. Right(o, x, x, le)
  BY DEF Right, After, Follows, Unknown
<1>3. CASE d.stabalize < Warmup
  <2>1. z = w
    BY <1>3 DEF StateBased
  <2> HIDE DEF z, d, u
  <2>2. Same(d, n)
    BY <1>1 DEF Same, Memory
  <2> HIDE DEF n
  <2>3. w.d[o] = n /\ w.mode60 = x.mode60
    BY <1>1 DEF States
  <2> HIDE DEF w
  <2>4. Right(o, x, z, le)
    BY <1>2, <2>1, <2>2, <2>3, SameRight DEF d
  <2> QED BY <2>4 DEF z
<1>4. CASE ~(d.stabalize < Warmup) /\ d.state = Unknown
  <2>1. z = Heed(p, o, le)
    BY <1>4 DEF StateBased
  <2>2. Good(p)
    BY AttemptStep DEF Step
  <2>3. Ready(o, p.d[o]) /\ (p.d[o].state # Unknown /\ Telling(o, p.d[o].history)
                              => \E a \in Int : Shift(a) /\ Follows(o, a, p))
    BY <1>4, AttemptRight
  <2> HIDE DEF p, z
  <2>4. \A a : ~Follows(o, a, x)
    BY <1>4 DEF Follows, Unknown
  <2>5. Right(o, x, p, le)
    BY <2>3, <2>4 DEF Right
  <2>6. Same(p.d[o], z.d[o]) /\ z.mode60 = p.mode60
    BY <2>1, <2>2, HeedSame
  <2>7. Right(o, x, z, le)
    BY <2>5, <2>6, SameRight
  <2> QED BY <2>7 DEF z
<1>5. CASE ~(d.stabalize < Warmup) /\ d.state # Unknown
  <2>1. z = SetState(x, o, Unknown) \/ z = Heed(q, o, le)
    BY <1>5 DEF StateBased
  <2>2. v \in Int /\ v <= MaxConfidence
    <3>1. diff \in Nat
      <4>1. le.timestamp \in 0 .. Clock - 1 /\ d.last \in 0 .. Clock - 1
        BY <1>1 DEF Light, Memory, Timestamps
      <4> QED BY <4>1, Constants DEF Difference, Abs
    <3> HIDE DEF diff
    <3>2. Second \in Nat \ {0} /\ Decay \in Nat
      BY Constants
    <3> DEFINE e == diff \div Second
    <3>3. e \in Nat
      BY <3>1, <3>2
    <3> HIDE DEF e
    <3>4. e * Decay \in Nat
      BY <3>2, <3>3
    <3>5. silent = IF diff > Second THEN e * Decay ELSE 0
      BY DEF e
    <3>6. silent \in Nat
      BY <3>4, <3>5
    <3> HIDE DEF silent
    <3>7. d.confidence \in Int /\ d.confidence <= MaxConfidence
      BY <1>1 DEF Within, Memory
    <3> QED BY <3>6, <3>7, Constants
  <2>3. d.state \in 1 .. 12
    BY <1>1, <1>5 DEF Memory, Unknown
  <2> HIDE DEF v
  <2>4. Within(m)
    BY <1>1, <2>2, ConfidenceType
  <2>5. Same(d, m)
    <3> HIDE DEF d
    <3> QED BY <1>1 DEF Same, Memory
  <2> HIDE DEF m
  <2>6. Good(y) /\ y.d[o] = m /\ y.mode60 = x.mode60
    <3>1. Step(x, y, o) /\ y.d[o] = m
      BY <2>4, Put
    <3>2. y.mode60 = x.mode60
      BY <1>1 DEF States
    <3> HIDE DEF y
    <3> QED BY <3>1, <3>2 DEF Step
  <2> HIDE DEF y
  <2>7. m.state = d.state /\ Tidy(m) /\ Found(m, Lh[m.state], le) = Found(d, Lh[d.state], le)
    <3>1. m.state = d.state /\ m.mod = d.mod
      BY <2>5 DEF Same
    <3>2. Tidy(m)
      BY <2>5 DEF Same, Ready, Tidy
    <3> QED BY <3>1, <3>2 DEF Found
  <2>8. CASE z = SetState(x, o, Unknown)
    <3>1. Kempt(z.d[o]) /\ Lost(z.d[o])
      BY <2>8, UnknownSet
    <3> HIDE DEF z
    <3>2. Ready(o, z.d[o])
      BY <3>1, KemptReady
    <3>3. Right(o, x, z, le)
      BY <3>1, <3>2 DEF Right, After, Lost
    <3> QED BY <3>3 DEF z
  <2>9. CASE z = Heed(q, o, le)
    <3>1. y.d[o].state \in 1 .. 12 /\ Tidy(y.d[o])
      BY <2>3, <2>6, <2>7
    <3>2. Good(q)
      BY <2>6, <3>1, PropagateStep DEF Step
    <3>3. \A a \in Int :
            /\ Kempt(q.d[o])
            /\ Follows(o, a, y) /\ (le.of # None => Found(y.d[o], Lh[y.d[o].state], le) \in Syncs
                                       /\ Begins(o, a, Found(y.d[o], Lh[y.d[o].state], le), le))
                 => After(o, a, q)
      BY <2>6, <3>1, PropagateFollows
    <3> HIDE DEF q, z
    <3>4. Kempt(q.d[o])
      BY <3>3, 0 \in Int
    <3>5. Ready(o, q.d[o])
      BY <3>4, KemptReady
    <3>6. \A a \in Int : Follows(o, a, x) /\ Placed(o, a, d, le) => After(o, a, q)
      <4> SUFFICES ASSUME NEW a \in Int, Follows(o, a, x), Placed(o, a, d, le) PROVE After(o, a, q)
        OBVIOUS
      <4>1. Follows(o, a, y)
        BY <2>5, <2>6, SameMoves
      <4>2. le.of # None => Found(y.d[o], Lh[y.d[o].state], le) \in Syncs
                              /\ Begins(o, a, Found(y.d[o], Lh[y.d[o].state], le), le)
        BY <2>6, <2>7 DEF Placed
      <4> QED BY <4>1, <4>2, <3>3
    <3>7. Right(o, x, q, le)
      BY <3>5, <3>6, <1>5 DEF Right
    <3>8. Same(q.d[o], z.d[o]) /\ z.mode60 = q.mode60
      BY <2>9, <3>2, HeedSame
    <3>9. Right(o, x, z, le)
      BY <3>7, <3>8, SameRight
    <3> QED BY <3>9 DEF z
  <2> QED BY <2>1, <2>8, <2>9
<1> QED BY <1>3, <1>4, <1>5

-----------------------------------------------------------------------------
(* The inductive invariant                                                 *)

\* Or one unit before is near.
LEMMA EitherNear ==
  ASSUME world60 \in BOOLEAN, NEW y, NEW t \in Int, Either(y, t)
  PROVE  Near(y, t)
<1> DEFINE g == Group
           u == t - 1
           p == u - t
           q == t - t
           z == -t
<1>1. g \in Nat \ {0} /\ u \in Int /\ z \in Int /\ p = -1 /\ q = 0
  BY GroupType DEF Group
<1>2. y = t % g \/ y = u % g
  BY DEF Either
<1>3. y - t = y + z
  <2>1. y \in Int
    <3> HIDE DEF g, u
    <3> QED BY <1>1, <1>2
  <2> QED BY <2>1
<1>4. p = u + z /\ q = t + z
  OBVIOUS
<1> HIDE DEF g, u, z, p, q
<1>5. (y + z) % g = (t + z) % g \/ (y + z) % g = (u + z) % g
  BY <1>1, <1>2, LaterOf, ZenonT(60)
<1>6. q % g = 0 /\ p % g = g - 1
  <2>1. 0 % g = 0
    BY <1>1
  <2>2. (g - 1) % g = g - 1
    BY <1>1
  <2> DEFINE h == g - 1
             k == -1
  <2>3. h \in Int /\ k \in Int /\ h = -1 + g /\ p = h + k * g
    BY <1>1
  <2> HIDE DEF h, k
  <2>4. (h + k * g) % g = h % g
    BY <2>3, <1>1, ModShift
  <2> QED BY <1>1, <2>1, <2>2, <2>3, <2>4 DEF h
<1>7. (y - t) % g \in {0, g - 1}
  BY <1>3, <1>4, <1>5, <1>6
<1> QED BY <1>7 DEF Near, g

\* Who sees the cycle where it is, is not off.
LEMMA NotOff ==
  ASSUME World, NEW a \in Int, Shift(a), NEW y, Either(y, now + a), Near(y, now)
  PROVE  a = 0
<1> SUFFICES ASSUME a # 0 PROVE FALSE
  OBVIOUS
<1> DEFINE H == Quarter
           P == PulseWindow
           G == Group
           b == a - 1
           c == now + a
           d == c - 1
           z == -now
<1>1. H \in Nat \ {0} /\ P \in Nat /\ P >= 10 /\ H >= 3 * P
  BY Widths
<1>2. a \in {2 * H - P, 2 * H + P} /\ world60 = FALSE
  BY DEF Shift, World
<1>3. G = 4 * H
  BY <1>2, Groups DEF Group
<1>4. now \in Int
  BY DEF World
<1>5. z \in Int /\ c \in Int /\ d \in Int /\ c + z = a /\ d + z = b /\ b \in Int
  BY <1>4
<1>6. y = c % G \/ y = d % G
  BY DEF Either
<1>7. (y - now) % G \in {0, 1, G - 1}
  BY DEF Near
<1> HIDE DEF H, P, G
<1>8. G \in Nat \ {0}
  BY <1>1, <1>3
<1> HIDE DEF z, c, d
<1>9. y - now = y + z
  <2>1. y \in Int
    BY <1>5, <1>6, <1>8
  <2> QED BY <2>1, <1>4 DEF z
<1> HIDE DEF b
<1>10. (y - now) % G = a % G \/ (y - now) % G = b % G
  <2>1. ((c % G) + z) % G = (c + z) % G
    BY <1>5, <1>8, LaterOf
  <2>2. ((d % G) + z) % G = (d + z) % G
    BY <1>5, <1>8, LaterOf
  <2> QED BY <2>1, <2>2, <1>5, <1>6, <1>9
<1>11. a \in 2 .. G - 2 /\ b \in 2 .. G - 2 /\ G > 4
  BY <1>1, <1>2, <1>3 DEF b
<1>12. a % G = a /\ b % G = b
  BY <1>8, <1>11
<1> QED BY <1>7, <1>10, <1>11, <1>12, <1>8

\* A slot later it is the next slot, or the first again.
LEMMA NextSlot ==
  ASSUME World, Clockwork, NEW t, t = now + Window(Slot)
  PROVE  t \in Nat /\ now <= t /\ t % Group = Offset[SlotAt(t)]
<1> DEFINE k == Slot
           x == Offset[k]
           e == Offset[k + 1]
           G == Group
           w == Window(k)
<1>1. k \in 1 .. 12 /\ k \in 1 .. 13 /\ k + 1 \in 1 .. 13
  BY SlotType
<1>2. x \in Nat /\ e \in Nat /\ x < e /\ w = e - x /\ now \in Nat
  BY <1>1, OffsetTable DEF Window, World
<1>3. now % G = x
  BY DEF Clockwork
<1>4. G \in Nat \ {0}
  BY GroupType DEF Group, World
<1>5. PICK j \in {7, 13} : G = Offset[j]
  <2>1. CASE world60 = TRUE
    BY <2>1 DEF Group, EndOfMod, B0
  <2>2. CASE world60 = FALSE
    BY <2>2 DEF Group, EndOfMod, End
  <2> QED BY <2>1, <2>2 DEF World
<1>6. x < G
  BY <1>2, <1>3, <1>4
<1>7. k < j
  <2> SUFFICES ASSUME ~(k < j) PROVE FALSE
    OBVIOUS
  <2>1. j < k \/ j = k
    BY <1>1
  <2>2. j < k => Offset[j] < Offset[k]
    BY <1>1, OffsetsRise
  <2>3. G <= x
    BY <2>1, <2>2, <1>2, <1>4, <1>5
  <2> QED BY <2>3, <1>2, <1>4, <1>6
<1>8. t \in Nat /\ now <= t /\ t = now + w
  BY <1>2
<1>9. t % G = (x + w) % G
  <2>1. w \in Int /\ now \in Int
    BY <1>2
  <2> HIDE DEF x, w, G
  <2>2. ((now % G) + w) % G = (now + w) % G
    BY <2>1, <1>4, LaterOf
  <2> QED BY <2>2, <1>3, <1>8
<1>10. t % G = e % G
  BY <1>2, <1>9
<1>11. CASE k + 1 = j
  <2>1. t % G = 0
    BY <1>4, <1>5, <1>10, <1>11
  <2>2. Offset[1] = 0 /\ Offset[1 + 1] \in Nat /\ Offset[1] < Offset[1 + 1]
    <3>1. Offset[1] = QuarterOf(1) * Quarter + WindowOf(1) * PulseWindow
      BY OnGrid
    <3>2. QuarterOf(1) = 0 /\ WindowOf(1) = 0
      BY DEF QuarterOf, WindowOf
    <3>3. Offset[1] < Offset[1 + 1] /\ Offset[1 + 1] \in Nat
      BY OffsetTable
    <3>4. Quarter \in Nat /\ PulseWindow \in Nat
      BY Widths
    <3> QED BY <3>1, <3>2, <3>3, <3>4
  <2>3. SlotAt(t) = 1
    BY <2>1, <2>2, SlotIs DEF G
  <2> QED BY <2>1, <2>2, <2>3, <1>8
<1>12. CASE k + 1 # j
  <2>1. k + 1 < j /\ k + 1 \in 1 .. 12 /\ j \in 1 .. 13
    BY <1>1, <1>7, <1>12
  <2>2. e < G
    BY <2>1, <1>1, <1>5, OffsetsRise
  <2>3. t % G = e
    <3> HIDE DEF G, e, x, w
    <3>1. e % G = e
      BY <2>2, <1>2, <1>4
    <3> QED BY <3>1, <1>10
  <2>4. Offset[k + 1] < Offset[(k + 1) + 1]
    BY <2>1, OffsetTable
  <2> DEFINE i == k + 1
  <2>5. i \in 1 .. 12 /\ e \in Int /\ e = Offset[i] /\ e < Offset[i + 1]
    BY <2>1, <2>4, <1>2
  <2> HIDE DEF i, e
  <2>6. SlotAt(t) = i
    BY <2>3, <2>5, SlotIs DEF G
  <2> QED BY <2>3, <2>5, <2>6, <1>8
<1> QED BY <1>11, <1>12

\* o follows the cycle where it is, or the one lighthouse it sees for the other, and
\* its cycle is no half of the clock's range old.
Rightly(o) == /\ ~Stale(disamb[o], now)
              /\ \E a \in Int : Shift(a) /\ Follows(o, a, Before)

LockInv ==
  /\ Clockwork
  /\ \A o \in Objects : Ready(o, disamb[o]) /\ (Known(o) /\ ~astray[o] => Rightly(o))

\* What does not change in the world, but the time and what is in sight.
Later == boot' = boot /\ world60' = world60 /\ now \in Nat /\ now' \in Nat /\ now <= now'

\* What was a lighthouse's sync remains one.
LEMMA GenuineLater ==
  ASSUME Later, NEW o, NEW le, le.of \in Nat \cup {None}, Genuine(o, le)
  PROVE  Genuine(o, le)'
<1>1. \A q, r : SyncAt(le.of, le.length, q, r) => SyncAt(le.of, le.length, q, r)'
  BY DEF Later, SyncAt, CodeAt
<1>2. CASE le.of = None
  BY <1>2 DEF Genuine
<1>3. CASE le.of # None
  <2>1. le.of <= now'
    BY <1>3 DEF Genuine, Later
  <2>2. le.timestamp = Stamp(o, le.of)'
    BY <1>3 DEF Genuine, Later, Stamp
  <2>3. PICK q \in Nat, r \in {0, 1} : SyncAt(le.of, le.length, q, r)
    BY <1>3 DEF Genuine
  <2> QED BY <1>1, <2>1, <2>2, <2>3 DEF Genuine
<1> QED BY <1>2, <1>3

\* Who follows the cycle does so as time goes by.
LEMMA FollowsLater ==
  ASSUME Later, NEW o, NEW a, NEW y, y.d[o] = disamb'[o], y.mode60 = mode60', y.d[o] \in Memory,
         Follows(o, a, y)
  PROVE  Follows(o, a, Before)'
<1> DEFINE m == disamb'[o]
<1>1. mode60' = world60' /\ m.state \in 1 .. 12 /\ Group' = Group /\ m \in Memory
  BY DEF Follows, Later, Group
<1>2. \A t : Stamp(o, t)' = Stamp(o, t)
  BY DEF Later, Stamp
<1>3. ASSUME NEW l \in {0, 1}
      PROVE  m.base[l] <= now' /\ m.mod[l] = Stamp(o, m.base[l]) /\ (m.base[l] + a) % Group = 0
  <2>1. m.base[l] <= now /\ m.mod[l] = Stamp(o, m.base[l]) /\ (m.base[l] + a) % Group = 0
    BY DEF Follows, Bases
  <2>2. m.base[l] \in Int
    BY <1>1 DEF Memory
  <2> HIDE DEF m
  <2> QED BY <2>1, <2>2 DEF Later
<1>4. m.count > 0 => /\ m.of # None /\ m.of <= now' /\ m.first = Stamp(o, m.of)
                     /\ (m.of + a) % Group = Offset[m.state]
  <2>1. m.count > 0 => /\ m.of # None /\ m.of <= now /\ m.first = Stamp(o, m.of)
                       /\ (m.of + a) % Group = Offset[m.state]
    BY DEF Follows, Open
  <2>2. m.of \in Int
    BY <1>1 DEF Memory, None
  <2> HIDE DEF m
  <2> QED BY <2>1, <2>2 DEF Later
<1> QED BY <1>1, <1>2, <1>3, <1>4 DEF Follows, Bases, Open, Before, Group, Stamp

LEMMA ReadyLater ==
  ASSUME Later, NEW o, NEW m \in Memory, m = disamb'[o], Ready(o, m)
  PROVE  Ready(o, disamb[o])'
<1>1. \A i \in 1 .. Len(m.history) : m.history[i].of \in Nat \cup {None}
  <2>1. m.history \in Seq(Light)
    BY DEF Memory
  <2>2. \A l \in Light : l.of \in Nat \cup {None}
    BY DEF Light
  <2>3. \A i \in 1 .. Len(m.history) : m.history[i] \in Light
    BY <2>1
  <2> QED BY <2>2, <2>3
<1>2. LastSync(m).of \in Nat \cup {None}
  BY LastSyncType DEF Light
<1>3. m.state = Unknown => /\ \A i \in 1 .. Len(m.history) : Genuine(o, m.history[i])'
                           /\ Genuine(o, LastSync(m))'
  BY <1>1, <1>2, GenuineLater DEF Ready
<1>4. Ready(o, m)'
  BY <1>3 DEF Ready
<1> QED BY <1>4 DEF Ready, Genuine, SyncAt, CodeAt, Stamp

\* Who follows the cycle after a step is right after it.
LEMMA RightlyLater ==
  ASSUME Later, UNCHANGED sight, NEW o \in Objects, NEW a \in Int, Shift(a),
         NEW y, y.d[o] = disamb'[o], y.mode60 = mode60', y.d[o] \in Memory,
         Follows(o, a, y), ~Stale(disamb'[o], now')
  PROVE  Rightly(o)'
<1>1. Follows(o, a, Before)'
  BY FollowsLater
<1>2. Shift(a)'
  BY DEF Shift, Later
<1>3. ~Stale(disamb[o], now)'
  BY DEF Stale
<1> QED BY <1>1, <1>2, <1>3 DEF Rightly

\* In another step, o keeps what it is right about.
LEMMA RightlyKept ==
  ASSUME Later, UNCHANGED sight, NEW o \in Objects, disamb \in [Objects -> Memory], Rightly(o),
         disamb'[o] = disamb[o], mode60' = mode60, ~Stale(disamb[o], now')
  PROVE  Rightly(o)'
<1>1. PICK a \in Int : Shift(a) /\ Follows(o, a, Before)
  BY DEF Rightly
<1>2. Before.d[o] = disamb'[o] /\ Before.mode60 = mode60' /\ Before.d[o] \in Memory
  BY DEF Before
<1>3. ~Stale(disamb'[o], now')
  OBVIOUS
<1> HIDE DEF Before
<1> QED BY <1>1, <1>2, <1>3, RightlyLater

\* The clockwork of a step in which the time stands still.
LEMMA ClockworkKept ==
  ASSUME Clockwork, UNCHANGED <<world60, now, sight>>
  PROVE  Clockwork'
BY DEF Clockwork, Slot, SlotAt, Group

LEMMA FirstOffset == Offset[1] = 0 /\ Offset[1 + 1] \in Nat /\ Offset[1] < Offset[1 + 1]
<1>1. Offset[1] = QuarterOf(1) * Quarter + WindowOf(1) * PulseWindow
  BY OnGrid
<1>2. QuarterOf(1) = 0 /\ WindowOf(1) = 0
  BY DEF QuarterOf, WindowOf
<1>3. Offset[1] < Offset[1 + 1] /\ Offset[1 + 1] \in Nat
  BY OffsetTable
<1>4. Quarter \in Nat /\ PulseWindow \in Nat
  BY Widths
<1> QED BY <1>1, <1>2, <1>3, <1>4

\* At first no object knows its state.
LEMMA LockInit == ASSUME Init PROVE LockInv
<1>1. World
  BY DEF Init, World
<1>2. Clockwork
  <2>1. now % Group = 0
    BY <1>1, GroupType DEF Init, Group, World
  <2>2. Slot = 1
    BY <2>1, FirstOffset, SlotIs DEF Slot
  <2>3. sight \subseteq {0, 1} /\ (world60 => sight \subseteq {0})
    BY DEF Init
  <2> QED BY <2>1, <2>2, <2>3, FirstOffset DEF Clockwork
<1>3. ASSUME NEW o \in Objects PROVE Ready(o, disamb[o]) /\ ~Known(o)
  <2>1. disamb[o] = Blank
    BY DEF Init
  <2>2. Kempt(Blank) /\ Blank.state = Unknown
    BY DEF Blank, Kempt, Lost, Tidy
  <2> HIDE DEF Blank
  <2> QED BY <2>1, <2>2, KemptReady DEF Known
<1> QED BY <1>2, <1>3 DEF LockInv

\* The invariant holds after each step: the time goes on,
LEMMA TurnRight == ASSUME TypeOK, LockInv, Turn, TypeOK' PROVE LockInv'
<1>1. World /\ Clockwork
  BY Parts DEF LockInv
<1>2. /\ now' = now + Window(Slot) /\ disamb' = disamb /\ mode60' = mode60
      /\ boot' = boot /\ world60' = world60 /\ sight' = sight
  BY DEF Turn
<1>3. now' \in Nat /\ now <= now' /\ now' % Group = Offset[SlotAt(now')]
  BY <1>1, <1>2, NextSlot
<1>4. Later
  BY <1>1, <1>2, <1>3 DEF Later, World
<1>5. Clockwork'
  BY <1>1, <1>2, <1>3 DEF Clockwork, Slot, SlotAt, Group
<1>6. ASSUME NEW o \in Objects PROVE Ready(o, disamb[o])' /\ (Known(o)' /\ ~astray'[o] => Rightly(o)')
  <2>1. disamb[o] \in Memory /\ disamb'[o] = disamb[o]
    BY <1>2 DEF TypeOK
  <2>2. Ready(o, disamb[o])'
    BY <2>1, <1>4, ReadyLater DEF LockInv
  <2>3. ASSUME Known(o)', ~astray'[o] PROVE Rightly(o)'
    <3>1. Known(o) /\ ~astray[o] /\ ~Stale(disamb[o], now')
      <4>1. astray'[o] = (Known(o) /\ (astray[o] \/ Stale(disamb[o], now')))
        BY DEF Turn
      <4>2. Known(o)
        BY <2>1, <2>3 DEF Known
      <4> QED BY <4>1, <4>2, <2>3
    <3>2. Rightly(o)
      BY <3>1 DEF LockInv
    <3> QED BY <3>1, <3>2, <2>1, <1>2, <1>4, RightlyKept DEF TypeOK
  <2> QED BY <2>2, <2>3
<1> QED BY <1>5, <1>6 DEF LockInv

Sees(o, a) == /\ Shift(a) /\ Follows(o, a, Before)
              /\ Either(Seen(o, now), now + a) /\ Near(Seen(o, now), now + a)

\* Who is right sees where the cycle is, but a off, or one unit before.
LEMMA RightSees ==
  ASSUME TypeOK, NEW o \in Objects, Rightly(o)
  PROVE  mode60 = world60 /\ \E a \in Int : Sees(o, a)
<1>1. PICK a \in Int : Shift(a) /\ Follows(o, a, Before)
  BY DEF Rightly
<1> DEFINE m == disamb[o]
           l == Lh[m.state]
<1>2. mode60 = world60 /\ m.state \in 1 .. 12 /\ Bases(o, a, m) /\ m \in Memory
  BY <1>1 DEF Follows, Before, TypeOK
<1>3. l \in {0, 1}
  BY <1>2, LhType
<1>4. world60 \in BOOLEAN /\ boot[o] \in Int /\ now \in Int /\ PulseWindow \in Nat
  BY DisambiguatorAssumption, Widths DEF TypeOK
<1>5. Seen(o, now) = SeenAt(o, m, l, now)
  BY <1>2 DEF Seen, SeenAt, Group
<1>6. m.base[l] <= now /\ 2 * (now - m.base[l]) < Clock
  <2>1. ~(2 * (now + CaptureWindow + PulseWindow - m.base[l]) >= Clock)
    BY DEF Rightly, Stale
  <2>2. m.base[l] \in Int /\ m.base[l] <= now
    BY <1>2, <1>3 DEF Memory, Bases
  <2> HIDE DEF m, l
  <2> QED BY <2>1, <2>2, <1>4, Constants, Widths
<1> HIDE DEF m, l
<1>7. Either(Seen(o, now), now + a)
  BY <1>2, <1>3, <1>4, <1>5, <1>6, SeenFrom
<1>8. Near(Seen(o, now), now + a)
  BY <1>4, <1>7, EitherNear
<1>9. Sees(o, a)
  BY <1>1, <1>7, <1>8 DEF Sees
<1> QED BY <1>2, <1>9

\* what is in sight changes, and who is not astray was not off,
LEMMA LookRight == ASSUME TypeOK, LockInv, Look, TypeOK' PROVE LockInv'
<1>1. World /\ Clockwork
  BY Parts DEF LockInv
<1>2. /\ now' = now /\ disamb' = disamb /\ mode60' = mode60 /\ boot' = boot /\ world60' = world60
      /\ sight' \in SUBSET IF world60 THEN {0} ELSE {0, 1}
  BY DEF Look
<1>3. Later
  BY <1>1, <1>2 DEF Later, World
<1>4. Clockwork'
  BY <1>1, <1>2 DEF Clockwork, Slot, SlotAt, Group
<1>5. ASSUME NEW o \in Objects PROVE Ready(o, disamb[o])' /\ (Known(o)' /\ ~astray'[o] => Rightly(o)')
  <2>1. disamb[o] \in Memory /\ disamb'[o] = disamb[o]
    BY <1>2 DEF TypeOK
  <2>2. Ready(o, disamb[o])'
    BY <2>1, <1>3, ReadyLater DEF LockInv
  <2>3. ASSUME Known(o)', ~astray'[o] PROVE Rightly(o)'
    <3>1. Known(o) /\ ~astray[o] /\ Near(Seen(o, now), now)
      <4>1. astray'[o] = (astray[o] \/ (Known(o) /\ ~Near(Seen(o, now), now)))
        BY DEF Look
      <4>2. Known(o)
        BY <2>1, <2>3 DEF Known
      <4> QED BY <4>1, <4>2, <2>3
    <3>2. Rightly(o)
      BY <3>1 DEF LockInv
    <3>3. PICK a \in Int : Shift(a) /\ Follows(o, a, Before) /\ Either(Seen(o, now), now + a)
      BY <3>2, RightSees DEF Sees
    <3>4. a = 0
      BY <3>1, <3>3, <1>1, NotOff
    <3>5. Before.d[o] = disamb'[o] /\ Before.mode60 = mode60' /\ Before.d[o] \in Memory
      BY <1>2, <2>1 DEF Before
    <3>6. Follows(o, a, Before)'
      BY <3>3, <3>5, <1>3, FollowsLater
    <3>7. Shift(a)'
      BY <3>4 DEF Shift
    <3>8. ~Stale(disamb[o], now)'
      BY <3>2, <1>2 DEF Rightly, Stale
    <3> QED BY <3>6, <3>7, <3>8 DEF Rightly
  <2> QED BY <2>2, <2>3
<1> QED BY <1>4, <1>5 DEF LockInv

\* a device is destroyed, and the mode forgotten,
LEMMA DestroyRight == ASSUME TypeOK, LockInv, NEW o \in Objects, Destroy(o), TypeOK' PROVE LockInv'
<1>1. World /\ Clockwork
  BY Parts DEF LockInv
<1>2. /\ now' = now /\ disamb' = [disamb EXCEPT ![o] = Blank] /\ mode60' = FALSE
      /\ boot' = boot /\ world60' = world60 /\ sight' = sight
  BY DEF Destroy
<1>3. Later
  BY <1>1, <1>2 DEF Later, World
<1>4. Clockwork'
  BY <1>1, <1>2, ClockworkKept
<1>5. ASSUME NEW p \in Objects PROVE Ready(p, disamb[p])' /\ (Known(p)' /\ ~astray'[p] => Rightly(p)')
  <2>1. CASE p = o
    <3>1. Kempt(Blank) /\ Blank.state = Unknown
      BY DEF Blank, Kempt, Lost, Tidy
    <3>2. Blank \in Memory
      BY BlankType DEF Within
    <3> HIDE DEF Blank
    <3>3. disamb'[p] = Blank
      BY <1>2, <2>1 DEF TypeOK
    <3>4. Ready(p, Blank)
      BY <3>1, KemptReady
    <3>5. Ready(p, disamb[p])'
      BY <3>2, <3>3, <3>4, <1>3, ReadyLater
    <3> QED BY <3>1, <3>3, <3>5 DEF Known
  <2>2. CASE p # o
    <3>1. disamb[p] \in Memory /\ disamb'[p] = disamb[p]
      BY <1>2, <2>2 DEF TypeOK
    <3>2. Ready(p, disamb[p])'
      BY <3>1, <1>3, ReadyLater DEF LockInv
    <3>3. ASSUME Known(p)', ~astray'[p] PROVE Rightly(p)'
      <4>1. Known(p) /\ ~astray[p] /\ ~mode60
        <5>1. astray'[p] = (p # o /\ (astray[p] \/ (Known(p) /\ mode60)))
          BY DEF Destroy
        <5>2. Known(p)
          BY <3>1, <3>3 DEF Known
        <5> QED BY <5>1, <5>2, <2>2, <3>3
      <4>2. Rightly(p)
        BY <4>1 DEF LockInv
      <4>3. mode60' = mode60
        BY <4>1, <1>2 DEF TypeOK
      <4>4. ~Stale(disamb[p], now')
        BY <4>2, <1>2 DEF Rightly
      <4> QED BY <3>1, <4>2, <4>3, <4>4, <1>2, <1>3, RightlyKept DEF TypeOK
    <3> QED BY <3>2, <3>3
  <2> QED BY <2>1, <2>2
<1> QED BY <1>4, <1>5 DEF LockInv

\* A sync is put where it belongs by who is right.
LEMMA SyncRight ==
  ASSUME World, Clockwork, NEW o \in Objects, NEW a \in Int, Shift(a), NEW m \in Memory,
         m.state \in 1 .. 12, Bases(o, a, m), ~Stale(m, now), NEW le \in Light,
         \/ le.of = None
         \/ /\ Lit /\ ~IsSweep(Slot)
            /\ le = [timestamp |-> Stamp(o, now), length |-> SyncLength, of |-> now]
  PROVE  Placed(o, a, m, le)
<1> SUFFICES ASSUME le.of # None PROVE Placed(o, a, m, le)
  BY DEF Placed
<1> DEFINE l == Lh[m.state]
           f == Found(m, l, le)
<1>1. Lit /\ ~IsSweep(Slot) /\ le = [timestamp |-> Stamp(o, now), length |-> SyncLength, of |-> now]
  OBVIOUS
<1>2. le.of = now /\ le.timestamp = Stamp(o, now) /\ now <= now
  BY <1>1 DEF World
<1>3. l \in {0, 1}
  BY LhType
<1>4. 2 * (now + PulseWindow - m.base[l]) < Clock
  <2>1. ~(2 * (now + CaptureWindow + PulseWindow - m.base[l]) >= Clock)
    BY DEF Stale
  <2>2. m.base[l] \in Int
    BY <1>3 DEF Memory
  <2>3. now \in Int /\ PulseWindow \in Int /\ CaptureWindow \in Nat /\ Clock \in Int
    BY Widths, Constants DEF World
  <2> HIDE DEF l
  <2> QED BY <2>1, <2>2, <2>3
<1>5. f \in Syncs /\ (now + a) % Group = Offset[f]
  <2> HIDE DEF l
  <2>1. Found(m, l, le) \in Syncs /\ (now + a) % Group = Offset[Found(m, l, le)]
    BY <1>1, <1>3, <1>4, SyncPlaced
  <2> QED BY <2>1
<1> HIDE DEF f
<1>6. Begins(o, a, f, le)
  BY <1>2, <1>5 DEF Begins
<1> QED BY <1>5, <1>6 DEF Placed, f

\* a pulse reaches an object,
LEMMA LightRight ==
  ASSUME TypeOK, LockInv, NEW o \in Objects, NEW s \in Sensors, Sync(o, s) \/ Sweep(o, s) \/ Stray(o, s), TypeOK'
  PROVE  LockInv'
<1>1. World /\ Clockwork
  BY Parts DEF LockInv
<1>2. /\ boot' = boot /\ world60' = world60 /\ sight' = sight /\ now' = now
  BY LightIsPulse
<1>3. PICK le \in Light :
        /\ Pulse(o, s, le)
        /\ \/ le.of = None
           \/ /\ Lit /\ ~IsSweep(Slot)
              /\ le = [timestamp |-> Stamp(o, now), length |-> SyncLength, of |-> now]
  BY LightIsPulse
<1>4. Later
  BY <1>1, <1>2 DEF Later, World
<1>5. Clockwork'
  BY <1>1, <1>2, ClockworkKept
<1> DEFINE z == StateBased(Before, o, s, le)
           d == disamb'[o]
<1>6. disamb' = z.d /\ mode60' = z.mode60
  BY <1>3 DEF Pulse, Before
<1>7. Genuine(o, le)
  <2>1. CASE le.of = None
    BY <2>1 DEF Genuine
  <2>2. CASE Lit /\ ~IsSweep(Slot) /\ le = [timestamp |-> Stamp(o, now), length |-> SyncLength, of |-> now]
    <3>1. le.of = now /\ le.timestamp = Stamp(o, now) /\ le.length = SyncLength /\ now <= now
      BY <2>2, <1>1 DEF World
    <3>2. SyncNow
      BY <2>2, <1>1, SyncIsNow
    <3> QED BY <3>1, <3>2 DEF Genuine, SyncNow
  <2> QED BY <2>1, <2>2, <1>3
<1>8. Before.d = disamb /\ Before.mode60 = mode60
  BY DEF Before
<1>9. Good(Before)
  BY GoodBefore
<1>10. Right(o, Before, z, le)
  BY <1>1, <1>7, <1>8, <1>9, PulseRight DEF LockInv
<1> HIDE DEF z
<1>11. disamb'[o] \in Memory /\ disamb'[o] = z.d[o] /\ disamb[o] \in Memory
  BY <1>6 DEF TypeOK
<1>12. ASSUME NEW p \in Objects PROVE astray'[p] =
         (IF p # o THEN astray[p] \/ (Unsure(p) /\ mode60' # mode60)
          ELSE \/ Known(p) /\ astray[p]
               \/ /\ disamb'[p].state # Unknown
                  /\ Misled(disamb'[p]) \/ Stale(disamb'[p], now)
                       \/ (~Known(p) /\ ~Telling(p, disamb'[p].history)))
  BY <1>3 DEF Pulse
<1>13. Ready(o, disamb[o])' /\ (Known(o)' /\ ~astray'[o] => Rightly(o)')
  <2>1. Ready(o, disamb[o])'
    BY <1>4, <1>10, <1>11, ReadyLater DEF Right
  <2>2. ASSUME Known(o)', ~astray'[o] PROVE Rightly(o)'
    <3>1. d.state # Unknown
      BY <2>2 DEF Known
    <3>2. /\ ~(Known(o) /\ astray[o]) /\ ~Misled(d) /\ ~Stale(d, now)
          /\ Known(o) \/ Telling(o, d.history)
      BY <1>12, <2>2, <3>1
    <3>3. \E a \in Int : Shift(a) /\ Follows(o, a, z)
      <4>1. CASE Known(o)
        <5>1. Rightly(o)
          BY <3>2, <4>1 DEF LockInv
        <5>2. PICK a \in Int : Shift(a) /\ Follows(o, a, Before)
          BY <5>1 DEF Rightly
        <5>3. disamb[o].state \in 1 .. 12 /\ Bases(o, a, disamb[o])
          BY <5>2, <1>8 DEF Follows
        <5>4. ~Stale(disamb[o], now)
          BY <5>1 DEF Rightly
        <5>5. Placed(o, a, disamb[o], le)
          BY <5>2, <5>3, <5>4, <1>1, <1>3, <1>11, SyncRight
        <5>6. After(o, a, z)
          BY <5>2, <5>5, <1>8, <1>10 DEF Right
        <5>7. Follows(o, a, z)
          BY <5>6, <3>1, <3>2, <1>11 DEF After
        <5> QED BY <5>2, <5>7
      <4>2. CASE ~Known(o)
        <5>1. Before.d[o].state = Unknown /\ z.d[o].state # Unknown /\ Telling(o, z.d[o].history)
          BY <3>1, <3>2, <4>2, <1>8, <1>11 DEF Known
        <5> QED BY <5>1, <1>10 DEF Right
      <4> QED BY <4>1, <4>2
    <3>4. PICK a \in Int : Shift(a) /\ Follows(o, a, z)
      BY <3>3
    <3>5. ~Stale(disamb'[o], now')
      BY <3>2, <1>2
    <3> QED BY <3>4, <3>5, <1>2, <1>4, <1>6, <1>11, RightlyLater
  <2> QED BY <2>1, <2>2
<1>14. ASSUME NEW p \in Objects, p # o
       PROVE  Ready(p, disamb[p])' /\ (Known(p)' /\ ~astray'[p] => Rightly(p)')
  <2>1. disamb'[p] = disamb[p] /\ (Sure(p) => mode60' = mode60) /\ disamb[p] \in Memory
    BY <1>3, <1>14, PulseCode DEF TypeOK
  <2>2. Ready(p, disamb[p])'
    BY <2>1, <1>4, ReadyLater DEF LockInv
  <2>3. ASSUME Known(p)', ~astray'[p] PROVE Rightly(p)'
    <3>1. Known(p)
      BY <2>1, <2>3 DEF Known
    <3>2. ~astray[p] /\ ~(Unsure(p) /\ mode60' # mode60)
      BY <1>12, <1>14, <2>3
    <3>3. mode60' = mode60
      <4>1. disamb[p].confidence \in Int
        BY <2>1 DEF Memory
      <4>2. Sure(p) \/ Unsure(p)
        BY <3>1, <4>1 DEF Sure, Unsure
      <4> QED BY <2>1, <3>2, <4>2
    <3>4. Rightly(p)
      BY <3>1, <3>2 DEF LockInv
    <3>5. ~Stale(disamb[p], now')
      BY <3>4, <1>2 DEF Rightly
    <3> QED BY <2>1, <3>3, <3>4, <3>5, <1>2, <1>4, RightlyKept DEF TypeOK
  <2> QED BY <2>2, <2>3
<1> QED BY <1>5, <1>13, <1>14 DEF LockInv

\* or nothing happens.
LEMMA StillRight == ASSUME LockInv, UNCHANGED vars PROVE LockInv'
BY DEF LockInv, Clockwork, Slot, SlotAt, Group, Ready, Genuine, SyncAt, CodeAt, Stamp, Known, Rightly, Stale,
       Shift, Follows, Bases, Open, Before, vars, code, light

\* Of one lighthouse, where the other is, half a cycle away.
LEMMA ShiftIsAlias ==
  ASSUME world60 \in BOOLEAN, NEW a \in Int, Shift(a)
  PROVE  a \in {0} \cup Alias
<1> SUFFICES ASSUME a # 0 PROVE a \in Alias
  OBVIOUS
<1>1. ~world60 /\ Cardinality(sight) = 1 /\ a \in {2 * Quarter - PulseWindow, 2 * Quarter + PulseWindow}
  BY FS_Singleton DEF Shift
<1>2. Offset[8] = 2 * Quarter + PulseWindow /\ Offset[End] = 4 * Quarter
  <2>1. /\ Offset[8] = QuarterOf(8) * Quarter + WindowOf(8) * PulseWindow
    BY OnGrid
  <2>2. QuarterOf(8) = 2 /\ WindowOf(8) = 1
    BY DEF QuarterOf, WindowOf
  <2>3. PulseWindow \in Nat /\ Quarter \in Nat
    BY Widths
  <2> QED BY <2>1, <2>2, <2>3, Groups DEF End
<1>3. Offset[End] - Offset[8] = 2 * Quarter - PulseWindow
  <2>1. PulseWindow \in Nat /\ Quarter \in Nat
    BY Widths
  <2> QED BY <2>1, <1>2
<1> QED BY <1>1, <1>2, <1>3 DEF Alias

LEMMA LockNext == TypeOK /\ TypeOK' /\ LockInv /\ [Next]_vars => LockInv'
<1> SUFFICES ASSUME TypeOK, TypeOK', LockInv, [Next]_vars PROVE LockInv'
  OBVIOUS
<1>1. CASE Turn
  BY <1>1, TurnRight
<1>2. CASE Look
  BY <1>2, LookRight
<1>3. ASSUME NEW o \in Objects, Destroy(o) PROVE LockInv'
  BY <1>3, DestroyRight
<1>4. ASSUME NEW o \in Objects, NEW s \in Sensors, Sync(o, s) \/ Sweep(o, s) \/ Stray(o, s)
      PROVE  LockInv'
  BY <1>4, LightRight
<1>5. CASE UNCHANGED vars
  BY <1>5, StillRight
<1> QED BY <1>1, <1>2, <1>3, <1>4, <1>5 DEF Next

(* An object that knows its state is right about it: a state that is found *)
(* from syncs that tell where the cycle is is the right one (EndSync), it  *)
(* stays right from pulse to pulse, over wraps of the clock, misses and    *)
(* other light (PropagateState), and whatever the other objects do.        *)
THEOREM LockIsRight == Spec => []LockRight
<1>1. Init => LockInv
  BY LockInit
<1>2. TypeOK /\ TypeOK' /\ LockInv /\ [Next]_vars => LockInv'
  BY LockNext
<1>3. TypeOK /\ LockInv => LockRight
  <2> SUFFICES ASSUME TypeOK, LockInv, NEW o \in Objects, Known(o), ~astray[o] PROVE Tracks(o)
    BY DEF LockRight
  <2>1. Rightly(o)
    BY DEF LockInv
  <2>2. PICK a \in Int : mode60 = world60 /\ Shift(a) /\ Near(Seen(o, now), now + a)
    BY <2>1, RightSees DEF Sees
  <2>3. a \in {0} \cup Alias
    BY <2>2, ShiftIsAlias DEF TypeOK
  <2> QED BY <2>2, <2>3 DEF Tracks
<1>4. Spec => []TypeOK
  BY TypeCorrect
<1> QED BY <1>1, <1>2, <1>3, <1>4, PTL DEF Spec

-----------------------------------------------------------------------------
(* What is told of the syncs                                               *)

\* Nothing is told, and no pulse is counted as one that is not looked at.
Quiet(x, y, o) == /\ y.told = x.told /\ y.behind = x.behind
                  /\ y.d[o].stabalize = x.d[o].stabalize

\* What is told of the sync registered in m, and of the sweep of sensor s.
SyncEvent(m, o) ==
  LET a == Acode[m.state]
  IN  [kind |-> "sync", object |-> o, lh |-> Lh[m.state],
       acode |-> IF Abs(AcodeTiming(a + 2) - m.longest) < Abs(AcodeTiming(a) - m.longest) THEN a + 2 ELSE a,
       at |-> m.first, length |-> m.longest]

SweepEvent(m, o, s, b) ==
  [kind |-> "sweep", object |-> o, lh |-> Lh[m.state], acode |-> Acode[m.state],
   at |-> m.sweep[s].timestamp, length |-> m.sweep[s].length, sensor |-> s,
   offset |-> ApplyModOffset(Centre(m.sweep[s]), m.mod[Lh[m.state]], EndOfMod(b))
                - Offset[m.state - 1 - Lh[m.state]]]

\* e is of what m has seen.
Seeing(m, o, b, e) ==
  \/ ~IsSweep(m.state) /\ m.count # 0 /\ e = SyncEvent(m, o)
  \/ IsSweep(m.state) /\ \E s \in Sensors : m.sweep[s].length # 0 /\ e = SweepEvent(m, o, s, b)

\* m has seen a sweep before its sync.
SeeingBehind(m, o, b) ==
  IsSweep(m.state) /\ \E s \in Sensors : m.sweep[s].length # 0 /\ SweepEvent(m, o, s, b).offset <= 0

Tells(x, y, o) ==
  /\ y.d[o].stabalize = x.d[o].stabalize
  /\ y.behind = x.behind \/ SeeingBehind(x.d[o], o, x.mode60)
  /\ \A e \in y.told : e \in x.told \/ Seeing(x.d[o], o, x.mode60, e)

\* What is told is told before a step that tells nothing.
LEMMA QuietTells ==
  ASSUME NEW x, NEW y, NEW z, NEW o, Tells(x, y, o), Quiet(y, z, o)
  PROVE  Tells(x, z, o)
BY DEF Tells, Quiet

\* Two steps that tell nothing tell nothing.
LEMMA QuietTrans ==
  ASSUME NEW x, NEW y, NEW z, NEW o, Quiet(x, y, o), Quiet(y, z, o)
  PROVE  Quiet(x, z, o)
BY DEF Quiet

\* Nor does the change of what an object keeps,
LEMMA PutQuiet ==
  ASSUME NEW x, Good(x), NEW o \in Objects, NEW m, m.stabalize = x.d[o].stabalize
  PROVE  Quiet(x, [x EXCEPT !.d[o] = m], o)
<1> DEFINE y == [x EXCEPT !.d[o] = m]
<1>1. x \in States
  BY DEF Good
<1>2. y.d[o] = m /\ y.told = x.told /\ y.behind = x.behind
  BY <1>1 DEF States
<1> HIDE DEF y
<1>3. Quiet(x, y, o)
  BY <1>2 DEF Quiet
<1> QED BY <1>3 DEF y

\* or of its state.
LEMMA SetStateQuiet ==
  ASSUME NEW x, Good(x), NEW o \in Objects, NEW k
  PROVE  Quiet(x, SetState(x, o, k), o)
<1> DEFINE d == x.d[o]
           r == ResetSync(d)
           z == IF k >= End THEN 1 ELSE k
           h == IF k = Unknown THEN <<>> ELSE d.history
           w == Blank.sweep
           m == [r EXCEPT !.state = z, !.history = h, !.sweep = w]
           y == [x EXCEPT !.d[o] = m]
           c == y.mode60 /\ (k # Unknown \/ BestKnown(y))
           q == SetState(x, o, k)
<1>1. x \in States /\ d \in Memory
  BY DEF Good, Within
<1>2. r = [d EXCEPT !.first = 0, !.longest = 0, !.count = 0, !.of = None]
  BY DEF ResetSync
<1>3. q = [y EXCEPT !.mode60 = c]
  BY DEF SetState
<1> HIDE DEF z, h, w, q
<1>4. r.stabalize = d.stabalize /\ m.stabalize = r.stabalize
  <2> HIDE DEF d
  <2> QED BY <1>1, <1>2 DEF Memory
<1> HIDE DEF m, d, r
<1>5. y.d[o] = m /\ y.told = x.told /\ y.behind = x.behind
      /\ q.d = y.d /\ q.told = y.told /\ q.behind = y.behind
  <2> HIDE DEF c
  <2> QED BY <1>1, <1>3 DEF States
<1> HIDE DEF y, c
<1>6. Quiet(x, q, o)
  BY <1>4, <1>5 DEF Quiet, d
<1> QED BY <1>6 DEF q

\* Who leaves a sync tells of it only,
LEMMA LeaveSyncTells ==
  ASSUME NEW x, Good(x), NEW o \in Objects, x.d[o].state \in 1 .. 12, ~IsSweep(x.d[o].state)
  PROVE  Tells(x, LeaveSync(x, o), o)
<1> DEFINE d     == x.d[o]
           y     == LeaveSync(x, o)
           sync  == LastSync(d)
           k     == d.state
           l     == Lh[k]
           h     == AddSyncHistory(d.history, sync)
           f     == ModFor(sync, k)
           b     == sync.of - Offset[k]
           m     == [d EXCEPT !.history = h, !.mod[l] = f, !.base[l] = b]
           a     == Acode[k]
           hasData == Abs(AcodeTiming(a + 2) - sync.length) < Abs(AcodeTiming(a) - sync.length)
           code2 == IF hasData THEN a + 2 ELSE a
           event == [kind |-> "sync", object |-> o, lh |-> l, acode |-> code2,
                     at |-> sync.timestamp, length |-> sync.length]
           t     == IF d.confidence > Trusted THEN x.told \cup {event} ELSE x.told
<1>1. x \in States /\ d \in Memory
  BY DEF Good, Within
<1>2. CASE d.count = 0
  <2>1. y = x
    BY <1>2 DEF LeaveSync
  <2> HIDE DEF y
  <2>2. Tells(x, y, o)
    BY <2>1 DEF Tells
  <2> QED BY <2>2 DEF y
<1>3. CASE d.count # 0
  <2>1. sync.timestamp = d.first /\ sync.length = d.longest
    BY <1>3 DEF LastSync
  <2>2. event = SyncEvent(d, o)
    <3> HIDE DEF sync, d
    <3> QED BY <2>1 DEF SyncEvent
  <2>3. y = [x EXCEPT !.d[o] = m, !.told = t]
    BY <1>3 DEF LeaveSync
  <2>4. \A e \in t : e \in x.told \/ e = event
    <3> HIDE DEF event
    <3> QED OBVIOUS
  <2> HIDE DEF h, f, b, t, y, event
  <2>5. m.stabalize = d.stabalize
    <3> HIDE DEF d, l
    <3> QED BY <1>1 DEF Memory
  <2> HIDE DEF m
  <2>6. y.d[o] = m /\ y.told = t /\ y.behind = x.behind
    BY <1>1, <2>3 DEF States
  <2>7. Tells(x, y, o)
    BY <2>2, <2>4, <2>5, <2>6, <1>3 DEF Tells, Seeing
  <2> QED BY <2>7 DEF y
<1> QED BY <1>2, <1>3

\* who leaves a sweep of its hits only,
LEMMA LeaveSweepTells ==
  ASSUME NEW x, Good(x), NEW o \in Objects, IsSweep(x.d[o].state)
  PROVE  Tells(x, LeaveSweep(x, o), o)
<1> DEFINE d       == x.d[o]
           lh      == Lh[d.state]
           lit     == {s \in Sensors : d.sweep[s].length > Ticks(100)}
           total   == LitLength(d.sweep, lit)
           minl    == DivRoundClosest(total, 4 * Cardinality(lit))
           maxl    == 3 * DivRoundClosest(total, Cardinality(lit))
           kept    == {s \in Sensors : d.sweep[s].length \in (minl .. maxl) \ {0}}
           from(s) == ApplyModOffset(Centre(d.sweep[s]), d.mod[lh], EndOfMod(x.mode60))
                        - Offset[d.state - 1 - lh]
           event(s) == [kind |-> "sweep", object |-> o, lh |-> lh, acode |-> Acode[d.state],
                        at |-> d.sweep[s].timestamp, length |-> d.sweep[s].length,
                        sensor |-> s, offset |-> from(s)]
           events  == {event(s) : s \in kept}
           b       == x.behind \/ \E e \in events : e.offset <= 0
           t       == IF d.confidence > Trusted THEN x.told \cup events ELSE x.told
           y       == LeaveSweep(x, o)
<1>1. x \in States
  BY DEF Good
<1>2. \A s : event(s) = SweepEvent(d, o, s, x.mode60)
  BY DEF SweepEvent
<1>3. \A s \in kept : s \in Sensors /\ d.sweep[s].length # 0
  BY SMTT(30)
<1>4. y = x \/ y = [x EXCEPT !.behind = b, !.told = t]
  BY DEF LeaveSweep
<1>9. b = x.behind \/ SeeingBehind(d, o, x.mode60)
  <2>1. x.behind \in BOOLEAN
    BY <1>1 DEF States
  <2>2. \A e \in events : \E s \in Sensors : d.sweep[s].length # 0 /\ e = SweepEvent(d, o, s, x.mode60)
    <3> HIDE DEF kept, event
    <3> QED BY <1>2, <1>3
  <2> HIDE DEF events
  <2>3. b = x.behind \/ \E e \in events : e.offset <= 0
    BY <2>1
  <2> HIDE DEF b
  <2> QED BY <2>2, <2>3 DEF SeeingBehind
<1> HIDE DEF y, event, kept, b
<1>5. \A e \in t : e \in x.told \/ \E s \in kept : e = event(s)
  OBVIOUS
<1> HIDE DEF t, d
<1>6. \A e \in t : e \in x.told \/ Seeing(d, o, x.mode60, e)
  BY <1>2, <1>3, <1>5 DEF Seeing, d
<1>7. CASE y = x
  <2>1. Tells(x, y, o)
    BY <1>7 DEF Tells
  <2> QED BY <2>1 DEF y
<1>8. CASE y = [x EXCEPT !.behind = b, !.told = t]
  <2>1. y.d = x.d /\ y.told = t /\ y.behind = b
    BY <1>1, <1>8 DEF States
  <2>2. Tells(x, y, o)
    BY <2>1, <1>6, <1>9 DEF Tells, d
  <2> QED BY <2>2 DEF y
<1> QED BY <1>4, <1>7, <1>8

\* whatever comes next.
LEMMA ChangeTells ==
  ASSUME NEW x, Good(x), NEW o \in Objects, x.d[o].state \in 1 .. 12, NEW k \in 1 .. 13
  PROVE  Tells(x, ProcessStateChange(x, o, k), o)
<1> DEFINE y == IF IsSweep(x.d[o].state) THEN LeaveSweep(x, o) ELSE LeaveSync(x, o)
<1>1. Good(y)
  BY LeaveSyncStep, LeaveSweepStep DEF Step
<1>2. Tells(x, y, o)
  BY LeaveSyncTells, LeaveSweepTells
<1>3. ProcessStateChange(x, o, k) = SetState(y, o, k)
  BY DEF ProcessStateChange
<1> HIDE DEF y
<1> QED BY <1>1, <1>2, <1>3, SetStateQuiet, QuietTells

\* A pulse that is registered or captured is not told yet,
LEMMA ACodeQuiet ==
  ASSUME NEW x, Good(x), NEW o \in Objects, NEW le
  PROVE  Quiet(x, RunACodeCapture(x, o, le), o)
<1> DEFINE d == x.d[o]
           y == IF d.confidence < Penalty THEN SetState(x, o, Unknown) ELSE x
           e == RegisterSync(d, le)
           p == [y.d[o] EXCEPT !.confidence = y.d[o].confidence - Penalty]
           c == IF e.confidence < MaxConfidence THEN e.confidence + 1 ELSE e.confidence
           q == [e EXCEPT !.confidence = c]
<1>1. Good(y) /\ Quiet(x, y, o)
  <2>1. CASE d.confidence < Penalty
    <3>1. y = SetState(x, o, Unknown)
      BY <2>1
    <3> HIDE DEF y
    <3>2. 0 \in 0 .. 13
      OBVIOUS
    <3> QED BY <3>1, <3>2, SetStateQuiet, SetStateStep DEF Step, Unknown
  <2>2. CASE ~(d.confidence < Penalty)
    <3>1. y = x
      BY <2>2
    <3> HIDE DEF y
    <3> QED BY <3>1 DEF Quiet
  <2> QED BY <2>1, <2>2
<1>2. RunACodeCapture(x, o, le) \in {x, [y EXCEPT !.d[o] = p], [x EXCEPT !.d[o] = q]}
  BY DEF RunACodeCapture
<1> HIDE DEF y
<1>3. y.d[o] \in Memory /\ d \in Memory
  BY <1>1 DEF Good, Within
<1>4. p.stabalize = y.d[o].stabalize
  BY <1>3 DEF Memory
<1>5. q.stabalize = d.stabalize
  <2> HIDE DEF d, c
  <2> QED BY <1>3 DEF Memory, RegisterSync
<1> HIDE DEF p, q
<1>6. Quiet(y, [y EXCEPT !.d[o] = p], o) /\ Quiet(x, [x EXCEPT !.d[o] = q], o)
  BY <1>1, <1>4, <1>5, PutQuiet
<1>7. Quiet(x, x, o) /\ Quiet(x, [y EXCEPT !.d[o] = p], o)
  BY <1>1, <1>6, QuietTrans DEF Quiet
<1> QED BY <1>2, <1>6, <1>7

LEMMA CaptureQuiet ==
  ASSUME NEW x, Good(x), NEW o \in Objects, NEW s \in Sensors, NEW le
  PROVE  Quiet(x, CaptureSweep(x, o, s, le), o)
<1> DEFINE d == x.d[o]
           w == [d.sweep EXCEPT ![s] = le]
           c == IF le.length > Ticks(3000) THEN d.confidence - 1 ELSE d.confidence
           m == [d EXCEPT !.sweep = w, !.confidence = c]
<1>1. d \in Memory
  BY DEF Good, Within
<1>2. CaptureSweep(x, o, s, le) = x \/ CaptureSweep(x, o, s, le) = [x EXCEPT !.d[o] = m]
  <2>1. [d EXCEPT !.sweep[s] = le, !.confidence = c] = m
    BY <1>1 DEF Memory
  <2> HIDE DEF m
  <2> QED BY <2>1 DEF CaptureSweep
<1> HIDE DEF w, c
<1>3. m.stabalize = d.stabalize
  <2> HIDE DEF d
  <2> QED BY <1>1 DEF Memory
<1> HIDE DEF m
<1>4. Quiet(x, [x EXCEPT !.d[o] = m], o)
  BY <1>3, PutQuiet
<1>5. Quiet(x, x, o)
  BY DEF Quiet
<1> QED BY <1>2, <1>4, <1>5

\* and one that ends a window makes what was seen in it be told.
LEMMA PropagateTells ==
  ASSUME NEW x, Good(x), NEW o \in Objects, NEW s \in Sensors, NEW le \in Light, x.d[o].state \in 1 .. 12
  PROVE  Tells(x, PropagateState(x, o, s, le), o)
<1> DEFINE d == x.d[o]
           k == FindByOffset(ApplyModOffset(Centre(le), d.mod[Lh[d.state]], EndOfMod(x.mode60))).state
           y == IF k = d.state THEN x ELSE ProcessStateChange(x, o, k)
<1>1. x.mode60 \in BOOLEAN /\ d \in Memory
  BY DEF Good, States, Within
<1>2. d.mod[Lh[d.state]] \in Int
  <2>1. d.mod \in [{0, 1} -> Timestamps]
    BY <1>1 DEF Memory
  <2>2. Lh[d.state] \in {0, 1}
    BY LhType
  <2> QED BY <2>1, <2>2, Constants DEF Timestamps
<1>3. k \in 1 .. 13
  BY <1>1, <1>2, CentreType, WindowFound
<1>4. PropagateState(x, o, s, le) =
        IF IsSweep(y.d[o].state) THEN CaptureSweep(y, o, s, le) ELSE RunACodeCapture(y, o, le)
  BY DEF PropagateState
<1> HIDE DEF k
<1>5. Good(y)
  BY <1>3, ProcessStep, StepSelf DEF Step
<1>6. Tells(x, x, o)
  BY DEF Tells
<1>7. Tells(x, y, o)
  BY <1>3, <1>6, ChangeTells
<1> HIDE DEF y
<1> QED BY <1>4, <1>5, <1>7, CaptureQuiet, ACodeQuiet, QuietTells

\* The state that is found is well-formed before it is entered.
LEMMA FoundGood ==
  ASSUME NEW x, Good(x), NEW o \in Objects
  PROVE  LET m == x.d[o]
             h == AddSyncHistory(m.history, LastSync(m))
             g == FirstGuess(Guesses(x, h))
             v == ModFor(h[HistoryLen], g[1])
             found == [m EXCEPT !.history = h, !.mod = [l \in {0, 1} |-> v], !.confidence = 0,
                                !.base = [l \in {0, 1} |-> h[HistoryLen].of - Offset[g[1]]]]
         IN  Guesses(x, h) # {} => Good([x EXCEPT !.d[o] = found, !.mode60 = g[2]]) /\ g[1] \in 1 .. 13
<1> DEFINE m == x.d[o]
           h == AddSyncHistory(m.history, LastSync(m))
           G == Guesses(x, h)
           g == FirstGuess(G)
           v == ModFor(h[HistoryLen], g[1])
           w == [l \in {0, 1} |-> v]
           c == 0
           e == [l \in {0, 1} |-> h[HistoryLen].of - Offset[g[1]]]
           found == [m EXCEPT !.history = h, !.mod = w, !.confidence = c, !.base = e]
<1> SUFFICES ASSUME G # {} PROVE Good([x EXCEPT !.d[o] = found, !.mode60 = g[2]]) /\ g[1] \in 1 .. 13
  OBVIOUS
<1>1. Within(m) BY DEF Good
<1>2. m \in Memory /\ Len(m.history) <= HistoryLen /\ m.confidence <= MaxConfidence BY <1>1 DEF Within
<1>3. m.history \in Seq(Light) BY <1>2 DEF Memory
<1>4. LastSync(m) \in Light BY <1>2, LastSyncType
<1> HIDE DEF m
<1>5. h \in Seq(Light) /\ Len(h) <= HistoryLen BY <1>2, <1>3, <1>4, HistoryType
<1> HIDE DEF h
<1>6. G \subseteq Syncs \X BOOLEAN BY DEF Guesses
<1>7. g \in G BY <1>6, FirstOf
<1>8. g[1] \in Syncs /\ g[2] \in BOOLEAN BY <1>6, <1>7
<1>9. Len(h) = HistoryLen
  <2>1. ~(Len(h) < HistoryLen) BY DEF Guesses
  <2> QED BY <2>1, <1>5, Constants
<1>10. BestKnown(x) => g[2] = x.mode60 BY <1>7 DEF Guesses
<1> HIDE DEF g, G
<1>11. h[HistoryLen] \in Light
  <2>1. HistoryLen \in 1 .. Len(h) BY <1>9, Constants
  <2> QED BY <2>1, <1>5
<1>12. g[1] \in 1 .. 13 BY <1>8 DEF Syncs
<1>13. v \in Timestamps BY <1>11, <1>12, ModForType
<1> HIDE DEF v
<1>14. w \in [{0, 1} -> Timestamps] BY <1>13
<1>15. c \in Int /\ c <= MaxConfidence BY Constants
<1>16. e \in [{0, 1} -> Int]
  <2>1. h[HistoryLen].of \in Int /\ Offset[g[1]] \in Int BY <1>11, <1>12, OffsetTable DEF Light, None
  <2> QED BY <2>1
<1> HIDE DEF w, c, e
<1>17. found \in Memory /\ found.history = h /\ found.confidence = c
  BY <1>2, <1>5, <1>14, <1>15, <1>16 DEF Memory
<1>18. Within(found) BY <1>17, <1>15, <1>5 DEF Within
<1> HIDE DEF found
<1>19. Kept(x, o) => g[2] = x.mode60 BY <1>10 DEF Kept, BestKnown
<1> QED BY <1>8, <1>12, <1>18, <1>19, PutMode DEF Step

\* Nothing was seen in the state yet.
Anew(m) == m.count = 0 /\ m.sweep = [s \in Sensors |-> NoLight]

\* Nothing is told while the state is looked for, and nothing is registered when it is found,
LEMMA EndSyncQuiet ==
  ASSUME NEW x, Good(x), NEW o \in Objects
  PROVE  /\ Quiet(x, EndSync(x, o), o)
         /\ EndSync(x, o).d[o].state # x.d[o].state => Anew(EndSync(x, o).d[o])
<1> DEFINE m == x.d[o]
           h == AddSyncHistory(m.history, LastSync(m))
           G == Guesses(x, h)
           g == FirstGuess(G)
           v == ModFor(h[HistoryLen], g[1])
           w == [l \in {0, 1} |-> v]
           c == 0
           e == [l \in {0, 1} |-> h[HistoryLen].of - Offset[g[1]]]
           found == [m EXCEPT !.history = h, !.mod = w, !.confidence = c, !.base = e]
           other == [m EXCEPT !.history = h]
           z == EndSync(x, o)
           y == [x EXCEPT !.d[o] = found, !.mode60 = g[2]]
<1>1. m \in Memory /\ x \in States
  BY DEF Good, Within
<1>2. CASE G = {}
  <2>1. z = [x EXCEPT !.d[o] = other]
    BY <1>2 DEF EndSync
  <2> HIDE DEF h, z
  <2>2. other.stabalize = m.stabalize /\ other.state = m.state
    <3> HIDE DEF m
    <3> QED BY <1>1 DEF Memory
  <2> HIDE DEF other
  <2>3. z.d[o] = other
    BY <2>1, <1>1 DEF States
  <2>4. Quiet(x, z, o)
    BY <2>1, <2>2, PutQuiet
  <2> QED BY <2>2, <2>3, <2>4 DEF z
<1>3. CASE G # {}
  <2>1. z = SetState(y, o, g[1])
    BY <1>3, SMTT(30) DEF EndSync, Lock
  <2>2. Good(y) /\ g[1] \in 1 .. 13
    BY <1>3, FoundGood
  <2> HIDE DEF h, v, w, c, e, g, z
  <2>3. found.stabalize = m.stabalize
    <3> HIDE DEF m
    <3> QED BY <1>1 DEF Memory
  <2> HIDE DEF found
  <2>4. y.d[o] = found /\ y.told = x.told /\ y.behind = x.behind
    BY <1>1 DEF States
  <2> HIDE DEF y
  <2>5. Quiet(x, y, o)
    BY <2>3, <2>4 DEF Quiet
  <2>6. Quiet(x, z, o)
    BY <2>1, <2>2, <2>5, SetStateQuiet, QuietTrans
  <2>7. Anew(z.d[o])
    BY <2>1, <2>2, StateSet DEF Anew
  <2> QED BY <2>6, <2>7 DEF z
<1> QED BY <1>2, <1>3

\* nor by the pulse that makes it be found.
LEMMA AttemptQuiet ==
  ASSUME NEW x, Good(x), NEW o \in Objects, x.d[o].state = Unknown, NEW le \in Light
  PROVE  /\ Quiet(x, AttemptFindState(x, o, le), o)
         /\ AttemptFindState(x, o, le).d[o].state # Unknown => Anew(AttemptFindState(x, o, le).d[o])
<1> DEFINE d      == x.d[o]
           isSync == le.length \in Ticks(2250) .. Ticks(6750)
           anew   == isSync => (~d.lastWasSync \/ ~Overlaps(LastSync(d), le))
           y      == IF d.lastWasSync /\ anew THEN EndSync(x, o) ELSE x
           e      == IF anew THEN ResetSync(y.d[o]) ELSE y.d[o]
           r      == RegisterSync(e, le)
           m      == [y.d[o] EXCEPT !.lastWasSync = FALSE]
           n      == [r EXCEPT !.lastWasSync = TRUE]
           ym     == [y EXCEPT !.d[o] = m]
           yn     == [y EXCEPT !.d[o] = n]
           z      == AttemptFindState(x, o, le)
<1>1. Good(y) /\ Quiet(x, y, o) /\ (y.d[o].state # Unknown => Anew(y.d[o]))
  <2>1. CASE d.lastWasSync /\ anew
    <3>1. y = EndSync(x, o)
      BY <2>1
    <3> HIDE DEF y
    <3> QED BY <3>1, EndSyncStep, EndSyncQuiet DEF Step
  <2>2. CASE ~(d.lastWasSync /\ anew)
    <3>1. y = x
      BY <2>2
    <3> HIDE DEF y
    <3> QED BY <3>1 DEF Quiet
  <2> QED BY <2>1, <2>2
<1>2. \/ y.d[o].state # Unknown /\ z = y
      \/ y.d[o].state = Unknown /\ z = ym
      \/ y.d[o].state = Unknown /\ z = yn
  BY DEF AttemptFindState
<1> HIDE DEF y, z, anew, isSync
<1>3. y.d[o] \in Memory /\ y \in States
  BY <1>1 DEF Good, Within
<1>4. CASE y.d[o].state # Unknown /\ z = y
  BY <1>1, <1>4 DEF z
<1>5. CASE y.d[o].state = Unknown /\ z = ym
  <2>1. m.stabalize = y.d[o].stabalize /\ m.state = y.d[o].state
    BY <1>3 DEF Memory
  <2> HIDE DEF m
  <2>2. Quiet(y, ym, o) /\ ym.d[o] = m
    BY <2>1, <1>1, <1>3, PutQuiet DEF States
  <2> HIDE DEF ym
  <2>3. Quiet(x, z, o) /\ z.d[o].state = Unknown
    BY <2>1, <2>2, <1>1, <1>5, QuietTrans
  <2> QED BY <2>3 DEF z
<1>6. CASE y.d[o].state = Unknown /\ z = yn
  <2>1. e \in Memory /\ e.state = Unknown /\ e.stabalize = y.d[o].stabalize
    <3>1. Within(e)
      BY <1>1, ResetType DEF Good
    <3> QED BY <3>1, <1>3, <1>6 DEF Within, ResetSync, Memory
  <2> HIDE DEF e
  <2>2. n.stabalize = e.stabalize /\ n.state = e.state
    BY <2>1 DEF RegisterSync, Memory
  <2> HIDE DEF n
  <2>3. Quiet(y, yn, o) /\ yn.d[o] = n
    BY <2>1, <2>2, <1>1, <1>3, PutQuiet DEF States
  <2> HIDE DEF yn
  <2>4. Quiet(x, z, o) /\ z.d[o].state = Unknown
    BY <2>1, <2>2, <2>3, <1>1, <1>6, QuietTrans
  <2> QED BY <2>4 DEF z
<1> QED BY <1>2, <1>4, <1>5, <1>6

\* The time of the last pulse tells nothing.
LEMMA HeedQuiet ==
  ASSUME NEW x, Good(x), NEW o \in Objects, NEW le
  PROVE  Quiet(x, Heed(x, o, le), o)
<1> DEFINE m == [x.d[o] EXCEPT !.last = le.timestamp]
<1>1. m.stabalize = x.d[o].stabalize
  BY DEF Good, Within, Memory
<1>2. Heed(x, o, le) = [x EXCEPT !.d[o] = m]
  BY DEF Heed
<1> HIDE DEF m
<1> QED BY <1>1, <1>2, PutQuiet

\* What tells of an object's data looks at is the same in m and n.
LEMMA SeeingSame ==
  ASSUME NEW m, NEW n, NEW o, NEW b, Same(m, n), n.sweep = m.sweep
  PROVE  /\ \A e : Seeing(n, o, b, e) => Seeing(m, o, b, e)
         /\ SeeingBehind(n, o, b) => SeeingBehind(m, o, b)
BY DEF Same, Seeing, SeeingBehind, SyncEvent, SweepEvent

\* The confidence that is left after a silence.
LEMMA SilentType ==
  ASSUME NEW m, Within(m), NEW le \in Light
  PROVE  LET diff   == Difference(le.timestamp, m.last)
             silent == IF diff > Second THEN (diff \div Second) * Decay ELSE 0
         IN  m.confidence - silent \in Int /\ m.confidence - silent <= MaxConfidence
<1> DEFINE diff   == Difference(le.timestamp, m.last)
           e      == diff \div Second
           silent == IF diff > Second THEN e * Decay ELSE 0
<1>1. diff \in Nat
  <2>1. le.timestamp \in 0 .. Clock - 1 /\ m.last \in 0 .. Clock - 1
    BY DEF Within, Light, Memory, Timestamps
  <2> QED BY <2>1, Constants DEF Difference, Abs
<1> HIDE DEF diff
<1>2. Second \in Nat \ {0} /\ Decay \in Nat
  BY Constants
<1>3. e \in Nat
  BY <1>1, <1>2
<1> HIDE DEF e
<1>4. e * Decay \in Nat
  BY <1>2, <1>3
<1>5. silent \in Nat
  BY <1>4
<1> HIDE DEF silent
<1>6. m.confidence \in Int /\ m.confidence <= MaxConfidence
  BY DEF Within, Memory
<1>7. m.confidence - silent \in Int /\ m.confidence - silent <= MaxConfidence
  BY <1>5, <1>6, Constants
<1> QED BY <1>7 DEF silent, e, diff

\* What a pulse makes be told is of what its object had seen, and knew its state.
LEMMA PulseTells ==
  ASSUME NEW x, Good(x), x.told = {}, x.behind = FALSE, NEW o \in Objects, NEW s \in Sensors, NEW le \in Light,
         x.d[o].state # Unknown => x.d[o].stabalize = Warmup
  PROVE  LET z == StateBased(x, o, s, le)
         IN  /\ z.d[o].state # Unknown => z.d[o].stabalize = Warmup
             /\ x.d[o].state = Unknown /\ z.d[o].state # Unknown => Anew(z.d[o])
             /\ \A e \in z.told : x.d[o].state # Unknown /\ Seeing(x.d[o], o, x.mode60, e)
             /\ z.behind => x.d[o].state # Unknown /\ SeeingBehind(x.d[o], o, x.mode60)
<1> DEFINE d      == x.d[o]
           diff   == Difference(le.timestamp, d.last)
           silent == IF diff > Second THEN (diff \div Second) * Decay ELSE 0
           v      == d.confidence - silent
           m      == [d EXCEPT !.confidence = v]
           y      == [x EXCEPT !.d[o] = m]
           u      == d.stabalize + 1
           n      == [d EXCEPT !.stabalize = u]
           w      == [x EXCEPT !.d[o] = n]
           p      == AttemptFindState(x, o, le)
           q      == PropagateState(y, o, s, le)
           z      == StateBased(x, o, s, le)
<1>1. Within(d) /\ d \in Memory /\ x \in States
  BY DEF Good, Within
<1>2. d.stabalize \in 0 .. Warmup /\ Warmup \in Nat
  BY <1>1, Constants DEF Memory
<1>3. CASE d.stabalize < Warmup
  <2>1. d.state = Unknown
    BY <1>2, <1>3
  <2>2. z = w
    BY <1>3 DEF StateBased
  <2> HIDE DEF z, d, u
  <2>3. n.state = d.state
    BY <1>1 DEF Memory
  <2> HIDE DEF n
  <2>4. w.d[o] = n /\ w.told = x.told /\ w.behind = x.behind
    BY <1>1 DEF States
  <2> HIDE DEF w
  <2>5. z.d[o].state = Unknown /\ z.told = {} /\ z.behind = FALSE
    BY <2>1, <2>2, <2>3, <2>4
  <2> QED BY <2>5 DEF z
<1>4. CASE ~(d.stabalize < Warmup) /\ d.state = Unknown
  <2>1. z = Heed(p, o, le)
    BY <1>4 DEF StateBased
  <2>2. Good(p)
    BY AttemptStep DEF Step
  <2>3. Quiet(x, p, o) /\ (p.d[o].state # Unknown => Anew(p.d[o]))
    BY <1>4, AttemptQuiet
  <2> HIDE DEF p, z
  <2>4. Quiet(x, z, o)
    BY <2>1, <2>2, <2>3, HeedQuiet, QuietTrans
  <2>5. z.d[o].state # Unknown => Anew(z.d[o])
    BY <2>1, <2>2, <2>3, HeedSame DEF Same, Anew
  <2>6. z.d[o].stabalize = Warmup /\ z.told = {} /\ z.behind = FALSE
    BY <2>4, <1>2, <1>4 DEF Quiet
  <2> QED BY <2>5, <2>6 DEF z
<1>5. CASE ~(d.stabalize < Warmup) /\ d.state # Unknown
  <2>1. z = SetState(x, o, Unknown) \/ z = Heed(q, o, le)
    BY <1>5 DEF StateBased
  <2>2. v \in Int /\ v <= MaxConfidence
    BY <1>1, SilentType
  <2>3. d.state \in 1 .. 12
    BY <1>1, <1>5 DEF Memory, Unknown
  <2> HIDE DEF v
  <2>4. Within(m)
    BY <1>1, <2>2, ConfidenceType
  <2>5. Same(d, m) /\ m.sweep = d.sweep /\ m.stabalize = d.stabalize
    <3> HIDE DEF d
    <3> QED BY <1>1 DEF Same, Memory
  <2> HIDE DEF m
  <2>6. Good(y) /\ y.d[o] = m /\ y.mode60 = x.mode60 /\ y.told = {} /\ y.behind = FALSE
    <3>1. Step(x, y, o) /\ y.d[o] = m
      BY <2>4, Put
    <3>2. y.mode60 = x.mode60 /\ y.told = x.told /\ y.behind = x.behind
      BY <1>1 DEF States
    <3> HIDE DEF y
    <3> QED BY <3>1, <3>2 DEF Step
  <2> HIDE DEF y
  <2>7. d.stabalize = Warmup
    BY <1>2, <1>5
  <2>8. CASE z = SetState(x, o, Unknown)
    <3>1. Quiet(x, z, o)
      BY <2>8, SetStateQuiet
    <3>2. z.d[o].state = Unknown
      BY <2>8, UnknownSet DEF Lost
    <3> HIDE DEF z
    <3>3. z.told = {} /\ z.behind = FALSE /\ z.d[o].state = Unknown
      BY <3>1, <3>2 DEF Quiet
    <3> QED BY <3>3 DEF z
  <2>9. CASE z = Heed(q, o, le)
    <3>1. y.d[o].state \in 1 .. 12
      BY <2>3, <2>5, <2>6 DEF Same
    <3>2. Good(q) /\ Tells(y, q, o)
      BY <2>6, <3>1, PropagateStep, PropagateTells DEF Step
    <3> HIDE DEF q, z
    <3>3. Tells(y, z, o)
      BY <2>9, <3>2, HeedQuiet, QuietTells
    <3>4. z.d[o].stabalize = Warmup
      BY <3>3, <2>5, <2>6, <2>7 DEF Tells
    <3>5. \A e \in z.told : Seeing(d, o, x.mode60, e)
      BY <3>3, <2>5, <2>6, SeeingSame DEF Tells
    <3>6. z.behind => SeeingBehind(d, o, x.mode60)
      BY <3>3, <2>5, <2>6, SeeingSame DEF Tells
    <3> QED BY <3>4, <3>5, <3>6, <1>5 DEF z
  <2> QED BY <2>1, <2>8, <2>9
<1> QED BY <1>3, <1>4, <1>5

\* What an object heard last.
Hearing == [at : Nat, bit : {0, 1}, again : BOOLEAN]

\* h is what an object heard before the pulse le, and g is after it.
Hears(h, g, le) ==
  IF le.of = None THEN g = h
  ELSE g = [at |-> now, bit |-> Bit, again |-> IF h.at = now THEN h.again ELSE (now - h.at) % Group = 0]

\* What is registered in m is the sync that was heard last, or some that are cycles
\* apart, of which it is one.
Registers(m, h) ==
  m.count > 0 /\ m.of # None =>
    /\ m.of <= h.at /\ (h.at - m.of) % Group = 0 /\ (h.again \/ m.of = h.at)
    /\ m.base[Lh[m.state]] <= m.of
    /\ Acode[SlotAt(m.of)] = Acode[m.state]
    /\ \E b \in {0, 1} : m.longest = AcodeTiming(Acode[m.state] + 2 * b) /\ (h.again \/ b = h.bit)
    /\ h.at = now => h.bit = Bit

\* The sync that starts the window that begins now.
SyncOfNow(o, le) ==
  Lit /\ ~IsSweep(Slot) /\ le = [timestamp |-> Stamp(o, now), length |-> SyncLength, of |-> now]

\* States start at different offsets.
LEMMA OffsetOnce ==
  ASSUME NEW i \in 1 .. 12, NEW j \in 1 .. 12, Offset[i] = Offset[j]
  PROVE  i = j
<1>1. i \in 1 .. 13 /\ j \in 1 .. 13
  OBVIOUS
<1>2. Offset[i] \in Nat /\ Offset[j] \in Nat
  BY <1>1, OffsetTable
<1>3. ~(i < j) /\ ~(j < i)
  BY <1>1, <1>2, OffsetsRise
<1> QED BY <1>3

\* The acodes of states of syncs.
LEMMA CodeOf ==
  ASSUME NEW k \in Syncs
  PROVE  Acode[k] \in {0, 1, 4, 5}
<1>1. k \in {1, 2, 4, 5, 7, 8, 10, 11}
  BY DEF Syncs
<1> QED BY <1>1 DEF Acode

\* The sync that starts state k, but a off, is as long as its acode says.
LEMMA SyncCode ==
  ASSUME World, Clockwork, Lit, ~IsSweep(Slot), NEW a \in Int, Shift(a), NEW k \in Syncs,
         (now + a) % Group = Offset[k]
  PROVE  Acode[Slot] = Acode[k] /\ SyncLength = AcodeTiming(Acode[k] + 2 * Bit)
<1>1. PICK j \in Syncs : (now + a) % Group = Offset[j] /\ Acode[j] = Acode[Slot]
  BY ShiftedSlot
<1>2. j = k
  <2>1. j \in 1 .. 12 /\ k \in 1 .. 12
    BY DEF Syncs
  <2> QED BY <2>1, <1>1, OffsetOnce
<1> QED BY <1>1, <1>2 DEF SyncLength

\* A sync that fits the state is registered.
LEMMA CodeFits ==
  ASSUME NEW k \in Syncs, NEW b \in {0, 1}, NEW n, n = AcodeTiming(Acode[k] + 2 * b)
  PROVE  n >= Ticks(400) /\ n > 0 /\ n \in Int /\ CalculateError(Acode[k], n) <= Ticks(800)
<1> DEFINE a == Acode[k]
           A == AcodeTiming(a)
           B == AcodeTiming(a + 2)
<1>1. a \in {0, 1, 4, 5}
  BY CodeOf
<1> HIDE DEF a
<1>2. a \in 0 .. 7 /\ a + 2 \in 0 .. 7 /\ a + 0 = a
  BY <1>1
<1>3. A \in Nat /\ B \in Nat /\ A > 0 /\ B > 0
  BY <1>2, LengthFits
<1>4. A >= Ticks(2750) /\ B >= Ticks(2750)
  <2> DEFINE p == Ticks(2750)
             q == Ticks(500)
             r == Ticks(1000)
             s == Ticks(2000)
  <2>1. p \in Nat /\ q \in Nat /\ r \in Nat /\ s \in Nat
    BY Widths
  <2>2. /\ AcodeTiming(0) = p /\ AcodeTiming(1) = p + q
        /\ AcodeTiming(2) = p + r /\ AcodeTiming(3) = p + q + r
        /\ AcodeTiming(4) = p + s /\ AcodeTiming(5) = p + q + s
        /\ AcodeTiming(6) = p + r + s /\ AcodeTiming(7) = p + q + r + s
    BY Timings
  <2> HIDE DEF p, q, r, s
  <2> QED BY <1>1, <2>1, <2>2 DEF p
<1>5. Ticks(400) <= Ticks(2750) /\ Ticks(400) \in Nat /\ Ticks(2750) \in Nat /\ Ticks(800) \in Nat
  <2>1. Ticks(400) \in Nat /\ Ticks(2350) \in Nat /\ Ticks(2750) \in Nat /\ Ticks(800) \in Nat
    BY TicksType
  <2>2. Ticks(400) + Ticks(2350) <= Ticks(2750)
    BY TicksAdd, 400 + 2350 = 2750
  <2> DEFINE p == Ticks(400)
             q == Ticks(2350)
             r == Ticks(2750)
  <2>3. p <= r
    <3> HIDE DEF p, q, r
    <3>1. p \in Nat /\ q \in Nat /\ r \in Nat /\ p + q <= r
      BY <2>1, <2>2 DEF p, q, r
    <3> QED BY <3>1
  <2> QED BY <2>1, <2>3
<1>6. n = A \/ n = B
  BY <1>2 DEF a
<1> HIDE DEF A, B
<1>7. n \in Nat /\ n >= Ticks(400) /\ n > 0
  <2> DEFINE p == Ticks(400)
             r == Ticks(2750)
  <2>1. p \in Nat /\ r \in Nat /\ p <= r /\ A >= r /\ B >= r
    BY <1>4, <1>5
  <2> HIDE DEF p, r
  <2> QED BY <2>1, <1>3, <1>6 DEF p
<1>8. CalculateError(a, n) = (IF Abs(A - n) > Abs(B - n) THEN Abs(B - n) ELSE Abs(A - n))
  BY DEF CalculateError, A, B
<1>9. CalculateError(a, n) = 0
  BY <1>3, <1>6, <1>8 DEF Abs
<1> QED BY <1>5, <1>7, <1>9 DEF a

\* A time later by whole cycles is in the same slot.
LEMMA SlotAgain ==
  ASSUME NEW t \in Int, NEW u \in Int, NEW a \in Int, Group \in Nat \ {0},
         (t + a) % Group = (u + a) % Group
  PROVE  t % Group = u % Group /\ (u - t) % Group = 0 /\ SlotAt(t) = SlotAt(u)
<1> DEFINE G == Group
           x == t + a
           y == u + a
<1>1. x \in Int /\ y \in Int /\ t = x - a /\ u = y - a /\ u - t = y - x
  OBVIOUS
<1> HIDE DEF G, x, y
<1>2. G \in Nat \ {0} /\ x % G = y % G
  BY DEF G, x, y
<1>3. ((x % G) - a) % G = (x - a) % G /\ ((y % G) - a) % G = (y - a) % G
  BY <1>1, <1>2, StartOf, ZenonT(60)
<1>4. t % G = u % G
  BY <1>1, <1>2, <1>3
<1>5. ((y % G) - x) % G = (y - x) % G /\ ((x % G) - x) % G = (x - x) % G
  BY <1>1, <1>2, StartOf, ZenonT(60)
<1>6. (x - x) % G = 0
  BY <1>1, <1>2
<1>7. (u - t) % G = 0
  BY <1>1, <1>2, <1>5, <1>6
<1>8. SlotAt(t) = SlotAt(u)
  BY <1>4 DEF SlotAt, G
<1> QED BY <1>4, <1>7, <1>8 DEF G

\* Two that are cycles apart, and a third.
LEMMA CyclesApart ==
  ASSUME NEW g \in Nat \ {0}, NEW t \in Int, NEW h \in Int, NEW n \in Int,
         (h - t) % g = 0, (n - t) % g = 0
  PROVE  (n - h) % g = 0
<1> DEFINE c == n - t
           b == h - t
<1>1. c \in Int /\ b \in Int /\ c - b = n - h /\ c % g = 0 /\ b % g = 0
  OBVIOUS
<1> HIDE DEF c, b
<1>2. ((c % g) - b) % g = (c - b) % g /\ ((b % g) - b) % g = (b - b) % g
  BY <1>1, StartOf
<1>3. (b - b) % g = 0
  BY <1>1
<1> QED BY <1>1, <1>2, <1>3

LEMMA RegistersSame ==
  ASSUME NEW m, NEW n, NEW h, Same(m, n), Registers(m, h)
  PROVE  Registers(n, h)
BY DEF Same, Registers

\* A sync that starts the window is registered with those heard before.
LEMMA RegisterHears ==
  ASSUME World, Clockwork, NEW o \in Objects, NEW a \in Int, Shift(a),
         NEW m \in Memory, m.state \in Syncs, Tidy(m), Bases(o, a, m), Open(o, a, m),
         NEW h \in Hearing, h.at <= now, Registers(m, h),
         NEW le \in Light, SyncOfNow(o, le), (now + a) % Group = Offset[m.state],
         NEW g, Hears(h, g, le)
  PROVE  Registers(RegisterSync(m, le), g)
<1> DEFINE r == RegisterSync(m, le)
           A == Acode[m.state]
           l == Lh[m.state]
           G == Group
<1>1. /\ r.state = m.state /\ r.base = m.base /\ r.count = m.count + 1 /\ r.of = Registered(m, le)
      /\ r.longest = (IF le.length > m.longest THEN le.length ELSE m.longest)
  BY RegisterIs
<1>2. now \in Nat /\ G \in Nat \ {0} /\ now # None /\ Bit \in {0, 1}
  BY GroupType, BitType DEF World, None, Group
<1>3. le.of = now /\ le.length = SyncLength
  BY DEF SyncOfNow
<1>4. Acode[Slot] = A /\ SyncLength = AcodeTiming(A + 2 * Bit) /\ SlotAt(now) = Slot
  <2>1. Lit /\ ~IsSweep(Slot)
    BY DEF SyncOfNow
  <2> QED BY <2>1, SyncCode DEF Slot
<1>5. g.at = now /\ g.bit = Bit /\ g.again = (IF h.at = now THEN h.again ELSE (now - h.at) % G = 0)
  BY <1>2, <1>3 DEF Hears
<1>6. l \in {0, 1} /\ m.base[l] <= now /\ m.base[l] \in Int /\ m.count \in Nat /\ m.longest \in Int
  <2>1. m.state \in 1 .. 12
    BY DEF Syncs
  <2>2. l \in {0, 1}
    BY <2>1, LhType
  <2> QED BY <2>2 DEF Memory, Bases
<1>7. le.length > 0 /\ le.length \in Int
  BY <1>2, <1>3, <1>4, CodeFits
<1> HIDE DEF r, A, l, G
<1>8. CASE m.count = 0
  <2>1. r.of = now /\ r.longest = SyncLength
    BY <1>1, <1>3, <1>7, <1>8 DEF Registered, Tidy
  <2>2. (now - now) % G = 0
    BY <1>2
  <2>3. r.of <= g.at /\ (g.at - r.of) % G = 0 /\ r.of = g.at /\ m.base[l] <= r.of
    BY <2>1, <2>2, <1>2, <1>5, <1>6
  <2>4. Acode[SlotAt(r.of)] = A
    BY <2>1, <1>4
  <2>5. r.longest = AcodeTiming(A + 2 * Bit) /\ Bit = g.bit
    BY <2>1, <1>4, <1>5
  <2>6. \E c \in {0, 1} : r.longest = AcodeTiming(A + 2 * c) /\ (g.again \/ c = g.bit)
    BY <2>5, <1>2
  <2>7. Registers(r, g)
    BY <2>3, <2>4, <2>6, <1>1, <1>5 DEF Registers, A, l, G
  <2> QED BY <2>7 DEF r
<1>9. CASE m.count # 0 /\ m.of = None
  <2>1. r.of = None
    BY <1>1, <1>9 DEF Registered
  <2>2. Registers(r, g)
    BY <2>1 DEF Registers
  <2> QED BY <2>2 DEF r
<1>10. CASE m.count # 0 /\ m.of # None
  <2>1. m.count > 0 /\ m.of \in Nat /\ h.at \in Nat /\ h.again \in BOOLEAN /\ h.bit \in {0, 1}
    BY <1>6, <1>10 DEF Memory, Hearing
  <2>2. /\ m.of <= h.at /\ (h.at - m.of) % G = 0 /\ (h.again \/ m.of = h.at)
        /\ m.base[l] <= m.of /\ Acode[SlotAt(m.of)] = A
        /\ h.at = now => h.bit = Bit
    BY <2>1, <1>10 DEF Registers, A, l, G
  <2>3. PICK b \in {0, 1} : m.longest = AcodeTiming(A + 2 * b) /\ (h.again \/ b = h.bit)
    BY <2>1, <1>10 DEF Registers, A
  <2>4. (m.of + a) % G = Offset[m.state]
    BY <2>1, <1>10 DEF Open, G
  <2>5. (now - m.of) % G = 0
    <3>1. (m.of + a) % Group = (now + a) % Group
      BY <2>4 DEF G
    <3>2. m.of \in Int /\ now \in Int /\ Group \in Nat \ {0}
      BY <2>1, <1>2 DEF G
    <3>3. (now - m.of) % Group = 0
      BY <3>1, <3>2, SlotAgain
    <3> QED BY <3>3 DEF G
  <2>6. (now - h.at) % G = 0
    BY <2>1, <2>2, <2>5, <1>2, CyclesApart
  <2>7. r.of \in {now, m.of}
    <3>1. m.state # Unknown /\ le.of # None
      BY <1>2, <1>3 DEF Syncs, Unknown
    <3> QED BY <3>1, <1>1, <1>3, <1>10 DEF Registered
  <2>8. r.longest = SyncLength \/ r.longest = m.longest
    BY <1>1, <1>3
  <2>9. CASE h.at = now
    <3>1. g.again = h.again /\ (h.again \/ (m.of = now /\ b = Bit))
      BY <2>2, <2>3, <2>9, <1>5
    <3>2. r.of <= g.at /\ (g.at - r.of) % G = 0 /\ (g.again \/ r.of = g.at) /\ m.base[l] <= r.of
      <4>1. (now - now) % G = 0
        BY <1>2
      <4> QED BY <4>1, <2>1, <2>2, <2>5, <2>7, <2>9, <1>2, <1>5, <1>6, <3>1
    <3>3. Acode[SlotAt(r.of)] = A
      BY <2>2, <2>7, <1>4
    <3>4. \E c \in {0, 1} : r.longest = AcodeTiming(A + 2 * c) /\ (g.again \/ c = g.bit)
      BY <2>3, <2>8, <3>1, <1>2, <1>4, <1>5
    <3>5. Registers(r, g)
      BY <3>2, <3>3, <3>4, <1>1, <1>5 DEF Registers, A, l, G
    <3> QED BY <3>5 DEF r
  <2>10. CASE h.at # now
    <3>1. g.again = TRUE
      BY <2>6, <2>10, <1>5
    <3>2. r.of <= g.at /\ (g.at - r.of) % G = 0 /\ m.base[l] <= r.of
      <4>1. (now - now) % G = 0
        BY <1>2
      <4> QED BY <4>1, <2>1, <2>2, <2>5, <2>7, <1>2, <1>5, <1>6
    <3>3. Acode[SlotAt(r.of)] = A
      BY <2>2, <2>7, <1>4
    <3>4. \E c \in {0, 1} : r.longest = AcodeTiming(A + 2 * c)
      BY <2>3, <2>8, <1>2, <1>4
    <3>5. Registers(r, g)
      BY <3>1, <3>2, <3>3, <3>4, <1>1, <1>5 DEF Registers, A, l, G
    <3> QED BY <3>5 DEF r
  <2> QED BY <2>9, <2>10
<1> QED BY <1>8, <1>9, <1>10

\* Or the state is lost.
StillHeard(m, g) == m.state = Unknown \/ Registers(m, g)

\* It fits its window; a pulse that does not may be refused, or registered as no sync.
LEMMA ACodeHears ==
  ASSUME World, Clockwork, NEW x, Good(x), NEW o \in Objects, NEW a \in Int, Shift(a), Follows(o, a, x),
         Tidy(x.d[o]), NEW h \in Hearing, h.at <= now, Registers(x.d[o], h),
         NEW le \in Light, le.of = None \/ (SyncOfNow(o, le) /\ x.d[o].state \in Syncs
                                              /\ (now + a) % Group = Offset[x.d[o].state]),
         NEW g, Hears(h, g, le)
  PROVE  StillHeard(RunACodeCapture(x, o, le).d[o], g)
<1> DEFINE d == x.d[o]
           y == IF d.confidence < Penalty THEN SetState(x, o, Unknown) ELSE x
           e == RegisterSync(d, le)
           v == y.d[o].confidence - Penalty
           p == [y.d[o] EXCEPT !.confidence = v]
           c == IF e.confidence < MaxConfidence THEN e.confidence + 1 ELSE e.confidence
           q == [e EXCEPT !.confidence = c]
           yp == [y EXCEPT !.d[o] = p]
           xq == [x EXCEPT !.d[o] = q]
           z == RunACodeCapture(x, o, le)
           fits == ~(le.length < Ticks(400)) /\ ~(CalculateError(Acode[d.state], le.length) > Ticks(800))
<1>1. (z = x /\ ~fits) \/ (z = yp /\ ~fits) \/ z = xq
  BY DEF RunACodeCapture
<1>2. d \in Memory /\ x \in States /\ Bases(o, a, d) /\ Open(o, a, d)
  BY DEF Good, Within, Follows
<1>3. le.of # None => fits
  <2> SUFFICES ASSUME le.of # None PROVE fits
    OBVIOUS
  <2>1. SyncOfNow(o, le) /\ d.state \in Syncs /\ (now + a) % Group = Offset[d.state]
    OBVIOUS
  <2>2. le.length = SyncLength /\ Lit /\ ~IsSweep(Slot)
    BY <2>1 DEF SyncOfNow
  <2>3. SyncLength = AcodeTiming(Acode[d.state] + 2 * Bit)
    BY <2>1, <2>2, SyncCode
  <2>4. le.length >= Ticks(400) /\ le.length \in Int /\ CalculateError(Acode[d.state], le.length) <= Ticks(800)
    BY <2>1, <2>2, <2>3, CodeFits, BitType
  <2> DEFINE w == CalculateError(Acode[d.state], le.length)
  <2>5. Ticks(400) \in Int /\ Ticks(800) \in Int /\ w \in Int
    <3>1. Ticks(400) \in Int /\ Ticks(800) \in Int
      BY TicksType
    <3>2. w \in Int
      <4> DEFINE i == AcodeTiming(Acode[d.state])
                 j == AcodeTiming(Acode[d.state] + 2)
      <4>1. i \in Int /\ j \in Int
        <5>1. Acode[d.state] \in Int
          BY <2>1, CodeOf
        <5> QED BY <5>1, TimingType
      <4>2. w = (IF Abs(i - le.length) > Abs(j - le.length) THEN Abs(j - le.length) ELSE Abs(i - le.length))
        BY DEF CalculateError
      <4> HIDE DEF i, j, w
      <4> QED BY <4>1, <4>2, <2>4 DEF Abs
    <3> QED BY <3>1, <3>2
  <2> HIDE DEF w
  <2> QED BY <2>4, <2>5 DEF w
<1>4. le.of = None => g = h
  BY DEF Hears
<1> HIDE DEF fits
<1>5. CASE z = x /\ ~fits
  <2>1. g = h
    BY <1>3, <1>4, <1>5
  <2> HIDE DEF z
  <2> QED BY <2>1, <1>5 DEF StillHeard, z
<1>6. CASE z = yp /\ ~fits
  <2>1. g = h
    BY <1>3, <1>4, <1>6
  <2>2. Good(y) /\ StillHeard(y.d[o], h)
    <3>1. CASE d.confidence < Penalty
      <4>1. y = SetState(x, o, Unknown)
        BY <3>1
      <4>2. 0 \in 0 .. 13
        OBVIOUS
      <4> HIDE DEF y
      <4> QED BY <4>1, <4>2, UnknownSet, SetStateStep DEF StillHeard, Lost, Step, Unknown
    <3>2. CASE ~(d.confidence < Penalty)
      <4>1. y = x
        BY <3>2
      <4> HIDE DEF y
      <4> QED BY <4>1 DEF StillHeard
    <3> QED BY <3>1, <3>2
  <2>3. y.d[o] \in Memory /\ y \in States
    BY <2>2 DEF Good, Within
  <2> HIDE DEF y, v
  <2>4. Same(y.d[o], p)
    BY <2>3 DEF Same, Memory
  <2> HIDE DEF p
  <2>5. yp.d[o] = p
    BY <2>3 DEF States
  <2> HIDE DEF yp, z
  <2>6. StillHeard(z.d[o], g)
    BY <2>1, <2>2, <2>4, <2>5, <1>6, RegistersSame DEF StillHeard, Same
  <2> QED BY <2>6 DEF z
<1>7. CASE z = xq
  <2>1. Registers(e, g)
    <3>1. CASE le.of = None
      <4>1. e.of = Registered(d, le)
        BY <1>2, RegisterIs
      <4>2. e.of = None
        BY <4>1, <3>1 DEF Registered
      <4> HIDE DEF e
      <4> QED BY <4>2 DEF Registers
    <3>2. CASE le.of # None
      <4> HIDE DEF d
      <4> QED BY <3>2, <1>2, RegisterHears DEF d
    <3> QED BY <3>1, <3>2
  <2>2. Same(e, q)
    BY DEF Same, RegisterSync
  <2> HIDE DEF e, q
  <2>3. xq.d[o] = q
    BY <1>2 DEF States
  <2> HIDE DEF xq, z
  <2>4. StillHeard(z.d[o], g)
    BY <2>1, <2>2, <2>3, <1>7, RegistersSame DEF StillHeard
  <2> QED BY <2>4 DEF z
<1> QED BY <1>1, <1>5, <1>6, <1>7

\* The hits of a sweep register nothing.
LEMMA CaptureSame ==
  ASSUME NEW x, Good(x), NEW o \in Objects, NEW s \in Sensors, NEW le
  PROVE  Same(x.d[o], CaptureSweep(x, o, s, le).d[o])
<1> DEFINE d == x.d[o]
           w == [d.sweep EXCEPT ![s] = le]
           c == IF le.length > Ticks(3000) THEN d.confidence - 1 ELSE d.confidence
           m == [d EXCEPT !.sweep = w, !.confidence = c]
           xm == [x EXCEPT !.d[o] = m]
           y == CaptureSweep(x, o, s, le)
<1>1. d \in Memory /\ x \in States
  BY DEF Good, Within
<1>2. y = x \/ y = xm
  <2>1. [d EXCEPT !.sweep[s] = le, !.confidence = c] = m
    BY <1>1 DEF Memory
  <2> HIDE DEF m
  <2> QED BY <2>1 DEF CaptureSweep
<1> HIDE DEF y, w, c
<1>3. Same(d, m)
  <2> HIDE DEF d
  <2> QED BY <1>1 DEF Same, Memory
<1> HIDE DEF m
<1>4. xm.d[o] = m
  BY <1>1 DEF States
<1> HIDE DEF xm
<1>5. Same(d, y.d[o])
  BY <1>2, <1>3, <1>4 DEF Same
<1> QED BY <1>5 DEF y, d

\* Another window is entered with nothing registered.
LEMMA PropagateHears ==
  ASSUME World, Clockwork, NEW x, Good(x), NEW o \in Objects, NEW a \in Int, Shift(a), Follows(o, a, x),
         Tidy(x.d[o]), NEW h \in Hearing, h.at <= now, Registers(x.d[o], h), NEW s \in Sensors,
         NEW le \in Light, le.of = None \/ SyncOfNow(o, le), Placed(o, a, x.d[o], le),
         NEW g, Hears(h, g, le)
  PROVE  StillHeard(PropagateState(x, o, s, le).d[o], g)
<1> DEFINE d == x.d[o]
           k == FindByOffset(ApplyModOffset(Centre(le), d.mod[Lh[d.state]], EndOfMod(x.mode60))).state
           y == IF k = d.state THEN x ELSE ProcessStateChange(x, o, k)
           z == PropagateState(x, o, s, le)
<1>1. d \in Memory /\ x \in States /\ d.state \in 1 .. 12 /\ x.mode60 = world60
  BY SMTT(30) DEF Good, Within, Follows
<1>2. k \in 1 .. 13
  <2>1. d.mod[Lh[d.state]] \in Int
    <3>1. d.mod \in [{0, 1} -> Timestamps]
      BY <1>1 DEF Memory
    <3>2. Lh[d.state] \in {0, 1}
      BY <1>1, LhType
    <3> QED BY <3>1, <3>2, Constants DEF Timestamps
  <2>2. x.mode60 \in BOOLEAN
    BY <1>1 DEF States
  <2> QED BY <2>1, <2>2, CentreType, WindowFound
<1>3. k = Found(d, Lh[d.state], le)
  BY <1>1 DEF Found, Group
<1>4. le.of # None => k \in Syncs /\ (now + a) % Group = Offset[k]
  <2> SUFFICES ASSUME le.of # None PROVE k \in Syncs /\ (now + a) % Group = Offset[k]
    OBVIOUS
  <2>1. le.of = now
    BY DEF SyncOfNow
  <2> HIDE DEF k
  <2> QED BY <2>1, <1>3, SMTT(30) DEF Placed, Begins
<1>5. z = IF IsSweep(y.d[o].state) THEN CaptureSweep(y, o, s, le) ELSE RunACodeCapture(y, o, le)
  BY DEF PropagateState
<1> HIDE DEF k, z
<1>6. Good(y)
  BY <1>2, <1>1, ProcessStep, StepSelf DEF Step
<1>7. /\ Tidy(y.d[o]) /\ y.d[o].state = (IF k = 13 THEN 1 ELSE k)
      /\ Follows(o, a, y) /\ Registers(y.d[o], h)
  <2>1. CASE k = d.state
    <3>1. y = x
      BY <2>1
    <3> HIDE DEF y
    <3> QED BY <3>1, <2>1, <1>1
  <2>2. CASE k # d.state
    <3>1. y = ProcessStateChange(x, o, k)
      BY <2>2
    <3> HIDE DEF y
    <3>2. /\ Kempt(y.d[o]) /\ y.d[o].state = (IF k = 13 THEN 1 ELSE k) /\ y.d[o].count = 0
          /\ Follows(o, a, y)
      BY <3>1, <1>1, <1>2, ChangeFollows
    <3> QED BY <3>2 DEF Kempt, Registers
  <2> QED BY <2>1, <2>2
<1> HIDE DEF y
<1>8. CASE IsSweep(y.d[o].state)
  <2>1. z = CaptureSweep(y, o, s, le)
    BY <1>5, <1>8
  <2>2. le.of = None
    <3>1. ASSUME le.of # None PROVE FALSE
      <4>1. k \in Syncs
        BY <1>4, <3>1
      <4>2. k # 13 /\ ~IsSweep(k)
        BY <4>1 DEF Syncs, IsSweep
      <4> QED BY <4>2, <1>7, <1>8
    <3> QED BY <3>1
  <2>3. g = h
    BY <2>2 DEF Hears
  <2>4. Same(y.d[o], z.d[o])
    BY <2>1, <1>6, CaptureSame
  <2> QED BY <2>3, <2>4, <1>7, RegistersSame DEF StillHeard, z
<1>9. CASE ~IsSweep(y.d[o].state)
  <2>1. z = RunACodeCapture(y, o, le)
    BY <1>5, <1>9
  <2>2. le.of = None \/ (SyncOfNow(o, le) /\ y.d[o].state \in Syncs /\ (now + a) % Group = Offset[y.d[o].state])
    <3>1. k \in Syncs => k # 13
      BY DEF Syncs
    <3> QED BY <3>1, <1>4, <1>7
  <2> QED BY <2>1, <2>2, <1>6, <1>7, ACodeHears DEF z
<1> QED BY <1>8, <1>9

\* So what is registered is what was heard, after any pulse.
LEMMA PulseHears ==
  ASSUME World, Clockwork, NEW x, Good(x), NEW o \in Objects, x.d[o].state # Unknown,
         x.d[o].stabalize = Warmup, Ready(o, x.d[o]), NEW a \in Int, Shift(a), Follows(o, a, x),
         NEW h \in Hearing, h.at <= now, Registers(x.d[o], h), NEW s \in Sensors,
         NEW le \in Light, le.of = None \/ SyncOfNow(o, le), Placed(o, a, x.d[o], le),
         NEW g, Hears(h, g, le)
  PROVE  StillHeard(StateBased(x, o, s, le).d[o], g)
<1> DEFINE d      == x.d[o]
           diff   == Difference(le.timestamp, d.last)
           silent == IF diff > Second THEN (diff \div Second) * Decay ELSE 0
           v      == d.confidence - silent
           m      == [d EXCEPT !.confidence = v]
           y      == [x EXCEPT !.d[o] = m]
           q      == PropagateState(y, o, s, le)
           z      == StateBased(x, o, s, le)
<1>1. Within(d) /\ d \in Memory /\ x \in States
  BY DEF Good, Within
<1>2. ~(d.stabalize < Warmup)
  BY Constants
<1>3. z = SetState(x, o, Unknown) \/ z = Heed(q, o, le)
  BY <1>2 DEF StateBased
<1>4. v \in Int /\ v <= MaxConfidence
  BY <1>1, SilentType
<1>5. d.state \in 1 .. 12
  BY <1>1, SMTT(30) DEF Memory, Unknown
<1> HIDE DEF v
<1>6. Within(m)
  BY <1>1, <1>4, ConfidenceType
<1>7. Same(d, m)
  <2> HIDE DEF d
  <2> QED BY <1>1 DEF Same, Memory
<1> HIDE DEF m
<1>8. Good(y) /\ y.d[o] = m /\ y.mode60 = x.mode60
  <2>1. Step(x, y, o) /\ y.d[o] = m
    BY <1>6, Put
  <2>2. y.mode60 = x.mode60
    BY <1>1 DEF States
  <2> HIDE DEF y
  <2> QED BY <2>1, <2>2 DEF Step
<1> HIDE DEF y
<1>9. CASE z = SetState(x, o, Unknown)
  <2>1. z.d[o].state = Unknown
    BY <1>9, UnknownSet DEF Lost
  <2> HIDE DEF z
  <2>2. StillHeard(z.d[o], g)
    BY <2>1 DEF StillHeard
  <2> QED BY <2>2 DEF z
<1>10. CASE z = Heed(q, o, le)
  <2>1. m.state = d.state /\ m.mod = d.mod /\ Tidy(m)
    BY <1>7 DEF Same, Ready, Tidy
  <2>2. Placed(o, a, m, le)
    BY <2>1 DEF Placed, Found
  <2>3. Follows(o, a, y)
    BY <1>7, <1>8, SameMoves
  <2>4. Registers(m, h)
    BY <1>7, RegistersSame
  <2>5. Good(q)
    BY <1>5, <1>8, <2>1, PropagateStep DEF Step
  <2>6. StillHeard(q.d[o], g)
    BY <1>8, <2>1, <2>2, <2>3, <2>4, PropagateHears
  <2> HIDE DEF q, z
  <2>7. Same(q.d[o], z.d[o])
    BY <1>10, <2>5, HeedSame
  <2>8. StillHeard(z.d[o], g)
    BY <2>6, <2>7, RegistersSame DEF StillHeard, Same
  <2> QED BY <2>8 DEF z
<1> QED BY <1>3, <1>9, <1>10

\* The invariant: what is registered in an object that is not astray is what it heard.
HeardInv ==
  /\ heard \in [Objects -> Hearing]
  /\ \A o \in Objects : /\ heard[o].at <= now
                        /\ Known(o) => disamb[o].stabalize = Warmup
                        /\ Known(o) /\ ~astray[o] => Registers(disamb[o], heard[o])

\* What an object hears of a pulse.
LEMMA LightIsHeard ==
  ASSUME TypeOK, heard \in [Objects -> Hearing],
         NEW o \in Objects, NEW s \in Sensors, Sync(o, s) \/ Sweep(o, s) \/ Stray(o, s)
  PROVE  /\ heard' \in [Objects -> Hearing]
         /\ \A p \in Objects \ {o} : heard'[p] = heard[p]
         /\ heard[o].at <= now => heard'[o].at <= now
         /\ \E le \in Light : /\ Pulse(o, s, le)
                              /\ le.of = None \/ SyncOfNow(o, le)
                              /\ Hears(heard[o], heard'[o], le)
<1>0. World
  BY Parts
<1>1. CASE Sync(o, s)
  <2> DEFINE le == [timestamp |-> Stamp(o, now), length |-> SyncLength, of |-> now]
             g == [at |-> now, bit |-> Bit,
                   again |-> IF heard[o].at = now THEN heard[o].again ELSE (now - heard[o].at) % Group = 0]
  <2>1. Pulse(o, s, le) /\ Lit /\ ~IsSweep(Slot) /\ Heard(o, Bit)
    BY <1>1 DEF Sync
  <2>2. le \in Light /\ le.of = now /\ now # None /\ now \in Nat
    BY <1>0, SyncLight DEF World, None
  <2>3. SyncOfNow(o, le)
    BY <2>1 DEF SyncOfNow
  <2> HIDE DEF le
  <2>4. heard' = [heard EXCEPT ![o] = g]
    BY <2>1 DEF Heard
  <2>5. g \in Hearing
    <3>1. heard[o].again \in BOOLEAN /\ Bit \in {0, 1}
      BY <1>0, BitType DEF Hearing
    <3> DEFINE c == IF heard[o].at = now THEN heard[o].again ELSE (now - heard[o].at) % Group = 0
    <3>2. c \in BOOLEAN
      BY <3>1
    <3> HIDE DEF c
    <3> QED BY <2>2, <3>1, <3>2 DEF Hearing, c
  <2>6. g.at = now
    OBVIOUS
  <2>7. Hears(heard[o], g, le)
    BY <2>2 DEF Hears
  <2> HIDE DEF g
  <2>8. heard'[o] = g
    BY <2>4
  <2> QED BY <2>1, <2>2, <2>3, <2>4, <2>5, <2>6, <2>7, <2>8
<1>2. CASE Sweep(o, s) \/ Stray(o, s)
  <2>1. heard' = heard
    BY <1>2 DEF Sweep, Stray
  <2>2. PICK place \in Nat, length \in Nat :
          Pulse(o, s, [timestamp |-> Stamp(o, now + place), length |-> length, of |-> None])
    <3>1. CASE Sweep(o, s)
      <4>1. PICK place \in Places, length \in Lengths :
              Pulse(o, s, [timestamp |-> Stamp(o, now + place), length |-> length, of |-> None])
        BY <3>1 DEF Sweep
      <4>2. place \in Nat /\ length \in Nat
        BY DisambiguatorAssumption
      <4> HIDE DEF Pulse
      <4> QED BY <4>1, <4>2
    <3>2. CASE Stray(o, s)
      <4>1. PICK place \in Strays, length \in Lengths :
              Pulse(o, s, [timestamp |-> Stamp(o, now + place), length |-> length, of |-> None])
        BY <3>2 DEF Stray
      <4>2. place \in Nat /\ length \in Nat
        BY DisambiguatorAssumption
      <4> HIDE DEF Pulse
      <4> QED BY <4>1, <4>2
    <3> QED BY <1>2, <3>1, <3>2
  <2> DEFINE le == [timestamp |-> Stamp(o, now + place), length |-> length, of |-> None]
  <2>3. le \in Light /\ le.of = None
    BY <1>0, OtherLight
  <2>4. Pulse(o, s, le)
    BY <2>2
  <2> HIDE DEF le
  <2>5. Hears(heard[o], heard'[o], le)
    BY <2>1, <2>3 DEF Hears
  <2> QED BY <2>1, <2>3, <2>4, <2>5
<1> QED BY <1>1, <1>2

\* What is registered is what was heard, as long as nothing else is, and as time goes on.
LEMMA RegistersLater ==
  ASSUME UNCHANGED <<world60, data>>, NEW m, NEW h \in Hearing, h.at <= now, now \in Nat, now' \in Nat,
         (now' = now /\ turns' = turns) \/ now < now',
         Registers(m, h)
  PROVE  Registers(m, h)'
<1>1. h.at \in Nat
  BY DEF Hearing
<1>2. h.at = now' => now' = now /\ turns' = turns
  BY <1>1
<1>3. h.at = now' => h.at = now /\ Bit' = Bit
  BY <1>2 DEF Bit
<1>4. Group' = Group /\ \A t : SlotAt(t)' = SlotAt(t)
  BY DEF Group, SlotAt
<1> QED BY <1>3, <1>4 DEF Registers

\* At first nothing is known.
LEMMA HeardInit == ASSUME Init PROVE HeardInv
<1>1. heard = [o \in Objects |-> [at |-> 0, bit |-> 0, again |-> FALSE]] /\ now = 0
  BY DEF Init
<1>2. \A o \in Objects : ~Known(o)
  <2>1. Blank.state = Unknown
    BY DEF Blank
  <2>2. disamb = [o \in Objects |-> Blank]
    BY DEF Init
  <2> HIDE DEF Blank
  <2> QED BY <2>1, <2>2 DEF Known
<1> QED BY <1>1, <1>2 DEF HeardInv, Hearing

\* The time goes on, or nothing that was registered changes.
LEMMA HeardKept ==
  ASSUME TypeOK, HeardInv, TypeOK', UNCHANGED <<world60, data, heard>>,
         (now' = now /\ turns' = turns) \/ now < now',
         \A o \in Objects : Known(o)' => disamb'[o] = disamb[o] /\ (~astray'[o] => ~astray[o])
  PROVE  HeardInv'
<1>1. now \in Nat /\ now' \in Nat
  BY DEF TypeOK
<1>2. ASSUME NEW o \in Objects
      PROVE  /\ heard[o].at <= now'
             /\ Known(o)' => disamb'[o].stabalize = Warmup
             /\ Known(o)' /\ ~astray'[o] => Registers(disamb[o], heard[o])'
  <2>1. heard[o] \in Hearing /\ heard[o].at <= now /\ heard[o].at \in Nat
    BY DEF HeardInv, Hearing
  <2>2. Known(o)' => Known(o)
    BY DEF Known
  <2>3. ASSUME Known(o)', ~astray'[o] PROVE Registers(disamb[o], heard[o])'
    <3>1. Registers(disamb[o], heard[o])
      BY <2>2, <2>3 DEF HeardInv
    <3>2. \A m : m = disamb[o] => \A h : h = heard[o] => Registers(m, h)'
      <4> SUFFICES ASSUME NEW m, m = disamb[o], NEW h, h = heard[o] PROVE Registers(m, h)'
        OBVIOUS
      <4>1. Registers(m, h) /\ h \in Hearing /\ h.at <= now
        BY <3>1, <2>1
      <4> QED BY <4>1, <1>1, RegistersLater
    <3>3. disamb'[o] = disamb[o] /\ heard'[o] = heard[o]
      BY <2>3
    <3> QED BY <3>2, <3>3 DEF Registers
  <2> QED BY <1>1, <2>1, <2>2, <2>3 DEF HeardInv
<1> QED BY <1>2 DEF HeardInv

\* A pulse reaches an object,
LEMMA LightHeard ==
  ASSUME TypeOK, LockInv, HeardInv, TypeOK', NEW o \in Objects, NEW s \in Sensors,
         Sync(o, s) \/ Sweep(o, s) \/ Stray(o, s)
  PROVE  HeardInv'
<1>1. World /\ Clockwork
  BY Parts DEF LockInv
<1>2. boot' = boot /\ world60' = world60 /\ data' = data /\ now' = now /\ turns' = turns
  BY LightIsPulse
<1>3. PICK le \in Light : /\ Pulse(o, s, le)
                          /\ le.of = None \/ SyncOfNow(o, le)
                          /\ Hears(heard[o], heard'[o], le)
  BY LightIsHeard DEF HeardInv
<1>4. /\ heard' \in [Objects -> Hearing]
      /\ \A p \in Objects \ {o} : heard'[p] = heard[p]
      /\ heard'[o].at <= now
  BY LightIsHeard DEF HeardInv
<1> DEFINE z == StateBased(Before, o, s, le)
           d == disamb[o]
           h == heard[o]
<1>5. disamb' = z.d
  BY <1>3 DEF Pulse, Before
<1>6. Before.d = disamb /\ Before.told = {} /\ Before.behind = FALSE /\ Good(Before)
  BY GoodBefore DEF Before
<1>7. \A p \in Objects : astray'[p] =
         (IF p # o THEN astray[p] \/ (Unsure(p) /\ mode60' # mode60)
          ELSE \/ Known(p) /\ astray[p]
               \/ /\ disamb'[p].state # Unknown
                  /\ Misled(disamb'[p]) \/ Stale(disamb'[p], now)
                       \/ (~Known(p) /\ ~Telling(p, disamb'[p].history)))
  BY <1>3 DEF Pulse
<1>8. /\ z.d[o].state # Unknown => z.d[o].stabalize = Warmup
      /\ d.state = Unknown /\ z.d[o].state # Unknown => Anew(z.d[o])
  <2>1. Before.d[o].state # Unknown => Before.d[o].stabalize = Warmup
    BY <1>6 DEF HeardInv, Known
  <2> HIDE DEF Before
  <2> QED BY <2>1, <1>6, PulseTells
<1>9. h \in Hearing /\ h.at <= now /\ heard'[o] \in Hearing /\ now \in Nat
  BY <1>4, <1>1 DEF HeardInv, World
<1>10. ASSUME Known(o)', ~astray'[o] PROVE Registers(disamb'[o], heard'[o])
  <2>1. z.d[o].state # Unknown
    BY <1>5, <1>10 DEF Known
  <2>2. CASE ~Known(o)
    <3>1. z.d[o].count = 0
      BY <1>8, <2>1, <2>2 DEF Known, Anew
    <3> HIDE DEF z
    <3> QED BY <3>1, <1>5 DEF Registers
  <2>3. CASE Known(o)
    <3>1. ~astray[o]
      BY <1>7, <1>10, <2>3
    <3>2. Rightly(o) /\ Ready(o, d) /\ Registers(d, h) /\ d.stabalize = Warmup /\ d.state # Unknown
      BY <2>3, <3>1 DEF LockInv, HeardInv, Known
    <3>3. PICK a \in Int : Shift(a) /\ Follows(o, a, Before)
      BY <3>2 DEF Rightly
    <3>4. d.state \in 1 .. 12 /\ Bases(o, a, d) /\ d \in Memory
      BY <3>3, <1>6 DEF Follows, TypeOK
    <3>5. ~Stale(d, now)
      BY <3>2 DEF Rightly
    <3>6. Placed(o, a, d, le)
      BY <3>3, <3>4, <3>5, <1>1, <1>3, SyncRight DEF SyncOfNow
    <3>7. /\ Ready(o, Before.d[o]) /\ Registers(Before.d[o], h) /\ Before.d[o].stabalize = Warmup
          /\ Before.d[o].state # Unknown /\ Placed(o, a, Before.d[o], le)
      BY <3>2, <3>6, <1>6
    <3> HIDE DEF Before, h
    <3>8. StillHeard(z.d[o], heard'[o])
      BY <1>1, <1>3, <1>6, <1>9, <3>3, <3>7, PulseHears DEF h
    <3> QED BY <3>8, <2>1, <1>5 DEF StillHeard
  <2> QED BY <2>2, <2>3
<1> HIDE DEF z
<1>11. /\ Known(o)' => disamb'[o].stabalize = Warmup
       /\ Known(o)' /\ ~astray'[o] => Registers(disamb[o], heard[o])'
  <2>1. Known(o)' => disamb'[o].stabalize = Warmup
    BY <1>5, <1>8 DEF Known
  <2>2. ASSUME Known(o)', ~astray'[o] PROVE Registers(disamb[o], heard[o])'
    <3>1. Bit' = Bit /\ Group' = Group /\ \A t : SlotAt(t)' = SlotAt(t)
      BY <1>2 DEF Group, SlotAt, Bit
    <3> QED BY <3>1, <1>2, <1>10, <2>2 DEF Registers
  <2> QED BY <2>1, <2>2
<1>12. ASSUME NEW p \in Objects, p # o
       PROVE  /\ heard'[p].at <= now'
              /\ Known(p)' => disamb'[p].stabalize = Warmup
              /\ Known(p)' /\ ~astray'[p] => Registers(disamb[p], heard[p])'
  <2>1. disamb'[p] = disamb[p] /\ heard'[p] = heard[p]
    BY <1>3, <1>4, <1>12, PulseCode
  <2>2. Known(p)' => Known(p)
    BY <2>1 DEF Known
  <2>3. ~astray'[p] => ~astray[p]
    BY <1>7, <1>12
  <2>4. ASSUME Known(p)', ~astray'[p] PROVE Registers(disamb[p], heard[p])'
    <3>1. Registers(disamb[p], heard[p])
      BY <2>2, <2>3, <2>4 DEF HeardInv
    <3>2. Bit' = Bit /\ Group' = Group /\ \A t : SlotAt(t)' = SlotAt(t)
      BY <1>2 DEF Group, SlotAt, Bit
    <3> QED BY <3>1, <3>2, <2>1, <1>2 DEF Registers
  <2> QED BY <2>1, <2>2, <2>4, <1>2 DEF HeardInv
<1> QED BY <1>2, <1>4, <1>11, <1>12 DEF HeardInv

\* so it holds after each step.
LEMMA HeardIsRight == TypeOK /\ TypeOK' /\ LockInv /\ HeardInv /\ [Next]_vars => HeardInv'
<1> SUFFICES ASSUME TypeOK, TypeOK', LockInv, HeardInv, [Next]_vars PROVE HeardInv'
  OBVIOUS
<1>1. CASE Turn
  <2>1. World
    BY Parts
  <2>2. now < now'
    <3>1. Slot \in 1 .. 12
      BY <2>1, SlotType
    <3> HIDE DEF Slot
    <3>2. Offset[Slot] \in Int /\ Offset[Slot + 1] \in Int /\ Offset[Slot] < Offset[Slot + 1]
      BY <3>1, OffsetTable
    <3>3. now' = now + Window(Slot) /\ now \in Nat
      BY <1>1, <2>1 DEF Turn, World
    <3> QED BY <3>2, <3>3 DEF Window
  <2>3. \A o \in Objects : astray'[o] = (Known(o) /\ (astray[o] \/ Stale(disamb[o], now')))
    BY <1>1 DEF Turn
  <2>4. disamb' = disamb /\ UNCHANGED <<world60, data, heard>>
    BY <1>1 DEF Turn
  <2>5. \A o \in Objects : Known(o)' => Known(o)
    BY <2>4 DEF Known
  <2> QED BY <2>2, <2>3, <2>4, <2>5, HeardKept
<1>2. CASE Look
  <2>1. \A o \in Objects : astray'[o] = (astray[o] \/ (Known(o) /\ ~Near(Seen(o, now), now)))
    BY <1>2 DEF Look
  <2>2. disamb' = disamb /\ UNCHANGED <<world60, data, heard, now, turns>>
    BY <1>2 DEF Look
  <2> QED BY <2>1, <2>2, HeardKept
<1>3. ASSUME NEW o \in Objects, Destroy(o) PROVE HeardInv'
  <2>1. \A p \in Objects : astray'[p] = (p # o /\ (astray[p] \/ (Known(p) /\ mode60)))
    BY <1>3 DEF Destroy
  <2>2. disamb' = [disamb EXCEPT ![o] = Blank] /\ UNCHANGED <<world60, data, heard, now, turns>>
    BY <1>3 DEF Destroy
  <2>3. Blank.state = Unknown
    BY DEF Blank
  <2> HIDE DEF Blank
  <2>4. \A p \in Objects : Known(p)' => p # o /\ disamb'[p] = disamb[p]
    BY <2>2, <2>3 DEF Known, TypeOK
  <2> QED BY <2>1, <2>2, <2>4, HeardKept
<1>4. ASSUME NEW o \in Objects, NEW s \in Sensors, Sync(o, s) \/ Sweep(o, s) \/ Stray(o, s)
      PROVE  HeardInv'
  BY <1>4, LightHeard
<1>5. CASE UNCHANGED vars
  BY <1>5, HeardKept DEF vars, code, light
<1> QED BY <1>1, <1>2, <1>3, <1>4, <1>5 DEF Next

\* The time of a stamp is found from it, if it is not long ago.
LEMMA TimeFound ==
  ASSUME World, NEW o \in Objects, NEW t \in Int, t <= now + Window(Slot), 2 * (now - t) < Clock
  PROVE  TimeOf(o, Stamp(o, t)) = t
<1> DEFINE W   == Window(Slot)
           end == now + W
           A   == end + boot[o]
           B   == t + boot[o]
           C   == Clock
<1>1. boot[o] \in Int /\ now \in Int /\ C \in Nat \ {0}
  BY DisambiguatorAssumption DEF World
<1>2. W \in Nat /\ 2 * W < C
  <2>1. Slot \in 1 .. 12 /\ W \in Nat
    BY SlotType
  <2> HIDE DEF Slot
  <2>2. Slot + 1 \in 1 .. 13 /\ 13 \in 1 .. 13 /\ Slot \in 1 .. 13
    BY <2>1
  <2>3. Offset[Slot + 1] <= Offset[13]
    <3>1. Slot + 1 < 13 \/ Slot + 1 = 13
      BY <2>1
    <3> QED BY <3>1, <2>2, OffsetsRise, OffsetTable
  <2>4. Offset[Slot] \in Nat /\ Offset[Slot + 1] \in Nat /\ Offset[13] \in Nat
    BY <2>2, OffsetTable
  <2>5. W <= Offset[13]
    BY <2>3, <2>4 DEF Window
  <2>6. 2 * Offset[13] < C
    BY ClockAssumption DEF End
  <2> HIDE DEF W
  <2> QED BY <2>1, <2>4, <2>5, <2>6, <1>1
<1>3. TimeOf(o, Stamp(o, t)) = end - (((A % C) - (B % C)) % C)
  BY DEF TimeOf, Stamp
<1> HIDE DEF W, C
<1>4. A \in Int /\ B \in Int /\ A - B = end - t /\ end \in Int
  BY <1>1, <1>2
<1>5. end - t \in 0 .. C - 1
  BY <1>1, <1>2 DEF C, W
<1> HIDE DEF A, B, end
<1>6. B % C \in Int /\ -(A) \in Int
  BY <1>1, <1>4
<1>7. ((A % C) - (B % C)) % C = (A - (B % C)) % C
  BY <1>1, <1>4, <1>6, StartOf
<1>8. (A - (B % C)) % C = (A - B) % C
  <2> DEFINE q == B \div C
  <2>1. q \in Int /\ B = q * C + (B % C)
    BY <1>1, <1>4, Divided
  <2> DEFINE n == A - B
  <2>2. n \in Int /\ q * C \in Int
    BY <1>1, <1>4, <2>1
  <2>3. A - (B % C) = n + q * C
    BY <1>4, <1>6, <2>1, <2>2
  <2> HIDE DEF n, q
  <2>4. (n + q * C) % C = n % C
    BY <1>1, <2>1, <2>2, ModShift
  <2> QED BY <2>3, <2>4 DEF n
<1>9. (end - t) % C = end - t
  BY <1>1, <1>5
<1> QED BY <1>3, <1>4, <1>7, <1>8, <1>9

\* The data bit that is told fits the length of the sync better.
LEMMA BitTold ==
  ASSUME NEW k \in Syncs, NEW b \in {0, 1}, NEW n, n = AcodeTiming(Acode[k] + 2 * b)
  PROVE  (IF Abs(AcodeTiming(Acode[k] + 2) - n) < Abs(AcodeTiming(Acode[k]) - n)
          THEN Acode[k] + 2 ELSE Acode[k]) = Acode[k] + 2 * b
<1> DEFINE a == Acode[k]
           A == AcodeTiming(a)
           B == AcodeTiming(a + 2)
<1>1. a \in {0, 1, 4, 5}
  BY CodeOf
<1> HIDE DEF a
<1>2. A \in Int /\ B \in Int /\ A < B
  <2> DEFINE p == Ticks(2750)
             q == Ticks(500)
             r == Ticks(1000)
             s == Ticks(2000)
  <2>1. p \in Nat /\ q \in Nat \ {0} /\ r \in Nat /\ s \in Nat /\ 2 * q <= r
    BY Widths
  <2>2. /\ AcodeTiming(0) = p /\ AcodeTiming(1) = p + q
        /\ AcodeTiming(2) = p + r /\ AcodeTiming(3) = p + q + r
        /\ AcodeTiming(4) = p + s /\ AcodeTiming(5) = p + q + s
        /\ AcodeTiming(6) = p + r + s /\ AcodeTiming(7) = p + q + r + s
    BY Timings
  <2> HIDE DEF p, q, r, s
  <2> QED BY <1>1, <2>1, <2>2
<1>3. (b = 0 /\ n = A) \/ (b = 1 /\ n = B)
  <2>1. a + 2 * 0 = a /\ a + 2 * 1 = a + 2
    BY <1>1
  <2> QED BY <2>1 DEF a
<1> HIDE DEF A, B
<1>4. (IF Abs(B - n) < Abs(A - n) THEN a + 2 ELSE a) = a + 2 * b
  BY <1>1, <1>2, <1>3 DEF Abs
<1> QED BY <1>4 DEF a, A, B

\* What is told is of what was known and is not astray.
LEMMA ToldIs ==
  ASSUME TypeOK, HeardInv, NEW o \in Objects, NEW s \in Sensors,
         Sync(o, s) \/ Sweep(o, s) \/ Stray(o, s), NEW e \in told'
  PROVE  /\ Known(o) /\ Seeing(disamb[o], o, mode60, e)
         /\ ~astray'[o] => ~astray[o]
<1>1. PICK le \in Light : Pulse(o, s, le)
  BY LightIsPulse
<1> DEFINE z == StateBased(Before, o, s, le)
<1>2. told' = z.told
  BY <1>1 DEF Pulse, Before
<1>3. Before.d = disamb /\ Before.told = {} /\ Before.behind = FALSE /\ Before.mode60 = mode60 /\ Good(Before)
  BY GoodBefore DEF Before
<1> HIDE DEF Before
<1>4. Before.d[o].state # Unknown => Before.d[o].stabalize = Warmup
  BY <1>3 DEF HeardInv, Known
<1>5. \A f \in z.told : Before.d[o].state # Unknown /\ Seeing(Before.d[o], o, Before.mode60, f)
  BY <1>3, <1>4, PulseTells
<1> HIDE DEF z
<1>6. Known(o) /\ Seeing(disamb[o], o, mode60, e)
  BY <1>2, <1>3, <1>5 DEF Known
<1>7. Known(o) /\ astray[o] => astray'[o]
  BY <1>1 DEF Pulse
<1> QED BY <1>6, <1>7

(* What is told of a sync is as SyncTrue says, when its object is right.   *)
LEMMA SyncToldRight ==
  ASSUME TypeOK, LockInv, HeardInv, NEW o \in Objects, Known(o), ~astray[o],
         ~IsSweep(disamb[o].state), disamb[o].count # 0,
         NEW e, e = SyncEvent(disamb[o], o)
  PROVE  LET h == heard[o]
             t == TimeOf(o, e.at)
             k == SlotAt(t)
         IN  /\ t = h.at \/ (h.again /\ (h.at - t) % Group = 0)
             /\ e.acode - Acode[k] \in IF h.again THEN {0, 2} ELSE {2 * h.bit}
             /\ Alias = {} => e.lh = Lh[k]
<1> DEFINE m == disamb[o]
           h == heard[o]
           t == m.of
           j == m.state
<1>1. World /\ Clockwork /\ m \in Memory /\ h \in Hearing
  BY Parts DEF LockInv, HeardInv, TypeOK
<1>2. Rightly(o) /\ Registers(m, h)
  BY DEF LockInv, HeardInv
<1>3. PICK a \in Int : Shift(a) /\ Follows(o, a, Before)
  BY <1>2 DEF Rightly
<1>4. j \in 1 .. 12 /\ Bases(o, a, m) /\ Open(o, a, m)
  BY <1>3 DEF Follows, Before
<1>5. m.count > 0
  BY <1>1 DEF Memory
<1>6. t # None /\ t <= now /\ m.first = Stamp(o, t) /\ (t + a) % Group = Offset[j]
  BY <1>4, <1>5 DEF Open
<1>7. t \in Nat /\ now \in Nat
  BY <1>1, <1>6 DEF Memory, World
<1>8. /\ t <= h.at /\ (h.at - t) % Group = 0 /\ (h.again \/ t = h.at)
      /\ m.base[Lh[j]] <= t /\ Acode[SlotAt(t)] = Acode[j]
  BY <1>2, <1>5, <1>6 DEF Registers
<1>9. PICK b \in {0, 1} : m.longest = AcodeTiming(Acode[j] + 2 * b) /\ (h.again \/ b = h.bit)
  BY <1>2, <1>5, <1>6 DEF Registers
<1>10. 2 * (now - t) < Clock
  <2> DEFINE c == m.base[Lh[j]]
  <2>1. ~(2 * (now + CaptureWindow + PulseWindow - c) >= Clock)
    BY <1>2 DEF Rightly, Stale
  <2>2. c \in Int /\ c <= t
    <3>1. Lh[j] \in {0, 1}
      BY <1>4, LhType
    <3> HIDE DEF j, t
    <3> QED BY <3>1, <1>1, <1>8 DEF Memory
  <2>3. PulseWindow \in Nat /\ CaptureWindow \in Nat /\ Clock \in Nat
    BY Widths, Constants
  <2> HIDE DEF c, t
  <2> QED BY <2>1, <2>2, <2>3, <1>7
<1>11. e.at = m.first /\ e.lh = Lh[j]
       /\ e.acode = (IF Abs(AcodeTiming(Acode[j] + 2) - m.longest) < Abs(AcodeTiming(Acode[j]) - m.longest)
                     THEN Acode[j] + 2 ELSE Acode[j])
  BY DEF SyncEvent
<1>12. j \in Syncs
  BY <1>4 DEF Syncs, IsSweep
<1> HIDE DEF m, h, t, j
<1>13. TimeOf(o, e.at) = t
  <2>1. t <= now + Window(Slot)
    BY <1>1, <1>6, <1>7, SlotType
  <2> QED BY <2>1, <1>1, <1>6, <1>7, <1>10, <1>11, TimeFound
<1>14. e.acode = Acode[j] + 2 * b
  BY <1>9, <1>11, <1>12, BitTold
<1>15. Acode[j] \in Int /\ h.bit \in {0, 1}
  BY <1>1, <1>12, CodeOf DEF Hearing
<1>16. e.acode - Acode[SlotAt(t)] \in IF h.again THEN {0, 2} ELSE {2 * h.bit}
  <2>1. e.acode - Acode[SlotAt(t)] = 2 * b
    BY <1>8, <1>14, <1>15
  <2>2. 2 * b \in {0, 2}
    OBVIOUS
  <2> QED BY <2>1, <2>2, <1>9
<1>17. Alias = {} => e.lh = Lh[SlotAt(t)]
  <2> SUFFICES ASSUME Alias = {} PROVE e.lh = Lh[SlotAt(t)]
    OBVIOUS
  <2>1. a = 0
    BY <1>1, <1>3, ShiftIsAlias DEF World
  <2>2. t % Group = Offset[j]
    BY <2>1, <1>6, <1>7
  <2>3. Offset[j] \in Int /\ Offset[j] < Offset[j + 1]
    BY <1>4, OffsetTable
  <2>4. SlotAt(t) = j
    BY <2>2, <2>3, <1>4, SlotIs
  <2> QED BY <2>4, <1>11
<1> QED BY <1>8, <1>13, <1>16, <1>17 DEF h

(* A sync that is told to the light hook is one the object heard, with its *)
(* time, acode, data bit and lighthouse, whatever was registered since     *)
(* (RunACodeCapture, ProcessStateChange).                                  *)
THEOREM SyncIsTrue == Spec => SyncTrue
<1> DEFINE Event(e) ==
             e.kind = "sync" /\ ~astray'[e.object] =>
               LET h == heard[e.object]
                   t == TimeOf(e.object, e.at)
                   k == SlotAt(t)
               IN  /\ t = h.at \/ (h.again /\ (h.at - t) % Group = 0)
                   /\ e.acode - Acode[k] \in IF h.again THEN {0, 2} ELSE {2 * h.bit}
                   /\ Alias = {} => e.lh = Lh[k]
           A == \A e \in told' : Event(e)
<1>1. TypeOK /\ LockInv /\ HeardInv /\ [Next]_vars => [A]_vars
  <2> SUFFICES ASSUME TypeOK, LockInv, HeardInv, Next PROVE A
    OBVIOUS
  <2>1. CASE Turn \/ Look
    BY <2>1 DEF Turn, Look
  <2>2. ASSUME NEW o \in Objects, Destroy(o) PROVE A
    BY <2>2 DEF Destroy
  <2>3. ASSUME NEW o \in Objects, NEW s \in Sensors, Sync(o, s) \/ Sweep(o, s) \/ Stray(o, s) PROVE A
    <3> SUFFICES ASSUME NEW e \in told', e.kind = "sync", ~astray'[e.object] PROVE Event(e)
      OBVIOUS
    <3>1. Known(o) /\ Seeing(disamb[o], o, mode60, e) /\ (~astray'[o] => ~astray[o])
      BY <2>3, ToldIs
    <3>2. ~IsSweep(disamb[o].state) /\ disamb[o].count # 0 /\ e = SyncEvent(disamb[o], o)
      <4>1. \A t : SweepEvent(disamb[o], o, t, mode60).kind = "sweep"
        BY DEF SweepEvent
      <4> HIDE DEF SweepEvent
      <4> QED BY <3>1, <4>1 DEF Seeing
    <3>3. e.object = o
      BY <3>2 DEF SyncEvent
    <3> HIDE DEF SyncEvent
    <3>4. Event(e)
      BY <3>1, <3>2, <3>3, SyncToldRight
    <3> QED BY <3>4
  <2> QED BY <2>1, <2>2, <2>3 DEF Next
<1>2. Init => LockInv /\ HeardInv
  BY LockInit, HeardInit
<1>3. TypeOK /\ TypeOK' /\ LockInv /\ [Next]_vars => LockInv'
  BY LockNext
<1>4. TypeOK /\ TypeOK' /\ LockInv /\ HeardInv /\ [Next]_vars => HeardInv'
  BY HeardIsRight
<1>5. Spec => []TypeOK
  BY TypeCorrect
<1> QED BY <1>1, <1>2, <1>3, <1>4, <1>5, PTL DEF Spec, SyncTrue

-----------------------------------------------------------------------------
(* What is told of the sweeps                                              *)

\* Where each window starts.
LEMMA Grid ==
  LET H == Quarter
      P == PulseWindow
  IN  /\ Offset[1] = 0          /\ Offset[2] = P          /\ Offset[3] = 2 * P
      /\ Offset[4] = H          /\ Offset[5] = H + P      /\ Offset[6] = H + 2 * P
      /\ Offset[7] = 2 * H      /\ Offset[8] = 2 * H + P  /\ Offset[9] = 2 * H + 2 * P
      /\ Offset[10] = 3 * H     /\ Offset[11] = 3 * H + P /\ Offset[12] = 3 * H + 2 * P
      /\ Offset[13] = 4 * H
<1> DEFINE H == Quarter
           P == PulseWindow
           At(k) == QuarterOf(k) * H + WindowOf(k) * P
<1>1. H \in Nat /\ P \in Nat
  BY Widths
<1>2. \A k \in 1 .. 13 : Offset[k] = At(k)
  BY OnGrid
<1> HIDE DEF H, P
<1>3. /\ At(1) = 0          /\ At(2) = P          /\ At(3) = 2 * P
      /\ At(4) = H          /\ At(5) = H + P      /\ At(6) = H + 2 * P
      /\ At(7) = 2 * H      /\ At(8) = 2 * H + P  /\ At(9) = 2 * H + 2 * P
      /\ At(10) = 3 * H     /\ At(11) = 3 * H + P /\ At(12) = 3 * H + 2 * P
      /\ At(13) = 4 * H
  BY <1>1 DEF QuarterOf, WindowOf
<1> HIDE DEF At
<1> QED BY <1>2, <1>3 DEF H, P

\* A pulse in a window of a sweep is not in the last half of the window before the one
\* before it, nor in the last two units of its own.
LEMMA FoundSweep ==
  ASSUME NEW n \in Nat, n < Offset[13], NEW k, FindByOffset(n).state = k, IsSweep(k)
  PROVE  2 * (Offset[k] - n) < PulseWindow /\ n + 2 <= Offset[k + 1]
<1> DEFINE Fits(i) == Offset[i - 1] <= n /\ n < Offset[i]
           i == CHOOSE i \in 2 .. 13 : Fits(i)
           last == n - Offset[i - 1]
           this == Offset[i] - n
<1>1. \E j \in 2 .. 13 : Fits(j)
  <2>1. PICK j \in 1 .. 12 : Offset[j] <= n /\ n < Offset[j + 1]
    BY InSomeWindow
  <2> QED BY <2>1, j + 1 \in 2 .. 13, (j + 1) - 1 = j
<1>2. i \in 2 .. 13 /\ Fits(i)
  BY <1>1
<1>3. i = CHOOSE j \in 2 .. 13 : Offset[j - 1] <= n /\ n < Offset[j]
  OBVIOUS
<1> HIDE DEF i, Fits
<1>4. FindByOffset(n) = Closest(i, last, this)
  BY <1>3 DEF FindByOffset, End
<1>5. \/ k = i /\ last > this /\ ~(IsSweep(i - 1) /\ this > Ticks(1000))
      \/ k = i - 1 /\ ~(last > this /\ ~(IsSweep(i - 1) /\ this > Ticks(1000)))
  <2>1. CASE last > this /\ ~(IsSweep(i - 1) /\ this > Ticks(1000))
    <3>1. FindByOffset(n) = [state |-> i, error |-> this]
      BY <1>4, <2>1 DEF Closest
    <3> QED BY <3>1, <2>1
  <2>2. CASE ~(last > this /\ ~(IsSweep(i - 1) /\ this > Ticks(1000)))
    <3>1. FindByOffset(n) = [state |-> i - 1, error |-> last]
      BY <1>4, <2>2 DEF Closest
    <3> QED BY <3>1, <2>2
  <2> QED BY <2>1, <2>2
<1>6. k \in {3, 6, 9, 12}
  BY DEF IsSweep
<1>7. Ticks(1000) \in Nat /\ Ticks(1000) >= 2
  BY Widths
<1>8. PulseWindow \in Nat /\ PulseWindow >= 10 /\ Quarter \in Nat /\ Quarter >= 3 * PulseWindow
  BY Widths
<1>9. Offset[i - 1] <= n /\ n < Offset[i]
  BY <1>2 DEF Fits
<1> DEFINE P == PulseWindow
           H == Quarter
           T == Ticks(1000)
<1>10. /\ k = 3 => Offset[k - 1] = P /\ Offset[k] = 2 * P /\ Offset[k + 1] = H
       /\ k = 6 => Offset[k - 1] = H + P /\ Offset[k] = H + 2 * P /\ Offset[k + 1] = 2 * H
       /\ k = 9 => Offset[k - 1] = 2 * H + P /\ Offset[k] = 2 * H + 2 * P /\ Offset[k + 1] = 3 * H
       /\ k = 12 => Offset[k - 1] = 3 * H + P /\ Offset[k] = 3 * H + 2 * P /\ Offset[k + 1] = 4 * H
  BY Grid
<1>11. /\ Offset[k] \in Int /\ Offset[k + 1] \in Int /\ Offset[k - 1] \in Int
       /\ Offset[k] = Offset[k - 1] + P /\ Offset[k + 1] >= Offset[k] + P
  <2> HIDE DEF H, P
  <2> QED BY <1>6, <1>8, <1>10 DEF H, P
<1>12. CASE k = i /\ last > this
  <2>1. this = Offset[k] - n /\ last = n - Offset[k - 1] /\ n < Offset[k]
    BY <1>9, <1>12
  <2> HIDE DEF this, last, P
  <2>2. 2 * (Offset[k] - n) < P /\ n + 2 <= Offset[k + 1]
    BY <2>1, <1>8, <1>11, <1>12 DEF P
  <2> QED BY <2>2 DEF P
<1>13. CASE k = i - 1 /\ ~(last > this /\ ~(IsSweep(i - 1) /\ this > Ticks(1000)))
  <2>1. i = k + 1
    BY <1>2, <1>13
  <2>2. last = n - Offset[k] /\ this = Offset[k + 1] - n /\ Offset[k] <= n
    BY <1>9, <1>13, <2>1
  <2> HIDE DEF this, last, P
  <2>3. last <= this \/ this > T
    BY <2>2, <1>11, <1>13
  <2> HIDE DEF T
  <2>4. 2 * (Offset[k] - n) < P /\ n + 2 <= Offset[k + 1]
    BY <2>2, <2>3, <1>7, <1>8, <1>11 DEF P, T
  <2> QED BY <2>4 DEF P
<1> QED BY <1>5, <1>12, <1>13

LEMMA ModOnce ==
  ASSUME NEW x \in Int, NEW g \in Nat \ {0}
  PROVE  (0 <= x /\ x < g => x % g = x) /\ (g <= x /\ x < 2 * g => x % g = x - g)
<1>1. 0 <= x /\ x < g => x % g = x
  OBVIOUS
<1>2. ASSUME g <= x, x < 2 * g PROVE x % g = x - g
  <2> DEFINE z == x - g
             k == 1
  <2>1. z \in Int /\ 0 <= z /\ z < g /\ k \in Int /\ x = z + k * g
    BY <1>2
  <2>2. z % g = z
    BY <2>1
  <2> HIDE DEF z, k
  <2>3. (z + k * g) % g = z % g
    BY <2>1, ModShift
  <2> QED BY <2>1, <2>2, <2>3 DEF z
<1> QED BY <1>1, <1>2

\* Where a sweep is in its quarter, and the sync it is timed from.
LEMMA SweepTable ==
  ASSUME NEW k, IsSweep(k)
  PROVE  \E q \in 0 .. 3 :
           /\ k = 3 * q + 3 /\ Lh[k] = q \div 2 /\ Acode[k] % 2 = q % 2
           /\ Offset[k] = q * Quarter + 2 * PulseWindow /\ Offset[k + 1] = q * Quarter + Quarter
           /\ Offset[OwnSync(k)] = q * Quarter + (IF q < 2 THEN PulseWindow ELSE 0)
<1>1. k \in {3, 6, 9, 12}
  BY DEF IsSweep
<1>2. PICK q \in 0 .. 3 : k = 3 * q + 3
  BY <1>1
<1>3. q = 0 \/ q = 1 \/ q = 2 \/ q = 3
  OBVIOUS
<1>4. Lh[k] = q \div 2 /\ Acode[k] % 2 = q % 2
  BY <1>2, <1>3 DEF Lh, Acode
<1>5. OwnSync(k) = (IF q < 2 THEN 3 * q + 2 ELSE 3 * q + 1)
  BY <1>2, <1>3 DEF Lh, OwnSync
<1>6. Quarter \in Nat /\ PulseWindow \in Nat
  BY Widths
<1> DEFINE H == Quarter
           P == PulseWindow
<1>7. /\ Offset[3 * q + 3] = q * H + 2 * P /\ Offset[3 * q + 4] = q * H + H
      /\ Offset[3 * q + 2] = q * H + P /\ Offset[3 * q + 1] = q * H
  <2>1. q * H \in Int /\ (q = 0 => q * H = 0) /\ (q = 1 => q * H = H) /\ (q = 2 => q * H = 2 * H) /\ (q = 3 => q * H = 3 * H)
    BY <1>6
  <2>2. CASE q = 0
    BY <2>1, <2>2, <1>6, Grid
  <2>3. CASE q = 1
    BY <2>1, <2>3, <1>6, Grid
  <2>4. CASE q = 2
    BY <2>1, <2>4, <1>6, Grid
  <2>5. CASE q = 3
    BY <2>1, <2>5, <1>6, Grid
  <2> QED BY <1>3, <2>2, <2>3, <2>4, <2>5
<1>8. Offset[k] = q * H + 2 * P /\ Offset[k + 1] = q * H + H
  BY <1>2, <1>7
<1>9. Offset[OwnSync(k)] = q * H + (IF q < 2 THEN P ELSE 0)
  <2> HIDE DEF H, P
  <2>1. CASE q < 2
    BY <2>1, <1>5, <1>7
  <2>2. CASE ~(q < 2)
    BY <2>2, <1>5, <1>6, <1>7 DEF H
  <2> QED BY <2>1, <2>2
<1> QED BY <1>2, <1>4, <1>8, <1>9

\* A time of the sweep of quarter p, seen half a cycle off or not, is in the sweep of q.
LEMMA SweepCells ==
  ASSUME NEW H \in Nat, NEW P \in Nat, P >= 10, H >= 3 * P, NEW u \in Int, NEW y \in Int,
         NEW p \in 0 .. 3, p * H + 2 * P <= u, u < p * H + H,
         NEW q \in 0 .. 3, 2 * (q * H + 2 * P - y) < P, y + 2 <= q * H + H
  PROVE  /\ y = u \/ y = u - 1 => q = p
         /\ p < 2 /\ (y = u + (2 * H - P) \/ y = u + (2 * H - P) - 1) => q = p + 2
         /\ p >= 2 /\ (y = u + (2 * H + P) - 4 * H \/ y = u + (2 * H + P) - 1 - 4 * H) => q = p - 2
<1> DEFINE e == p * H
           f == q * H
<1>1. e \in Int /\ f \in Int
  OBVIOUS
<1>2. /\ (p = 0 => e = 0) /\ (p = 1 => e = H) /\ (p = 2 => e = 2 * H) /\ (p = 3 => e = 3 * H)
      /\ (q = 0 => f = 0) /\ (q = 1 => f = H) /\ (q = 2 => f = 2 * H) /\ (q = 3 => f = 3 * H)
  OBVIOUS
<1> HIDE DEF e, f
<1> QED BY <1>1, <1>2 DEF e, f
(* A sweep of a lighthouse in sight, that is put in a window of a sweep by *)
(* who is a off, is put in that which is a off.                            *)
LEMMA SweepOff ==
  ASSUME World, Clockwork, NEW a \in Int, Shift(a), NEW c \in Int,
         NEW j, j = SlotAt(c), IsSweep(j), Lh[j] \in sight,
         NEW y, Either(y, c + a), NEW k, FindByOffset(y).state = k, IsSweep(k)
  PROVE  /\ \E n \in {-1, 0} : Offset[OwnSync(k)] = Offset[OwnSync(j)] + a + n * Group
         /\ Acode[k] % 2 = Acode[j] % 2
         /\ a = 0 => k = j
<1> DEFINE P == PulseWindow
           H == Quarter
           G == Group
           u == c % G
           v == (c + a) % G
           w == (c + a - 1) % G
<1>1. P \in Nat /\ P >= 10 /\ H \in Nat \ {0} /\ H >= 3 * P
  BY Widths
<1>2. G = (IF world60 THEN 2 * H ELSE 4 * H) /\ G \in Nat \ {0} /\ world60 \in BOOLEAN
  BY <1>1, GroupIs, GroupType DEF World, Group
<1>3. u \in 0 .. G - 1 /\ v \in 0 .. G - 1 /\ w \in 0 .. G - 1
  <2>1. c + a \in Int /\ c + a - 1 \in Int
    OBVIOUS
  <2> HIDE DEF G
  <2> QED BY <2>1, <1>2
<1>4. Offset[j] <= u /\ u < Offset[j + 1] /\ j \in 1 .. 12
  <2> DEFINE Fits(i) == Offset[i] <= u /\ u < Offset[i + 1]
             f == CHOOSE i \in 1 .. 12 : Fits(i)
  <2>1. u \in Nat /\ u < Offset[13]
    <3>1. Offset[13] = 4 * H
      BY Grid
    <3> HIDE DEF u, G, H
    <3> QED BY <3>1, <1>1, <1>2, <1>3
  <2>2. \E i \in 1 .. 12 : Fits(i)
    <3> HIDE DEF u
    <3> QED BY <2>1, InSomeWindow
  <2>3. j = f
    BY DEF SlotAt, G
  <2> HIDE DEF u, f
  <2>4. f \in 1 .. 12 /\ Fits(f)
    <3> HIDE DEF Fits
    <3> QED BY <2>2 DEF f
  <2> QED BY <2>3, <2>4
<1>5. y = v \/ y = w
  BY DEF Either, G
<1>6. v = (u + a) % G /\ w = (u + (a - 1)) % G
  <2> DEFINE b == a - 1
  <2>1. b \in Int /\ c + b = c + a - 1
    OBVIOUS
  <2> HIDE DEF b
  <2>2. ((c % G) + a) % G = (c + a) % G /\ ((c % G) + b) % G = (c + b) % G
    <3> HIDE DEF G
    <3> QED BY <2>1, <1>2, LaterOf
  <2> QED BY <2>1, <2>2 DEF b
<1>7. y \in Nat /\ y < G
  <2> HIDE DEF v, w, G
  <2> QED BY <1>2, <1>3, <1>5
<1>8. 2 * (Offset[k] - y) < P /\ y + 2 <= Offset[k + 1]
  <2>1. y < Offset[13]
    <3>1. Offset[13] = 4 * H
      BY Grid
    <3> HIDE DEF G, H
    <3> QED BY <3>1, <1>1, <1>2, <1>7
  <2> QED BY <2>1, <1>7, FoundSweep
<1>9. PICK q \in 0 .. 3 :
        /\ k = 3 * q + 3 /\ Lh[k] = q \div 2 /\ Acode[k] % 2 = q % 2
        /\ Offset[k] = q * H + 2 * P /\ Offset[k + 1] = q * H + H
        /\ Offset[OwnSync(k)] = q * H + (IF q < 2 THEN P ELSE 0)
  BY SweepTable
<1>10. PICK p \in 0 .. 3 :
        /\ j = 3 * p + 3 /\ Lh[j] = p \div 2 /\ Acode[j] % 2 = p % 2
        /\ Offset[j] = p * H + 2 * P /\ Offset[j + 1] = p * H + H
        /\ Offset[OwnSync(j)] = p * H + (IF p < 2 THEN P ELSE 0)
  BY SweepTable
<1>11. \/ a = 0
       \/ ~world60 /\ sight = {0} /\ a = 2 * H - P
       \/ ~world60 /\ sight = {1} /\ a = 2 * H + P
  BY DEF Shift
<1> HIDE DEF u, v, w, G, P, H
<1> DEFINE e == p * H
           f == q * H
<1>12. /\ e \in Nat /\ f \in Nat /\ u \in Int /\ y \in Int
       /\ e + 2 * P <= u /\ u < e + H /\ 2 * (f + 2 * P - y) < P /\ y + 2 <= f + H
  BY <1>1, <1>2, <1>3, <1>4, <1>7, <1>8, <1>9, <1>10
<1>13. /\ y = u \/ y = u - 1 => q = p
       /\ p < 2 /\ (y = u + (2 * H - P) \/ y = u + (2 * H - P) - 1) => q = p + 2
       /\ p >= 2 /\ (y = u + (2 * H + P) - 4 * H \/ y = u + (2 * H + P) - 1 - 4 * H) => q = p - 2
  BY <1>1, <1>12, SweepCells
<1>14. (p < 2 => e + H <= 2 * H) /\ (p >= 2 => e >= 2 * H) /\ e + H <= 4 * H
  <2>1. p = 0 \/ p = 1 \/ p = 2 \/ p = 3
    OBVIOUS
  <2>2. (p = 0 => e = 0) /\ (p = 1 => e = H) /\ (p = 2 => e = 2 * H) /\ (p = 3 => e = 3 * H)
    BY <1>1
  <2> HIDE DEF e
  <2> QED BY <2>1, <2>2, <1>1
<1>15. CASE a = 0
  <2>1. y = u \/ y = u - 1
    <3> DEFINE r == u - 1
    <3>1. u + a = u /\ u + (a - 1) = r /\ r \in Int /\ 0 <= r /\ r < G /\ 0 <= u /\ u < G
      <4> HIDE DEF e, f
      <4> QED BY <1>1, <1>2, <1>3, <1>12, <1>15
    <3> HIDE DEF r
    <3>2. u % G = u /\ r % G = r
      BY <3>1, <1>2, <1>12, ModOnce
    <3> QED BY <3>1, <3>2, <1>5, <1>6 DEF r
  <2>2. q = p
    BY <2>1, <1>13
  <2>3. k = j
    BY <2>2, <1>9, <1>10
  <2>4. Offset[OwnSync(k)] = Offset[OwnSync(j)] + a + 0 * G
    <3>1. Offset[OwnSync(j)] \in Int
      BY <1>1, <1>10, <1>12
    <3> QED BY <3>1, <2>3, <1>2, <1>15
  <2> QED BY <2>3, <2>4 DEF G
<1>16. CASE ~world60 /\ sight = {0} /\ a = 2 * H - P
  <2>1. p < 2 /\ G = 4 * H
    BY <1>2, <1>10, <1>16
  <2>2. y = u + a \/ y = u + a - 1
    <3> DEFINE r == u + a
               s == u + (a - 1)
    <3>1. r \in Int /\ s \in Int /\ 0 <= r /\ r < G /\ 0 <= s /\ s < G /\ s = u + a - 1
      <4> HIDE DEF e, f
      <4> QED BY <2>1, <1>1, <1>12, <1>14, <1>16
    <3> HIDE DEF r, s
    <3>2. r % G = r /\ s % G = s
      BY <3>1, <1>2, ModOnce
    <3> QED BY <3>1, <3>2, <1>5, <1>6 DEF r, s
  <2>3. q = p + 2
    BY <2>1, <2>2, <1>13, <1>16
  <2>4. Acode[k] % 2 = Acode[j] % 2
    BY <2>1, <2>3, <1>9, <1>10
  <2>5. Offset[OwnSync(k)] = Offset[OwnSync(j)] + a + 0 * G
    <3>1. f = e + 2 * H
      BY <2>1, <2>3, <1>1
    <3>2. Offset[OwnSync(k)] = f /\ Offset[OwnSync(j)] = e + P
      BY <2>1, <2>3, <1>1, <1>9, <1>10
    <3> HIDE DEF e, f
    <3> QED BY <3>1, <3>2, <1>1, <1>2, <1>12, <1>16
  <2>6. a # 0
    BY <1>1, <1>16
  <2> QED BY <2>4, <2>5, <2>6 DEF G
<1>17. CASE ~world60 /\ sight = {1} /\ a = 2 * H + P
  <2>1. p >= 2 /\ G = 4 * H
    BY <1>2, <1>10, <1>17
  <2>2. y = u + a - G \/ y = u + a - 1 - G
    <3> DEFINE r == u + a
               s == u + (a - 1)
    <3>1. r \in Int /\ s \in Int /\ G <= r /\ r < 2 * G /\ G <= s /\ s < 2 * G /\ s = u + a - 1
      <4> HIDE DEF e, f
      <4> QED BY <2>1, <1>1, <1>12, <1>14, <1>17
    <3> HIDE DEF r, s
    <3>2. r % G = r - G /\ s % G = s - G
      BY <3>1, <1>2, ModOnce
    <3>3. y = r - G \/ y = s - G
      BY <3>2, <1>5, <1>6 DEF r, s
    <3> QED BY <3>1, <3>3, <1>2, <1>12 DEF r
  <2>3. q = p - 2
    BY <2>1, <2>2, <1>13, <1>17
  <2>4. Acode[k] % 2 = Acode[j] % 2
    BY <2>1, <2>3, <1>9, <1>10
  <2>5. Offset[OwnSync(k)] = Offset[OwnSync(j)] + a + (-1) * G
    <3>1. f = e - 2 * H
      BY <2>1, <2>3, <1>1
    <3>2. Offset[OwnSync(k)] = f + P /\ Offset[OwnSync(j)] = e
      BY <2>1, <2>3, <1>1, <1>9, <1>10
    <3> HIDE DEF e, f
    <3> QED BY <2>1, <3>1, <3>2, <1>1, <1>2, <1>12, <1>17
  <2>6. a # 0
    BY <1>1, <1>17
  <2> QED BY <2>4, <2>5, <2>6 DEF G
<1> QED BY <1>11, <1>15, <1>16, <1>17

\* How long the windows are.
LEMMA WindowIs ==
  ASSUME NEW k \in 1 .. 12
  PROVE  Window(k) = IF IsSweep(k) THEN CaptureWindow ELSE PulseWindow
<1> DEFINE H == Quarter
           P == PulseWindow
           C == CaptureWindow
<1>1. H = 2 * P + C /\ P \in Nat /\ C \in Nat
  BY Widths DEF Quarter
<1>2. /\ Offset[1] = 0          /\ Offset[2] = P          /\ Offset[3] = 2 * P
      /\ Offset[4] = H          /\ Offset[5] = H + P      /\ Offset[6] = H + 2 * P
      /\ Offset[7] = 2 * H      /\ Offset[8] = 2 * H + P  /\ Offset[9] = 2 * H + 2 * P
      /\ Offset[10] = 3 * H     /\ Offset[11] = 3 * H + P /\ Offset[12] = 3 * H + 2 * P
      /\ Offset[13] = 4 * H
  BY Grid
<1> HIDE DEF H, P, C
<1>3. \/ k = 1 \/ k = 2 \/ k = 3 \/ k = 4 \/ k = 5 \/ k = 6
      \/ k = 7 \/ k = 8 \/ k = 9 \/ k = 10 \/ k = 11 \/ k = 12
  OBVIOUS
<1>4. Offset[k + 1] - Offset[k] = IF IsSweep(k) THEN C ELSE P
  BY <1>1, <1>2, <1>3 DEF IsSweep
<1> QED BY <1>4 DEF Window, C, P

\* The light le arrives at o in this slot.
Arrives(o, le) == \E t \in Int : now <= t /\ t <= now + Window(Slot) /\ le.timestamp = Stamp(o, t)

\* le was seen by o when it was in the state of m: its middle is in the window of that state.
Hit(o, m, le) ==
  LET b == m.base[Lh[m.state]]
  IN  \E t \in Int, y \in Nat :
        /\ le.timestamp = Stamp(o, t) /\ b <= t /\ t <= now + Window(Slot)
        /\ le.length \in 1 .. PulseWindow
        /\ Either(y, (t + le.length \div 2) - b) /\ FindByOffset(y).state = m.state

\* What m keeps of a sweep was seen in its window.
Hits(o, m) ==
  IsSweep(m.state) => \A s \in Sensors : /\ m.sweep[s].length >= 0
                                         /\ m.sweep[s].length # 0 => Hit(o, m, m.sweep[s])

\* A hit of a sweep is shorter than a window of a sync.
LEMMA HitLength == Ticks(10000) \in Nat /\ Ticks(10000) <= PulseWindow
<1> DEFINE a == Ticks(10000)
           p == PulseWindow
<1>1. Tick \in Nat \ {0}
  BY DisambiguatorAssumption
<1>2. a \in Nat /\ a * Tick <= 10000
  BY <1>1 DEF Ticks
<1>3. p \in Nat /\ 20000 < (p + 1) * Tick
  BY <1>1 DEF PulseWindow, Ticks
<1> HIDE DEF a, p
<1>4. a <= p
  <2> SUFFICES ASSUME p + 1 <= a PROVE FALSE
    BY <1>2, <1>3
  <2>1. (p + 1) * Tick <= a * Tick
    BY <1>1, <1>2, <1>3
  <2>2. (p + 1) * Tick \in Int /\ a * Tick \in Int
    BY <1>1, <1>2, <1>3
  <2> QED BY <2>1, <2>2, <1>2, <1>3
<1> QED BY <1>2, <1>4 DEF a, p

\* Times since the start of the cycle are times of the cycle.
LEMMA EitherShift ==
  ASSUME world60 \in BOOLEAN, NEW a \in Int, NEW b \in Int, (b + a) % Group = 0, NEW t \in Int, NEW y
  PROVE  Either(y, t + a) <=> Either(y, t - b)
<1> DEFINE G == Group
           c == b + a
           q == c \div G
           n == t - b
           m == t - b - 1
<1>1. G \in Nat \ {0} /\ c \in Int /\ n \in Int /\ m \in Int
  BY GroupType DEF Group
<1>2. q \in Int /\ c = q * G
  <2>1. c % G = 0
    OBVIOUS
  <2> HIDE DEF c, G
  <2>2. q \in Int /\ c = q * G + (c % G) /\ q * G \in Int
    BY <1>1, Divided
  <2> QED BY <2>1, <2>2
<1>3. t + a = n + c /\ t + a - 1 = m + c
  OBVIOUS
<1>4. n = t - b /\ m = (t - b) - 1
  OBVIOUS
<1> HIDE DEF G, n, m, c, q
<1>5. (n + q * G) % G = n % G /\ (m + q * G) % G = m % G
  BY <1>1, <1>2, ModShift
<1>6. (t + a) % G = (t - b) % G /\ (t + a - 1) % G = (t - b - 1) % G
  BY <1>2, <1>3, <1>4, <1>5
<1> QED BY <1>6 DEF Either, G

\* Light that arrives is a hit for who follows the cycle, and puts it in its window.
LEMMA HitHere ==
  ASSUME World, NEW o \in Objects, NEW a \in Int, NEW d \in Memory, Bases(o, a, d), d.state \in 1 .. 12,
         ~Stale(d, now), NEW m \in Memory, Bases(o, a, m), m.state \in 1 .. 12,
         NEW le \in Light, Arrives(o, le), le.length \in 1 .. PulseWindow,
         Found(d, Lh[d.state], le) = m.state
  PROVE  Hit(o, m, le)
<1> DEFINE l == Lh[d.state]
           j == Lh[m.state]
           b == m.base[j]
           p == le.length \div 2
<1>1. l \in {0, 1} /\ j \in {0, 1}
  BY LhType
<1>2. PICK t \in Int : now <= t /\ t <= now + Window(Slot) /\ le.timestamp = Stamp(o, t)
  BY DEF Arrives
<1>3. d.base[l] \in Int /\ b \in Int /\ d.base[l] <= now /\ b <= now /\ (b + a) % Group = 0 /\ now \in Nat
  BY <1>1 DEF Memory, Bases, World
<1>4. /\ PulseWindow \in Nat /\ CaptureWindow \in Nat /\ PulseWindow <= CaptureWindow
      /\ Clock \in Nat /\ p \in Nat /\ p <= PulseWindow /\ le.length \in Nat
  BY Widths, Constants
<1>5. Window(Slot) \in Nat /\ Window(Slot) <= CaptureWindow
  BY <1>4, SlotType, WindowIs
<1> DEFINE c == t + p
<1>6. c \in Int /\ d.base[l] <= c /\ 2 * (c - d.base[l]) < Clock
  <2>1. ~(2 * (now + CaptureWindow + PulseWindow - d.base[l]) >= Clock)
    BY DEF Stale
  <2> HIDE DEF l, p
  <2> QED BY <2>1, <1>2, <1>3, <1>4, <1>5
<1>7. Centre(le) = Stamp(o, c)
  BY <1>2, <1>4, MiddleOf
<1>16. c = t + le.length \div 2 /\ b = m.base[Lh[m.state]]
  OBVIOUS
<1> HIDE DEF c, l, j, b, p
<1> DEFINE y == SeenAt(o, d, l, c)
<1>8. FindByOffset(y).state = m.state
  BY <1>7 DEF Found, SeenAt, l
<1>9. boot[o] \in Int
  BY DisambiguatorAssumption DEF World
<1>10. Either(y, c + a)
  BY <1>1, <1>6, <1>9, SeenFrom DEF World
<1>11. Either(y, c - b)
  BY <1>3, <1>6, <1>10, EitherShift DEF World
<1>12. y \in Nat
  <2> HIDE DEF y
  <2>1. Group \in Nat \ {0} /\ c - b \in Int /\ c - b - 1 \in Int
    BY <1>3, <1>6, GroupType DEF World, Group
  <2> QED BY <2>1, <1>11 DEF Either
<1> HIDE DEF y
<1>13. b <= t
  BY <1>2, <1>3
<1>14. m.base[Lh[m.state]] <= t
  BY <1>13, <1>16
<1>15. Either(y, (t + le.length \div 2) - m.base[Lh[m.state]])
  BY <1>11, <1>16
<1> QED BY <1>2, <1>8, <1>12, <1>14, <1>15 DEF Hit

\* A pulse in a window of a sweep keeps the hits.
LEMMA CaptureHits ==
  ASSUME NEW x, Good(x), NEW o \in Objects, NEW s \in Sensors, NEW le \in Light,
         IsSweep(x.d[o].state), Hits(o, x.d[o]),
         le.length \in 1 .. PulseWindow => Hit(o, x.d[o], le)
  PROVE  Hits(o, CaptureSweep(x, o, s, le).d[o])
<1> DEFINE d == x.d[o]
           w == [d.sweep EXCEPT ![s] = le]
           c == IF le.length > Ticks(3000) THEN d.confidence - 1 ELSE d.confidence
           m == [d EXCEPT !.sweep = w, !.confidence = c]
           xm == [x EXCEPT !.d[o] = m]
           y == CaptureSweep(x, o, s, le)
<1>1. d \in Memory /\ x \in States
  BY DEF Good, Within
<1>2. y = x \/ (y = xm /\ ~(le.length <= d.sweep[s].length) /\ ~(le.length >= Ticks(10000)))
  <2>1. [d EXCEPT !.sweep[s] = le, !.confidence = c] = m
    BY <1>1 DEF Memory
  <2> HIDE DEF m
  <2> QED BY <2>1 DEF CaptureSweep
<1>3. CASE y = x
  BY <1>3
<1>4. CASE y = xm /\ ~(le.length <= d.sweep[s].length) /\ ~(le.length >= Ticks(10000))
  <2>1. d.sweep \in [Sensors -> Light] /\ d.sweep[s].length >= 0
    BY <1>1 DEF Memory, Hits
  <2>2. d.sweep[s].length \in Int /\ le.length \in Int
    BY <2>1 DEF Light
  <2>3. le.length \in 1 .. PulseWindow
    <3> HIDE DEF d
    <3> QED BY <2>1, <2>2, <1>4, HitLength, Widths
  <2>4. Hit(o, d, le)
    BY <2>3
  <2> HIDE DEF y, c
  <2>5. m.sweep = w /\ m.state = d.state /\ m.base = d.base
    <3> HIDE DEF d
    <3> QED BY <1>1 DEF Memory
  <2> HIDE DEF m
  <2>6. xm.d[o] = m
    BY <1>1 DEF States
  <2>7. \A l : Hit(o, d, l) => Hit(o, m, l)
    <3> HIDE DEF d
    <3> QED BY <2>5 DEF Hit
  <2>8. ASSUME NEW r \in Sensors PROVE m.sweep[r].length >= 0 /\ (m.sweep[r].length # 0 => Hit(o, m, m.sweep[r]))
    <3>1. CASE r = s
      <4>1. m.sweep[r] = le
        BY <2>1, <2>5, <3>1
      <4> QED BY <4>1, <2>3, <2>4, <2>7
    <3>2. CASE r # s
      <4>1. m.sweep[r] = d.sweep[r]
        BY <2>1, <2>5, <3>2
      <4> QED BY <4>1, <2>7 DEF Hits
    <3> QED BY <3>1, <3>2
  <2>9. Hits(o, m)
    BY <2>8 DEF Hits
  <2> QED BY <2>6, <2>9, <1>4 DEF y
<1> QED BY <1>2, <1>3, <1>4

\* A pulse in a window of syncs does not leave it, but to give up.
LEMMA ACodeState ==
  ASSUME NEW x, Good(x), NEW o \in Objects, NEW le \in Light
  PROVE  RunACodeCapture(x, o, le).d[o].state \in {x.d[o].state, Unknown}
<1> DEFINE d == x.d[o]
           y == IF d.confidence < Penalty THEN SetState(x, o, Unknown) ELSE x
           e == RegisterSync(d, le)
           v == y.d[o].confidence - Penalty
           p == [y.d[o] EXCEPT !.confidence = v]
           c == IF e.confidence < MaxConfidence THEN e.confidence + 1 ELSE e.confidence
           q == [e EXCEPT !.confidence = c]
           yp == [y EXCEPT !.d[o] = p]
           xq == [x EXCEPT !.d[o] = q]
           z == RunACodeCapture(x, o, le)
<1>1. z = x \/ z = yp \/ z = xq
  BY DEF RunACodeCapture
<1>2. d \in Memory /\ x \in States
  BY DEF Good, Within
<1>3. yp.d[o].state \in {d.state, Unknown}
  <2>1. 0 \in 0 .. 13
    OBVIOUS
  <2>2. Good(y) /\ y.d[o].state \in {d.state, Unknown}
    <3>1. CASE d.confidence < Penalty
      <4>1. y = SetState(x, o, Unknown)
        BY <3>1
      <4> HIDE DEF y
      <4>2. y.d[o].state = Unknown
        BY <4>1, UnknownSet DEF Lost
      <4> QED BY <4>1, <4>2, <2>1, SetStateStep DEF Step, Unknown
    <3>2. CASE ~(d.confidence < Penalty)
      <4>1. y = x
        BY <3>2
      <4> HIDE DEF y
      <4> QED BY <4>1
    <3> QED BY <3>1, <3>2
  <2> HIDE DEF y, v
  <2>3. y.d[o] \in Memory /\ y \in States
    BY <2>2 DEF Good, Within
  <2>4. p.state = y.d[o].state
    BY <2>3 DEF Memory
  <2> HIDE DEF p
  <2>5. yp.d[o] = p
    BY <2>3 DEF States
  <2> QED BY <2>2, <2>4, <2>5
<1>4. xq.d[o].state = d.state
  <2>1. e \in Memory /\ e.state = d.state
    BY <1>2, RegisterType DEF Good, Within
  <2> HIDE DEF e, c, d
  <2>2. q.state = e.state
    BY <2>1 DEF Memory
  <2> HIDE DEF q
  <2>3. xq.d[o] = q
    BY <1>2 DEF States
  <2> QED BY <2>1, <2>2, <2>3
<1> HIDE DEF z, yp, xq
<1> QED BY <1>1, <1>3, <1>4 DEF z, d

\* A state is entered with no hits.
LEMMA ChangeBlank ==
  ASSUME NEW x, Good(x), NEW o \in Objects, x.d[o].state \in 1 .. 12, NEW k \in 1 .. 13
  PROVE  ProcessStateChange(x, o, k).d[o].sweep = [s \in Sensors |-> NoLight]
<1> DEFINE z == IF IsSweep(x.d[o].state) THEN LeaveSweep(x, o) ELSE LeaveSync(x, o)
<1>1. ProcessStateChange(x, o, k) = SetState(z, o, k)
  BY DEF ProcessStateChange
<1>2. Good(z)
  BY LeaveSyncStep, LeaveSweepStep DEF Step
<1> HIDE DEF z
<1> QED BY <1>1, <1>2, StateSet

LEMMA NoHits ==
  ASSUME NEW o, NEW m, m.sweep = [s \in Sensors |-> NoLight]
  PROVE  Hits(o, m)
<1>1. \A s \in Sensors : m.sweep[s].length = 0
  BY DEF NoLight
<1> QED BY <1>1 DEF Hits

(* A pulse of one who follows the cycle: the window it is put in is that of*)
(* its middle, and what it keeps of the sweep was seen there.              *)
LEMMA PropagateHits ==
  ASSUME World, NEW x, Good(x), NEW o \in Objects, NEW a \in Int, Follows(o, a, x),
         ~Stale(x.d[o], now), Hits(o, x.d[o]), NEW s \in Sensors, NEW le \in Light, Arrives(o, le)
  PROVE  Hits(o, PropagateState(x, o, s, le).d[o])
<1> DEFINE d == x.d[o]
           k == FindByOffset(ApplyModOffset(Centre(le), d.mod[Lh[d.state]], EndOfMod(x.mode60))).state
           y == IF k = d.state THEN x ELSE ProcessStateChange(x, o, k)
           z == PropagateState(x, o, s, le)
<1>1. d \in Memory /\ x \in States /\ d.state \in 1 .. 12 /\ x.mode60 = world60
  BY SMTT(30) DEF Good, Within, Follows
<1>2. k \in 1 .. 13
  <2>1. d.mod[Lh[d.state]] \in Int
    <3>1. d.mod \in [{0, 1} -> Timestamps]
      BY <1>1 DEF Memory
    <3>2. Lh[d.state] \in {0, 1}
      BY <1>1, LhType
    <3> QED BY <3>1, <3>2, Constants DEF Timestamps
  <2>2. x.mode60 \in BOOLEAN
    BY <1>1 DEF States
  <2> QED BY <2>1, <2>2, CentreType, WindowFound
<1>3. k = Found(d, Lh[d.state], le)
  BY <1>1 DEF Found, Group
<1>4. z = IF IsSweep(y.d[o].state) THEN CaptureSweep(y, o, s, le) ELSE RunACodeCapture(y, o, le)
  BY DEF PropagateState
<1> HIDE DEF k, z
<1>5. Good(y)
  BY <1>2, <1>1, ProcessStep, StepSelf DEF Step
<1>6. /\ y.d[o].state = (IF k = 13 THEN 1 ELSE k)
      /\ Follows(o, a, y) /\ Hits(o, y.d[o])
  <2>1. CASE k = d.state
    <3>1. y = x
      BY <2>1
    <3> HIDE DEF y
    <3> QED BY <3>1, <2>1, <1>1
  <2>2. CASE k # d.state
    <3>1. y = ProcessStateChange(x, o, k)
      BY <2>2
    <3> HIDE DEF y
    <3>2. y.d[o].state = (IF k = 13 THEN 1 ELSE k) /\ Follows(o, a, y)
      BY <3>1, <1>1, <1>2, ChangeFollows
    <3>3. y.d[o].sweep = [r \in Sensors |-> NoLight]
      BY <3>1, <1>1, <1>2, ChangeBlank
    <3> QED BY <3>2, <3>3, NoHits
  <2> QED BY <2>1, <2>2
<1> HIDE DEF y
<1>7. CASE IsSweep(y.d[o].state)
  <2>1. z = CaptureSweep(y, o, s, le)
    BY <1>4, <1>7
  <2>2. y.d[o].state = k /\ k \in 1 .. 12
    BY <1>2, <1>6, <1>7 DEF IsSweep
  <2>3. y.d[o] \in Memory /\ Bases(o, a, y.d[o]) /\ Bases(o, a, d)
    BY <1>5, <1>6 DEF Good, Within, Follows
  <2> DEFINE m == y.d[o]
  <2> HIDE DEF d, m
  <2>4. le.length \in 1 .. PulseWindow => Hit(o, m, le)
    BY <1>1, <1>3, <2>2, <2>3, HitHere DEF m, d
  <2> QED BY <2>1, <2>4, <1>5, <1>6, <1>7, CaptureHits DEF m, z
<1>8. CASE ~IsSweep(y.d[o].state)
  <2>1. z = RunACodeCapture(y, o, le)
    BY <1>4, <1>8
  <2>2. z.d[o].state \in {y.d[o].state, Unknown}
    BY <2>1, <1>5, ACodeState
  <2>3. ~IsSweep(z.d[o].state)
    BY <2>2, <1>8 DEF IsSweep, Unknown
  <2> QED BY <2>3 DEF Hits, z
<1> QED BY <1>7, <1>8

\* What the hits are about is the same in m and n.
LEMMA HitsSame ==
  ASSUME NEW o, NEW m, NEW n, Same(m, n), n.sweep = m.sweep, Hits(o, m)
  PROVE  Hits(o, n)
<1>1. n.state = m.state /\ n.base = m.base
  BY DEF Same
<1>2. \A le : Hit(o, m, le) => Hit(o, n, le)
  BY <1>1 DEF Hit
<1> QED BY <1>1, <1>2 DEF Hits

\* So it is after any pulse.
LEMMA PulseHits ==
  ASSUME World, NEW x, Good(x), NEW o \in Objects, x.d[o].state # Unknown,
         x.d[o].stabalize = Warmup, NEW a \in Int, Follows(o, a, x),
         ~Stale(x.d[o], now), Hits(o, x.d[o]), NEW s \in Sensors, NEW le \in Light, Arrives(o, le)
  PROVE  Hits(o, StateBased(x, o, s, le).d[o])
<1> DEFINE d      == x.d[o]
           diff   == Difference(le.timestamp, d.last)
           silent == IF diff > Second THEN (diff \div Second) * Decay ELSE 0
           v      == d.confidence - silent
           m      == [d EXCEPT !.confidence = v]
           y      == [x EXCEPT !.d[o] = m]
           q      == PropagateState(y, o, s, le)
           z      == StateBased(x, o, s, le)
<1>1. Within(d) /\ d \in Memory /\ x \in States
  BY DEF Good, Within
<1>2. ~(d.stabalize < Warmup)
  BY Constants
<1>3. z = SetState(x, o, Unknown) \/ z = Heed(q, o, le)
  BY <1>2 DEF StateBased
<1>4. v \in Int /\ v <= MaxConfidence
  BY <1>1, SilentType
<1>5. d.state \in 1 .. 12
  BY <1>1 DEF Memory, Unknown
<1> HIDE DEF v
<1>6. Within(m)
  BY <1>1, <1>4, ConfidenceType
<1>7. Same(d, m) /\ m.sweep = d.sweep
  <2> HIDE DEF d
  <2> QED BY <1>1 DEF Same, Memory
<1> HIDE DEF m
<1>8. Good(y) /\ y.d[o] = m /\ y.mode60 = x.mode60
  <2>1. Step(x, y, o) /\ y.d[o] = m
    BY <1>6, Put
  <2>2. y.mode60 = x.mode60
    BY <1>1 DEF States
  <2> HIDE DEF y
  <2> QED BY <2>1, <2>2 DEF Step
<1> HIDE DEF y
<1>9. CASE z = SetState(x, o, Unknown)
  <2>1. z.d[o].state = Unknown
    BY <1>9, UnknownSet DEF Lost
  <2> HIDE DEF z
  <2>2. Hits(o, z.d[o])
    BY <2>1 DEF Hits, IsSweep, Unknown
  <2> QED BY <2>2 DEF z
<1>10. CASE z = Heed(q, o, le)
  <2>1. m.state = d.state /\ ~Stale(m, now)
    BY <1>7 DEF Same, Stale
  <2>2. Follows(o, a, y)
    BY <1>7, <1>8, SameMoves
  <2>3. Hits(o, m)
    BY <1>7, HitsSame
  <2>4. Good(q)
    BY <1>5, <1>8, <2>1, PropagateStep DEF Step
  <2>5. Hits(o, q.d[o])
    BY <1>8, <2>1, <2>2, <2>3, PropagateHits
  <2> HIDE DEF q, z
  <2>6. Same(q.d[o], z.d[o]) /\ z.d[o].sweep = q.d[o].sweep
    BY <1>10, <2>4, HeedSame
  <2>7. Hits(o, z.d[o])
    BY <2>5, <2>6, HitsSame
  <2> QED BY <2>7 DEF z
<1> QED BY <1>3, <1>9, <1>10

\* Light arrives in its slot.
LEMMA LightArrives ==
  ASSUME World, NEW o \in Objects, NEW s \in Sensors, Sync(o, s) \/ Sweep(o, s) \/ Stray(o, s)
  PROVE  \E le \in Light : Pulse(o, s, le) /\ Arrives(o, le)
<1>1. now \in Nat /\ Slot \in 1 .. 12 /\ Window(Slot) \in Nat
  BY SlotType DEF World
<1>2. CASE Sync(o, s)
  <2> DEFINE le == [timestamp |-> Stamp(o, now), length |-> SyncLength, of |-> now]
  <2>1. Pulse(o, s, le)
    BY <1>2 DEF Sync
  <2>2. le \in Light /\ le.timestamp = Stamp(o, now)
    BY SyncLight
  <2> HIDE DEF le
  <2>3. Arrives(o, le)
    BY <2>2, <1>1 DEF Arrives
  <2> QED BY <2>1, <2>2, <2>3
<1>3. CASE Sweep(o, s) \/ Stray(o, s)
  <2>1. PICK place \in Nat, length \in Nat :
          /\ place < Window(Slot)
          /\ Pulse(o, s, [timestamp |-> Stamp(o, now + place), length |-> length, of |-> None])
    <3>1. CASE Sweep(o, s)
      <4>1. PICK place \in Places, length \in Lengths :
              Pulse(o, s, [timestamp |-> Stamp(o, now + place), length |-> length, of |-> None])
        BY <3>1 DEF Sweep
      <4>2. place \in Nat /\ length \in Nat /\ place < CaptureWindow
        BY DisambiguatorAssumption, PlacesAssumption
      <4>3. IsSweep(Slot)
        BY <3>1 DEF Sweep
      <4>4. Window(Slot) = CaptureWindow
        BY <4>3, <1>1, WindowIs
      <4> HIDE DEF Pulse
      <4> QED BY <4>1, <4>2, <4>4
    <3>2. CASE Stray(o, s)
      <4>1. PICK place \in Strays, length \in Lengths :
              /\ place < Window(Slot)
              /\ Pulse(o, s, [timestamp |-> Stamp(o, now + place), length |-> length, of |-> None])
        BY <3>2 DEF Stray
      <4>2. place \in Nat /\ length \in Nat
        BY DisambiguatorAssumption
      <4> HIDE DEF Pulse
      <4> QED BY <4>1, <4>2
    <3> QED BY <1>3, <3>1, <3>2
  <2> DEFINE le == [timestamp |-> Stamp(o, now + place), length |-> length, of |-> None]
             t == now + place
  <2>2. le \in Light /\ le.timestamp = Stamp(o, t)
    BY OtherLight
  <2>3. t \in Int /\ now <= t /\ t <= now + Window(Slot)
    BY <2>1, <1>1
  <2>4. Pulse(o, s, le)
    BY <2>1
  <2> HIDE DEF le, t
  <2>5. Arrives(o, le)
    BY <2>2, <2>3 DEF Arrives
  <2> QED BY <2>2, <2>4, <2>5
<1> QED BY <1>2, <1>3

\* The invariant: what an object keeps of a sweep, that is not astray, was seen in its window.
HitInv == \A o \in Objects : Known(o) /\ ~astray[o] => Hits(o, disamb[o])

\* A hit remains one as time goes on.
LEMMA HitsLater ==
  ASSUME UNCHANGED <<boot, world60>>, now \in Nat, now' \in Nat, Window(Slot) \in Int, Window(Slot)' \in Int,
         now + Window(Slot) <= now' + Window(Slot)', NEW o, NEW m, Hits(o, m)
  PROVE  Hits(o, m)'
<1>1. Group' = Group /\ \A p, t : Stamp(p, t)' = Stamp(p, t)
  BY DEF Group, Stamp
<1>2. \A y, t : Either(y, t) => Either(y, t)'
  BY <1>1 DEF Either
<1>3. \A t \in Int : t <= now + Window(Slot) => t <= now' + Window(Slot)'
  OBVIOUS
<1>4. \A le : Hit(o, m, le) => Hit(o, m, le)'
  BY <1>1, <1>2, <1>3 DEF Hit
<1> QED BY <1>4 DEF Hits

LEMMA HitInit == ASSUME Init PROVE HitInv
<1>1. Blank.state = Unknown
  BY DEF Blank
<1>2. disamb = [o \in Objects |-> Blank]
  BY DEF Init
<1> HIDE DEF Blank
<1> QED BY <1>1, <1>2 DEF HitInv, Known

\* The next slot has a window too.
LEMMA SlotNext == World' => (Slot \in 1 .. 12)' /\ (Window(Slot) \in Nat)'
<1>1. World => Slot \in 1 .. 12 /\ Window(Slot) \in Nat
  BY SlotType
<1> QED BY <1>1, PTL

\* The time goes on, or nothing that was seen changes.
LEMMA HitKept ==
  ASSUME World, World', HitInv, UNCHANGED <<boot, world60>>,
         now' = now \/ now' = now + Window(Slot),
         \A o \in Objects : Known(o)' => disamb'[o] = disamb[o] /\ (~astray'[o] => ~astray[o])
  PROVE  HitInv'
<1>1. now \in Nat /\ now' \in Nat /\ Window(Slot) \in Nat /\ Window(Slot)' \in Nat
  BY SlotType, SlotNext DEF World
<1>2. now + Window(Slot) <= now' + Window(Slot)'
  <2>1. CASE now' = now
    <3>1. Window(Slot)' = Window(Slot)
      BY <2>1 DEF Window, SlotAt, Slot, Group
    <3> QED BY <3>1, <2>1, <1>1
  <2>2. CASE now' = now + Window(Slot)
    BY <2>2, <1>1
  <2> QED BY <2>1, <2>2
<1>3. ASSUME NEW o \in Objects, Known(o)', ~astray'[o] PROVE Hits(o, disamb[o])'
  <2>1. disamb'[o] = disamb[o] /\ ~astray[o]
    BY <1>3
  <2>2. Hits(o, disamb[o])
    BY <2>1, <1>3 DEF HitInv, Known
  <2>3. \A m : m = disamb[o] => Hits(o, m)'
    <3> SUFFICES ASSUME NEW m, m = disamb[o] PROVE Hits(o, m)'
      OBVIOUS
    <3>1. Hits(o, m)
      BY <2>2
    <3> QED BY <3>1, <1>1, <1>2, HitsLater
  <2> QED BY <2>1, <2>3 DEF Hits, Hit
<1> QED BY <1>3 DEF HitInv

\* A pulse reaches an object,
LEMMA LightHit ==
  ASSUME TypeOK, LockInv, HeardInv, HitInv, TypeOK', NEW o \in Objects, NEW s \in Sensors,
         Sync(o, s) \/ Sweep(o, s) \/ Stray(o, s)
  PROVE  HitInv'
<1>1. World /\ World' /\ boot' = boot /\ world60' = world60 /\ now' = now
  <2>1. World
    BY Parts
  <2> QED BY <2>1, LightIsPulse DEF World, TypeOK
<1>2. PICK le \in Light : Pulse(o, s, le) /\ Arrives(o, le)
  BY <1>1, LightArrives
<1> DEFINE z == StateBased(Before, o, s, le)
           d == disamb[o]
<1>3. disamb' = z.d
  BY <1>2 DEF Pulse, Before
<1>4. Before.d = disamb /\ Before.told = {} /\ Before.behind = FALSE /\ Good(Before)
  BY GoodBefore DEF Before
<1>5. \A p \in Objects : astray'[p] =
         (IF p # o THEN astray[p] \/ (Unsure(p) /\ mode60' # mode60)
          ELSE \/ Known(p) /\ astray[p]
               \/ /\ disamb'[p].state # Unknown
                  /\ Misled(disamb'[p]) \/ Stale(disamb'[p], now)
                       \/ (~Known(p) /\ ~Telling(p, disamb'[p].history)))
  BY <1>2 DEF Pulse
<1>6. d.state = Unknown /\ z.d[o].state # Unknown => Anew(z.d[o])
  <2>1. Before.d[o].state # Unknown => Before.d[o].stabalize = Warmup
    BY <1>4 DEF HeardInv, Known
  <2> HIDE DEF Before
  <2> QED BY <2>1, <1>4, PulseTells
<1>7. ASSUME Known(o)', ~astray'[o] PROVE Hits(o, disamb'[o])
  <2>1. z.d[o].state # Unknown
    BY <1>3, <1>7 DEF Known
  <2>2. CASE ~Known(o)
    <3>1. Anew(z.d[o])
      BY <1>6, <2>1, <2>2 DEF Known
    <3> HIDE DEF z
    <3> QED BY <3>1, <1>3, NoHits DEF Anew
  <2>3. CASE Known(o)
    <3>1. ~astray[o]
      BY <1>5, <1>7, <2>3
    <3>2. Rightly(o) /\ Hits(o, d) /\ d.stabalize = Warmup /\ d.state # Unknown
      BY <2>3, <3>1 DEF LockInv, HeardInv, HitInv, Known
    <3>3. PICK a \in Int : Shift(a) /\ Follows(o, a, Before)
      BY <3>2 DEF Rightly
    <3>4. ~Stale(d, now)
      BY <3>2 DEF Rightly
    <3>5. /\ Hits(o, Before.d[o]) /\ Before.d[o].stabalize = Warmup
          /\ Before.d[o].state # Unknown /\ ~Stale(Before.d[o], now)
      BY <3>2, <3>4, <1>4
    <3> HIDE DEF Before
    <3>6. Hits(o, z.d[o])
      BY <1>1, <1>2, <1>4, <3>3, <3>5, PulseHits
    <3> QED BY <3>6, <1>3
  <2> QED BY <2>2, <2>3
<1> HIDE DEF z
<1>8. now \in Nat /\ Window(Slot) \in Nat /\ Window(Slot)' \in Nat /\ Window(Slot)' = Window(Slot)
  <2>1. Window(Slot)' = Window(Slot)
    BY <1>1 DEF Window, SlotAt, Slot, Group
  <2> QED BY <2>1, <1>1, SlotType, SlotNext DEF World
<1>9. \A p, m : Hits(p, m) => Hits(p, m)'
  <2> SUFFICES ASSUME NEW p, NEW m, Hits(p, m) PROVE Hits(p, m)'
    OBVIOUS
  <2>1. now + Window(Slot) <= now' + Window(Slot)'
    BY <1>1, <1>8
  <2> QED BY <2>1, <1>1, <1>8, HitsLater
<1>10. ASSUME NEW p \in Objects, Known(p)', ~astray'[p] PROVE Hits(p, disamb'[p])
  <2>1. CASE p = o
    BY <2>1, <1>7, <1>10
  <2>2. CASE p # o
    <3>1. disamb'[p] = disamb[p]
      BY <1>2, <2>2, PulseCode
    <3>2. Known(p)
      BY <3>1, <1>10 DEF Known
    <3>3. ~astray[p]
      BY <1>5, <1>10, <2>2
    <3> QED BY <3>1, <3>2, <3>3 DEF HitInv
  <2> QED BY <2>1, <2>2
<1>11. ASSUME NEW p \in Objects, Known(p)', ~astray'[p] PROVE Hits(p, disamb[p])'
  <2>1. \A m : m = disamb'[p] => Hits(p, m)'
    BY <1>9, <1>10, <1>11
  <2> QED BY <2>1 DEF Hits, Hit
<1> QED BY <1>11 DEF HitInv

\* so it holds after each step.
LEMMA HitIsRight == TypeOK /\ TypeOK' /\ LockInv /\ HeardInv /\ HitInv /\ [Next]_vars => HitInv'
<1> SUFFICES ASSUME TypeOK, TypeOK', LockInv, HeardInv, HitInv, [Next]_vars PROVE HitInv'
  OBVIOUS
<1>0. World /\ World'
  BY DEF TypeOK, World
<1>1. CASE Turn
  <2>1. \A o \in Objects : astray'[o] = (Known(o) /\ (astray[o] \/ Stale(disamb[o], now')))
    BY <1>1 DEF Turn
  <2>2. disamb' = disamb /\ UNCHANGED <<boot, world60>> /\ now' = now + Window(Slot)
    BY <1>1 DEF Turn
  <2>3. \A o \in Objects : Known(o)' => Known(o)
    BY <2>2 DEF Known
  <2> QED BY <2>1, <2>2, <2>3, <1>0, HitKept
<1>2. CASE Look
  <2>1. \A o \in Objects : astray'[o] = (astray[o] \/ (Known(o) /\ ~Near(Seen(o, now), now)))
    BY <1>2 DEF Look
  <2>2. disamb' = disamb /\ UNCHANGED <<boot, world60, now>>
    BY <1>2 DEF Look
  <2> QED BY <2>1, <2>2, <1>0, HitKept
<1>3. ASSUME NEW o \in Objects, Destroy(o) PROVE HitInv'
  <2>1. \A p \in Objects : astray'[p] = (p # o /\ (astray[p] \/ (Known(p) /\ mode60)))
    BY <1>3 DEF Destroy
  <2>2. disamb' = [disamb EXCEPT ![o] = Blank] /\ UNCHANGED <<boot, world60, now>>
    BY <1>3 DEF Destroy
  <2>3. Blank.state = Unknown
    BY DEF Blank
  <2> HIDE DEF Blank
  <2>4. \A p \in Objects : Known(p)' => p # o /\ disamb'[p] = disamb[p]
    BY <2>2, <2>3 DEF Known, TypeOK
  <2> QED BY <2>1, <2>2, <2>4, <1>0, HitKept
<1>4. ASSUME NEW o \in Objects, NEW s \in Sensors, Sync(o, s) \/ Sweep(o, s) \/ Stray(o, s)
      PROVE  HitInv'
  BY <1>4, LightHit
<1>5. CASE UNCHANGED vars
  BY <1>0, <1>5, HitKept DEF vars, code, light
<1> QED BY <1>1, <1>2, <1>3, <1>4, <1>5 DEF Next

\* Who sees a time in a window of a sweep sees it after the sync of that sweep, each time.
LEMMA SweepSeen ==
  ASSUME World, NEW n \in Int, NEW y, NEW z, Either(y, n), Either(z, n),
         NEW j, FindByOffset(y).state = j, IsSweep(j)
  PROVE  z \in Nat /\ z - Offset[OwnSync(j)] \in Int /\ z - Offset[OwnSync(j)] > 0
<1> DEFINE P == PulseWindow
           H == Quarter
           G == Group
           u == n % G
           v == (n - 1) % G
<1>1. P \in Nat /\ P >= 10 /\ H \in Nat \ {0} /\ H >= 3 * P
  BY Widths
<1>2. (G = 2 * H \/ G = 4 * H) /\ G \in Nat \ {0}
  BY <1>1, GroupIs, GroupType DEF World, Group
<1>3. u \in 0 .. G - 1 /\ v \in 0 .. G - 1
  <2>1. n - 1 \in Int
    OBVIOUS
  <2> HIDE DEF G
  <2> QED BY <2>1, <1>2
<1>4. (y = u \/ y = v) /\ (z = u \/ z = v)
  BY DEF Either
<1>5. y \in Nat /\ y < G
  <2> HIDE DEF u, v, G
  <2> QED BY <1>2, <1>3, <1>4
<1>6. 2 * (Offset[j] - y) < P /\ y + 2 <= Offset[j + 1]
  <2>1. y < Offset[13]
    <3>1. Offset[13] = 4 * H
      BY Grid
    <3> HIDE DEF G, H
    <3> QED BY <3>1, <1>1, <1>2, <1>5
  <2> QED BY <2>1, <1>5, FoundSweep
<1>7. PICK q \in 0 .. 3 :
        /\ Offset[j] = q * H + 2 * P /\ Offset[j + 1] = q * H + H
        /\ Offset[OwnSync(j)] = q * H + (IF q < 2 THEN P ELSE 0)
  BY SweepTable
<1>8. v = (u + (-1)) % G /\ u = (v + 1) % G
  <2> DEFINE m == n - 1
             h == -1
             i == 1
  <2>1. m \in Int /\ h \in Int /\ i \in Int /\ n + h = m /\ m + i = n
    OBVIOUS
  <2> HIDE DEF m, h, i
  <2>2. ((n % G) + h) % G = (n + h) % G
    <3> HIDE DEF G
    <3> QED BY <2>1, <1>2, LaterOf
  <2>4. ((m % G) + i) % G = (m + i) % G
    <3> HIDE DEF G
    <3> QED BY <2>1, <1>2, LaterOf
  <2>3. v = m % G /\ u = n % G
    BY DEF m
  <2> QED BY <2>1, <2>2, <2>3, <2>4 DEF h, i
<1> HIDE DEF u, v, G, P, H
<1> DEFINE f == q * H
<1>9. f \in Nat /\ 2 * (f + 2 * P - y) < P /\ y + 2 <= f + H
  BY <1>1, <1>5, <1>6, <1>7
<1>10. y + 1 < G /\ y - 1 >= f + P
  <2>1. (q < 2 => f + H <= 2 * H) /\ (q >= 2 => f >= 2 * H) /\ f + H <= 4 * H
    <3>1. q = 0 \/ q = 1 \/ q = 2 \/ q = 3
      OBVIOUS
    <3>2. (q = 0 => f = 0) /\ (q = 1 => f = H) /\ (q = 2 => f = 2 * H) /\ (q = 3 => f = 3 * H)
      BY <1>1
    <3> HIDE DEF f
    <3> QED BY <3>1, <3>2, <1>1
  <2> HIDE DEF f
  <2> QED BY <2>1, <1>1, <1>2, <1>5, <1>9
<1>11. z \in {y - 1, y, y + 1}
  <2>1. CASE y = u
    <3> DEFINE r == y - 1
    <3>1. r \in Int /\ 0 <= r /\ r < G /\ u + (-1) = r
      <4> HIDE DEF f
      <4> QED BY <2>1, <1>1, <1>2, <1>5, <1>9, <1>10
    <3> HIDE DEF r
    <3>2. v = r
      BY <3>1, <1>2, <1>8, ModOnce
    <3> QED BY <2>1, <3>2, <1>4 DEF r
  <2>2. CASE y = v
    <3> DEFINE r == y + 1
    <3>1. r \in Int /\ 0 <= r /\ r < G /\ v + 1 = r
      BY <2>2, <1>2, <1>5, <1>10
    <3> HIDE DEF r
    <3>2. u = r
      BY <3>1, <1>2, <1>8, ModOnce
    <3> QED BY <2>2, <3>2, <1>4 DEF r
  <2> QED BY <2>1, <2>2, <1>4
<1>12. Offset[OwnSync(j)] \in Int /\ Offset[OwnSync(j)] <= f + P
  <2> HIDE DEF f
  <2>1. Offset[OwnSync(j)] = f + (IF q < 2 THEN P ELSE 0)
    BY <1>7 DEF f
  <2> QED BY <2>1, <1>1, <1>9
<1> HIDE DEF f
<1> QED BY <1>1, <1>5, <1>9, <1>10, <1>11, <1>12

\* What is a cycle or more off is near.
LEMMA NearOff ==
  ASSUME NEW g \in Nat \ {0}, NEW u \in Int, NEW a \in Int, NEW n \in {-1, 0}, NEW c \in Int,
         NEW z, z = (u + a) % g \/ z = (u + (a - 1)) % g
  PROVE  ((z - (c + a + n * g)) - (u - c)) % g \in {0, g - 1}
<1> DEFINE d == (z - (c + a + n * g)) - (u - c)
<1>1. ASSUME NEW b \in {0, 1}, z = (u + (a - b)) % g PROVE d % g \in {0, g - 1}
  <2> DEFINE w == u + (a - b)
             q == w \div g
             r == -(q + n)
             h == -b
  <2>1. w \in Int /\ z = w % g /\ h \in Int
    BY <1>1
  <2> HIDE DEF w
  <2>2. q \in Int /\ z \in Int /\ w = q * g + z /\ q * g \in Int
    BY <2>1, Divided
  <2> HIDE DEF q
  <2>3. r \in Int /\ r * g = -(q * g) - n * g /\ n * g \in Int
    <3>1. n = -1 \/ n = 0
      OBVIOUS
    <3> QED BY <3>1, <2>2
  <2>4. d = h + r * g
    <3> DEFINE e == q * g
               f == n * g
               k == r * g
    <3>1. e \in Int /\ f \in Int /\ k = -e - f /\ w = e + z
      BY <2>2, <2>3
    <3>2. w = u + (a - b)
      BY DEF w
    <3> HIDE DEF e, f, k, r
    <3>3. (z - (c + a + f)) - (u - c) = -b + k
      BY <3>1, <3>2, <2>2
    <3> QED BY <3>3 DEF f, k
  <2> HIDE DEF r, d
  <2>5. d % g = h % g
    BY <2>1, <2>3, <2>4, ModShift
  <2>6. h % g \in {0, g - 1}
    <3>1. CASE b = 0
      BY <3>1
    <3>2. CASE b = 1
      <4> DEFINE p == g - 1
                 t == -1
      <4>1. p \in Int /\ t \in Int /\ 0 <= p /\ p < g /\ h = p + t * g
        BY <3>2
      <4> HIDE DEF p, t, h
      <4>2. (p + t * g) % g = p % g /\ p % g = p
        BY <4>1, ModShift, ModOnce
      <4> QED BY <4>1, <4>2 DEF p
    <3> QED BY <3>1, <3>2
  <2> QED BY <2>5, <2>6
<1>2. CASE z = (u + a) % g
  <2> DEFINE b == 0
  <2>1. b \in {0, 1} /\ u + (a - b) = u + a
    OBVIOUS
  <2> HIDE DEF b, d
  <2> QED BY <2>1, <1>1, <1>2 DEF d
<1>3. CASE z = (u + (a - 1)) % g
  <2> HIDE DEF d
  <2> QED BY <1>1, <1>3 DEF d
<1> QED BY <1>2, <1>3

\* A sweep that is placed before its sync is of what was known and is not astray.
LEMMA BehindIs ==
  ASSUME TypeOK, HeardInv, NEW o \in Objects, NEW s \in Sensors,
         Sync(o, s) \/ Sweep(o, s) \/ Stray(o, s), behind'
  PROVE  /\ Known(o) /\ SeeingBehind(disamb[o], o, mode60)
         /\ ~astray'[o] => ~astray[o]
<1>1. PICK le \in Light : Pulse(o, s, le)
  BY LightIsPulse
<1> DEFINE z == StateBased(Before, o, s, le)
<1>2. behind' = z.behind
  BY <1>1 DEF Pulse, Before
<1>3. Before.d = disamb /\ Before.told = {} /\ Before.behind = FALSE /\ Before.mode60 = mode60 /\ Good(Before)
  BY GoodBefore DEF Before
<1> HIDE DEF Before
<1>4. Before.d[o].state # Unknown => Before.d[o].stabalize = Warmup
  BY <1>3 DEF HeardInv, Known
<1>5. z.behind => Before.d[o].state # Unknown /\ SeeingBehind(Before.d[o], o, Before.mode60)
  BY <1>3, <1>4, PulseTells
<1> HIDE DEF z
<1>6. Known(o) /\ SeeingBehind(disamb[o], o, mode60)
  BY <1>2, <1>3, <1>5 DEF Known
<1>7. Known(o) /\ astray[o] => astray'[o]
  BY <1>1 DEF Pulse
<1> QED BY <1>6, <1>7

(* What is told of a sweep is as AngleTrue says, when its object is right. *)
LEMMA SweepToldRight ==
  ASSUME TypeOK, LockInv, HitInv, NEW o \in Objects, Known(o), ~astray[o], IsSweep(disamb[o].state),
         NEW s \in Sensors, disamb[o].sweep[s].length # 0,
         NEW e, e = SweepEvent(disamb[o], o, s, mode60)
  PROVE  LET t == TimeOf(o, e.at) + e.length \div 2
             k == SlotAt(t)
         IN  /\ e.offset \in Int /\ e.offset > 0
             /\ IsSweep(k) /\ Lh[k] \in sight =>
                  /\ Near(e.offset, (t % Group) - Offset[OwnSync(k)])
                  /\ e.acode % 2 = Acode[k] % 2
                  /\ Alias = {} => e.lh = Lh[k]
<1> DEFINE m == disamb[o]
           j == m.state
           l == Lh[j]
           le == m.sweep[s]
           b == m.base[l]
           p == le.length \div 2
<1>1. World /\ Clockwork /\ m \in Memory
  BY Parts DEF LockInv, TypeOK
<1>2. Rightly(o) /\ Hits(o, m)
  BY DEF LockInv, HitInv
<1>3. PICK a \in Int : Shift(a) /\ Follows(o, a, Before)
  BY <1>2 DEF Rightly
<1>4. j \in 1 .. 12 /\ Bases(o, a, m) /\ mode60 = world60 /\ l \in {0, 1}
  BY <1>3, LhType DEF Follows, Before
<1>5. Hit(o, m, le)
  BY <1>2 DEF Hits
<1>6. PICK t0 \in Int, y \in Nat :
        /\ le.timestamp = Stamp(o, t0) /\ b <= t0 /\ t0 <= now + Window(Slot)
        /\ le.length \in 1 .. PulseWindow
        /\ Either(y, (t0 + le.length \div 2) - b) /\ FindByOffset(y).state = j
  BY <1>5 DEF Hit
<1> DEFINE c == t0 + p
           z == SeenAt(o, m, l, c)
<1>7. /\ e.at = le.timestamp /\ e.length = le.length /\ e.lh = l /\ e.acode = Acode[j]
      /\ e.offset = ApplyModOffset(Centre(le), m.mod[l], Group) - Offset[OwnSync(j)]
  BY <1>4 DEF SweepEvent, OwnSync, Group
<1>8. le \in Light
  BY <1>1 DEF Memory
<1>9. /\ PulseWindow \in Nat /\ CaptureWindow \in Nat /\ PulseWindow <= CaptureWindow
      /\ Clock \in Nat /\ p \in Nat /\ p <= PulseWindow /\ now \in Nat
      /\ Window(Slot) \in Nat /\ Window(Slot) <= CaptureWindow
  <2>1. le.length \in Nat /\ le.length <= PulseWindow
    BY <1>6, Widths
  <2>2. Window(Slot) \in Nat /\ Window(Slot) <= CaptureWindow
    BY <1>1, SlotType, WindowIs, Widths
  <2> HIDE DEF le
  <2> QED BY <2>1, <2>2, <1>1, Widths, Constants DEF World
<1>10. b \in Int /\ (b + a) % Group = 0 /\ b <= now
  BY <1>1, <1>4 DEF Memory, Bases
<1>11. ~(2 * (now + CaptureWindow + PulseWindow - b) >= Clock)
  BY <1>2 DEF Rightly, Stale
<1>12. (t0 + le.length \div 2) - b = c - b
  OBVIOUS
<1> HIDE DEF m, j, l, le, b, p
<1>13. c \in Int /\ b <= c /\ 2 * (c - b) < Clock /\ 2 * (now - t0) < Clock
  BY <1>6, <1>9, <1>10, <1>11
<1>14. TimeOf(o, e.at) = t0
  BY <1>1, <1>6, <1>7, <1>13, TimeFound
<1>15. Centre(le) = Stamp(o, c)
  BY <1>1, <1>6, <1>8, <1>9, MiddleOf DEF p
<1>16. TimeOf(o, e.at) + e.length \div 2 = c
  BY <1>7, <1>14 DEF p
<1> HIDE DEF c
<1>17. boot[o] \in Int
  BY <1>1, DisambiguatorAssumption DEF World
<1>18. Either(z, c + a)
  BY <1>1, <1>4, <1>10, <1>13, <1>17, SeenFrom DEF World, b, j
<1>19. e.offset = z - Offset[OwnSync(j)]
  BY <1>7, <1>15 DEF SeenAt
<1>20. Either(y, c + a)
  BY <1>1, <1>6, <1>10, <1>12, <1>13, EitherShift DEF World
<1> HIDE DEF z
<1>21. IsSweep(j)
  BY DEF j, m
<1>22. z \in Nat /\ e.offset \in Int /\ e.offset > 0
  <2> DEFINE n == c + a
  <2>1. n \in Int /\ Either(y, n) /\ Either(z, n)
    BY <1>13, <1>18, <1>20
  <2> HIDE DEF n
  <2> QED BY <2>1, <1>1, <1>6, <1>19, <1>21, SweepSeen
<1>23. ASSUME NEW k, k = SlotAt(c), IsSweep(k), Lh[k] \in sight
       PROVE  /\ Near(e.offset, (c % Group) - Offset[OwnSync(k)])
              /\ e.acode % 2 = Acode[k] % 2
              /\ Alias = {} => e.lh = Lh[k]
  <2>1. /\ \E n \in {-1, 0} : Offset[OwnSync(j)] = Offset[OwnSync(k)] + a + n * Group
        /\ Acode[j] % 2 = Acode[k] % 2 /\ (a = 0 => j = k)
    BY <1>1, <1>3, <1>6, <1>13, <1>20, <1>21, <1>23, SweepOff
  <2>2. Alias = {} => a = 0
    BY <1>1, <1>3, ShiftIsAlias DEF World
  <2>3. Alias = {} => e.lh = Lh[k]
    BY <2>1, <2>2, <1>7 DEF l
  <2>4. PICK n \in {-1, 0} : Offset[OwnSync(j)] = Offset[OwnSync(k)] + a + n * Group
    BY <2>1
  <2> DEFINE g == Group
             u == c % g
             f == Offset[OwnSync(k)]
  <2>5. g \in Nat \ {0}
    BY <1>1, GroupType DEF World, Group
  <2>6. u \in Int /\ f \in Int
    <3>1. c % g \in Int
      <4> HIDE DEF g
      <4> QED BY <2>5, <1>13
    <3>2. OwnSync(k) \in 1 .. 13
      BY <1>23 DEF IsSweep, OwnSync, Lh
    <3>3. f \in Int
      BY <3>2, OffsetTable
    <3> QED BY <3>1, <3>3
  <2>7. z = (u + a) % g \/ z = (u + (a - 1)) % g
    <3> DEFINE h == a - 1
    <3>1. h \in Int /\ c + h = (c + a) - 1
      BY <1>13
    <3> HIDE DEF h
    <3>2. ((c % g) + a) % g = (c + a) % g /\ ((c % g) + h) % g = (c + h) % g
      <4> HIDE DEF g
      <4> QED BY <3>1, <2>5, <1>13, LaterOf
    <3> QED BY <3>1, <3>2, <1>18 DEF Either, h
  <2>8. e.offset = z - (f + a + n * g)
    BY <2>4, <1>19
  <2> HIDE DEF g, u, f
  <2>9. ((z - (f + a + n * g)) - (u - f)) % g \in {0, g - 1}
    BY <2>5, <2>6, <2>7, NearOff
  <2>10. Near(e.offset, u - f)
    BY <2>8, <2>9 DEF Near, g
  <2> QED BY <2>1, <2>3, <2>10, <1>7 DEF u, f, g
<1> QED BY <1>16, <1>22, <1>23

(* A sweep that is told to the light hook has the time since the sync of   *)
(* the lighthouse that swept, and its axis; none is placed before its sync *)
(* (CaptureSweep, ProcessStateChange).                                     *)
THEOREM AngleIsTrue == Spec => AngleTrue
<1> DEFINE Event(e) ==
             e.kind = "sweep" /\ ~astray'[e.object] =>
               LET t == TimeOf(e.object, e.at) + e.length \div 2
                   k == SlotAt(t)
               IN  IsSweep(k) /\ Lh[k] \in sight =>
                     /\ Near(e.offset, (t % Group) - Offset[OwnSync(k)])
                     /\ e.acode % 2 = Acode[k] % 2
                     /\ Alias = {} => e.lh = Lh[k]
           A == /\ behind' => \E o \in Objects : astray'[o]
                /\ \A e \in told' : Event(e)
<1>1. TypeOK /\ LockInv /\ HeardInv /\ HitInv /\ [Next]_vars => [A]_vars
  <2> SUFFICES ASSUME TypeOK, LockInv, HeardInv, HitInv, Next PROVE A
    OBVIOUS
  <2>1. CASE Turn \/ Look
    BY <2>1 DEF Turn, Look
  <2>2. ASSUME NEW o \in Objects, Destroy(o) PROVE A
    BY <2>2 DEF Destroy
  <2>3. ASSUME NEW o \in Objects, NEW s \in Sensors, Sync(o, s) \/ Sweep(o, s) \/ Stray(o, s) PROVE A
    <3>1. behind' => astray'[o]
      <4> SUFFICES ASSUME behind', ~astray'[o] PROVE FALSE
        OBVIOUS
      <4>1. Known(o) /\ ~astray[o] /\ SeeingBehind(disamb[o], o, mode60)
        BY <2>3, BehindIs
      <4>2. PICK r \in Sensors : /\ disamb[o].sweep[r].length # 0
                                 /\ SweepEvent(disamb[o], o, r, mode60).offset <= 0
        BY <4>1 DEF SeeingBehind
      <4>3. IsSweep(disamb[o].state)
        BY <4>1 DEF SeeingBehind
      <4> DEFINE f == SweepEvent(disamb[o], o, r, mode60)
      <4> HIDE DEF f
      <4>4. f.offset \in Int /\ f.offset > 0
        BY <4>1, <4>2, <4>3, SweepToldRight DEF f
      <4> QED BY <4>2, <4>4 DEF f
    <3>2. ASSUME NEW e \in told', e.kind = "sweep", ~astray'[e.object] PROVE Event(e)
      <4>1. Known(o) /\ Seeing(disamb[o], o, mode60, e) /\ (~astray'[o] => ~astray[o])
        BY <2>3, ToldIs
      <4>2. PICK r \in Sensors : /\ IsSweep(disamb[o].state) /\ disamb[o].sweep[r].length # 0
                                 /\ e = SweepEvent(disamb[o], o, r, mode60)
        <5>1. SyncEvent(disamb[o], o).kind = "sync"
          BY DEF SyncEvent
        <5> HIDE DEF SyncEvent
        <5> QED BY <4>1, <5>1, <3>2 DEF Seeing
      <4>3. e.object = o
        BY <4>2 DEF SweepEvent
      <4> HIDE DEF SweepEvent
      <4>4. Event(e)
        BY <4>1, <4>2, <4>3, <3>2, SweepToldRight
      <4> QED BY <4>4
    <3> HIDE DEF Event
    <3> QED BY <3>1, <3>2 DEF Event
  <2> QED BY <2>1, <2>2, <2>3 DEF Next
<1>2. Init => LockInv /\ HeardInv /\ HitInv
  BY LockInit, HeardInit, HitInit
<1>3. TypeOK /\ TypeOK' /\ LockInv /\ [Next]_vars => LockInv'
  BY LockNext
<1>4. TypeOK /\ TypeOK' /\ LockInv /\ HeardInv /\ [Next]_vars => HeardInv'
  BY HeardIsRight
<1>5. TypeOK /\ TypeOK' /\ LockInv /\ HeardInv /\ HitInv /\ [Next]_vars => HitInv'
  BY HitIsRight
<1>6. Spec => []TypeOK
  BY TypeCorrect
<1> QED BY <1>1, <1>2, <1>3, <1>4, <1>5, <1>6, PTL DEF Spec, AngleTrue
=============================================================================
