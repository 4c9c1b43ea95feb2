----------------------- MODULE LighthouseTable_proofs -----------------------
(***************************************************************************)
(* The table of lighthouses, for any number of slots and stations.  Each   *)
(* operator on contexts keeps two predicates of a context: Sound, what the *)
(* table, lh_config and the file have to do with each other, and Agrees,   *)
(* what bsd_map has to do with the table on a system of generation 2.      *)
(* What an operator makes of positions is a relation of the context before *)
(* and the one after, Carries.                                             *)
(***************************************************************************)
EXTENDS LighthouseTable, FiniteSetTheorems, WellFoundedInduction, TLAPS

Filed(x, i) == x.file.lh[i] = IF x.bsd[i].OOTXSet THEN x.lh_config[i] ELSE Unused

\* lh_config may still have a position that was given up.
SoundSlot(x, i) ==
  /\ x.bsd[i].OOTXSet => x.bsd[i] \in {x.lh_config[i], [x.lh_config[i] EXCEPT !.pose = None]}
  /\ x.bsd[i].mode = FreeMode => ~x.bsd[i].OOTXSet

Sound(x) == \A i \in Slots : Filed(x, i) /\ SoundSlot(x, i)

OnlyGen2(x) ==
  /\ x.lh_version \in {-1, 1} /\ x.lh_version_configed \in {-1, 1}
  /\ x.gen \in {-1, 1} /\ x.file.gen \in {-1, 1}
  /\ \A i \in Slots : x.decoder[i] \in {-1, 1}

MapInverse(x) ==
  /\ \A c \in Channels : x.bsd_map[c] # -1 => x.bsd[x.bsd_map[c]].mode = c
  /\ \A i \in Slots : x.bsd[i].mode # FreeMode => x.bsd_map[x.bsd[i].mode] = i

Agrees(x) == OnlyGen2(x) /\ MapInverse(x)

IInv ==
  /\ TypeOK
  /\ Sound(ctx)
  /\ gens \subseteq {1} => Agrees(ctx)

-----------------------------------------------------------------------------
(* Types.                                                                  *)

\* 255 is no channel when there are at most that many.
LEMMA UnusedType == Unused \in Lighthouse /\ \A c \in Channels : Claimed(c) \in Lighthouse
  BY DEF Unused, Claimed, Lighthouse

\* config_save writes a table.
LEMMA SaveType == ASSUME NEW x \in Context PROVE SaveConfig(x) \in Context
  BY UnusedType DEF SaveConfig, Context, Table

\* config_set_lighthouse and config_save.
LEMMA StoreType == ASSUME NEW x \in Context, NEW i \in Slots PROVE Store(x, i) \in Context
<1>1. [x EXCEPT !.lh_config[i] = x.bsd[i]] \in Context
  BY DEF Context, Table
<1> QED BY <1>1, SaveType DEF Store

\* Every set of slots that is not empty has a least and a greatest one: the
\* smallest sets, of those below and above its members, are empty.
LEMMA LeastSlot ==
  ASSUME NEW S \in SUBSET Slots, S # {}
  PROVE  /\ \E i \in S : \A j \in S : i <= j
         /\ \E i \in S : \A j \in S : j <= i
<1> DEFINE below(i) == {j \in S : j < i}
           above(i) == {j \in S : i < j}
           Below    == {below(i) : i \in S}
           Above    == {above(i) : i \in S}
<1>0. S \subseteq Int
  BY TableAssumption DEF Slots
<1>1. IsWellFoundedOn(StrictSubsetOrdering(Slots), SUBSET Slots)
  <2>1. IsFiniteSet(Slots)
    BY TableAssumption, FS_Interval DEF Slots
  <2> QED BY <2>1, FS_FiniteSubsetsOfFinite, FS_StrictSubsetOrderingWellFounded
<1>2. \E i \in S : \A j \in S : i <= j
  <2>1. Below \subseteq SUBSET Slots /\ Below # {}
    OBVIOUS
  <2>2. PICK i \in S : \A j \in S : <<below(j), below(i)>> \notin StrictSubsetOrdering(Slots)
    <3>1. PICK b \in Below : \A a \in Below : ~(<<a, b>> \in StrictSubsetOrdering(Slots))
      BY <1>1, <2>1, WFMin
    <3>2. PICK i \in S : b = below(i)
      OBVIOUS
    <3>3. \A j \in S : below(j) \in Below
      OBVIOUS
    <3> HIDE DEF below, Below
    <3> QED BY <3>1, <3>2, <3>3
  <2>3. ASSUME NEW j \in S, j < i PROVE FALSE
    <3>0. i \in Int /\ j \in Int
      BY <1>0
    <3>1. below(j) \subseteq below(i) /\ j \in below(i) /\ j \notin below(j)
      <4>1. ASSUME NEW k \in below(j) PROVE k \in below(i)
        <5>1. k \in S /\ k \in Int
          BY <1>0
        <5> QED BY <2>3, <3>0, <5>1
      <4>2. j \in below(i)
        BY <2>3
      <4>3. j \notin below(j)
        BY <3>0
      <4> QED BY <4>1, <4>2, <4>3
    <3>2. below(j) # below(i)
      BY <3>1
    <3> HIDE DEF below
    <3> QED BY <2>1, <2>2, <2>3, <3>1, <3>2 DEF StrictSubsetOrdering
  <2> QED BY <1>0, <2>3
<1>3. \E i \in S : \A j \in S : j <= i
  <2>1. Above \subseteq SUBSET Slots /\ Above # {}
    OBVIOUS
  <2>2. PICK i \in S : \A j \in S : <<above(j), above(i)>> \notin StrictSubsetOrdering(Slots)
    <3>1. PICK b \in Above : \A a \in Above : ~(<<a, b>> \in StrictSubsetOrdering(Slots))
      BY <1>1, <2>1, WFMin
    <3>2. PICK i \in S : b = above(i)
      OBVIOUS
    <3>3. \A j \in S : above(j) \in Above
      OBVIOUS
    <3> HIDE DEF above, Above
    <3> QED BY <3>1, <3>2, <3>3
  <2>3. ASSUME NEW j \in S, i < j PROVE FALSE
    <3>0. i \in Int /\ j \in Int
      BY <1>0
    <3>1. above(j) \subseteq above(i) /\ j \in above(i) /\ j \notin above(j)
      <4>1. ASSUME NEW k \in above(j) PROVE k \in above(i)
        <5>1. k \in S /\ k \in Int
          BY <1>0
        <5> QED BY <2>3, <3>0, <5>1
      <4>2. j \in above(i)
        BY <2>3
      <4>3. j \notin above(j)
        BY <3>0
      <4> QED BY <4>1, <4>2, <4>3
    <3>2. above(j) # above(i)
      BY <3>1
    <3> HIDE DEF above
    <3> QED BY <2>1, <2>2, <2>3, <3>1, <3>2 DEF StrictSubsetOrdering
  <2> QED BY <1>0, <2>3
<1> QED BY <1>2, <1>3

\* The slot survive_get_bsd_idx takes is free.
LEMMA FirstFreeIsFree ==
  ASSUME NEW x \in Context, Free(x) # {}
  PROVE  FirstFree(x) \in Free(x) /\ FirstFree(x) \in Slots
<1>1. Free(x) \in SUBSET Slots
  BY DEF Free
<1>2. \E i \in Free(x) : \A j \in Free(x) : i <= j
  BY <1>1, LeastSlot
<1> QED BY <1>1, <1>2 DEF FirstFree

\* What is read from the file has the slot of each channel in the map.
LEMMA MapOfSlots ==
  ASSUME NEW lh \in Table, NEW c \in Channels
  PROVE  /\ MapOf(lh)[c] \in Slots \cup {-1}
         /\ MapOf(lh)[c] # -1 => lh[MapOf(lh)[c]].mode = c
         /\ \A i \in Slots : lh[i].mode = c => MapOf(lh)[c] # -1
<1> DEFINE S == {i \in Slots : lh[i].mode = c}
<1>1. CASE S = {}
  BY <1>1 DEF MapOf
<1>2. CASE S # {}
  <2>1. \E i \in S : \A j \in S : j <= i
    BY <1>2, LeastSlot
  <2>2. \E i \in Slots : lh[i].mode = c /\ \A j \in Slots : lh[j].mode = c => j <= i
    BY <2>1
  <2>3. -1 \notin Slots
    BY TableAssumption DEF Slots
  <2> QED BY <1>2, <2>2, <2>3 DEF MapOf
<1> QED BY <1>1, <1>2

\* survive_get_bsd_idx.
LEMMA ClaimType ==
  ASSUME NEW x \in Context, NEW c \in Channels
  PROVE  Claim(x, c) \in Context /\ Idx(x, c) \in Slots \cup {-1}
<1>1. Slots = Channels /\ Slots \subseteq Nat
  BY TableAssumption DEF Slots, Channels
<1>2. CASE x.lh_version = 0
  <2>1. Claimed(c) \in Lighthouse /\ c \in Slots
    BY <1>1, UnusedType
  <2>2. x.activeLighthouses + 1 \in Nat
    BY DEF Context
  <2>3. [x.bsd EXCEPT ![c] = Claimed(c)] \in Table
    BY <2>1 DEF Context, Table
  <2>4. [x EXCEPT !.bsd[c] = Claimed(c), !.decoder[c] = -1, !.activeLighthouses = @ + 1] \in Context
    BY <2>2, <2>3 DEF Context
  <2> QED BY <1>2, <2>1, <2>4 DEF Claim, Idx
<1>3. CASE x.lh_version # 0 /\ x.bsd_map[c] = -1 /\ Free(x) # {}
  <2>1. FirstFree(x) \in Slots
    BY <1>3, FirstFreeIsFree
  <2>2. FirstFree(x) + 1 \in Nat
    <3>1. \A n \in Slots : n + 1 \in Nat
      BY <1>1
    <3> QED BY <2>1, <3>1
  <2>3. Claimed(c) \in Lighthouse
    BY UnusedType
  <2>4. [x EXCEPT !.bsd[FirstFree(x)] = Claimed(c), !.decoder[FirstFree(x)] = -1,
                  !.bsd_map[c] = FirstFree(x),
                  !.activeLighthouses = IF @ < FirstFree(x) + 1 THEN FirstFree(x) + 1 ELSE @]
          \in Context
    BY <2>1, <2>2, <2>3 DEF Context, Table
  <2> QED BY <1>3, <2>1, <2>4 DEF Claim, Idx
<1>4. CASE x.lh_version # 0 /\ ~(x.bsd_map[c] = -1 /\ Free(x) # {})
  BY <1>4 DEF Claim, Idx, Context
<1> QED BY <1>2, <1>3, <1>4

\* gen_detected.
LEMMA NotifyType ==
  ASSUME NEW x \in Context, NEW g \in {0, 1} PROVE Notify(x, g) \in Context
<1> DEFINE reset == g # x.lh_version_configed /\ x.lh_version_configed # -1
           table == [i \in Slots |-> IF reset
                                     THEN [x.bsd[i] EXCEPT !.mode = FreeMode,
                                             !.OOTXSet = FALSE, !.pose = None]
                                     ELSE x.bsd[i]]
<1>1. table \in Table
  <2>1. ASSUME NEW i \in Slots PROVE table[i] \in Lighthouse
    <3>1. x.bsd[i] \in Lighthouse
      BY DEF Context, Table
    <3> QED BY <3>1 DEF Lighthouse
  <2> QED BY <2>1 DEF Table
<1> HIDE DEF table
<1>2. [x EXCEPT !.bsd = table, !.lh_version = g, !.gen = g] \in Context
  BY <1>1 DEF Context
<1>3. GenDetected(x, g) \in Context
  <2>1. CASE x.lh_version = -1
    BY <1>2, <2>1, SaveType DEF GenDetected, table
  <2>2. CASE x.lh_version # -1
    BY <2>2 DEF GenDetected, Context
  <2> QED BY <2>1, <2>2
<1> QED BY <1>3 DEF Notify

\* survive_ootx_behavior and the packet's handlers.
LEMMA OotxType ==
  ASSUME NEW x \in Context, NEW i \in Slots, NEW g \in {0, 1}, NEW p \in Bits(Channels)
  PROVE  Ootx(x, i, g, p) \in Context
<1>1. Attach(x, i) \in Context
  BY DEF Attach, Context
<1>2. ASSUME NEW y \in Context, p \in Packets(Channels) PROVE Receive(y, i, p) \in Context
  <2> DEFINE b == [mode |-> p.mode, id |-> p.id, OOTXSet |-> TRUE, pose |-> None]
             z == [y EXCEPT !.bsd[i] = b]
  <2>1. b \in Lighthouse
    BY <1>2 DEF Packets, Lighthouse
  <2>2. z \in Context
    BY <2>1 DEF Context, Table
  <2>3. Store(z, i) \in Context
    BY <2>2, StoreType
  <2> QED BY <2>3 DEF Receive
<1> QED BY <1>1, <1>2 DEF Ootx, Bits

\* survive_init.
LEMMA LoadType ==
  ASSUME NEW file \in [gen : {-1, 0, 1}, lh : Table], NEW force \in BOOLEAN
  PROVE  Load(file, force) \in Context
<1>1. IsFiniteSet({i \in Slots : file.lh[i] # Unused})
  <2>1. IsFiniteSet(Slots)
    BY TableAssumption, FS_Interval DEF Slots
  <2>2. {i \in Slots : file.lh[i] # Unused} \in SUBSET Slots
    OBVIOUS
  <2> QED BY <2>1, <2>2, FS_Subset
<1>2. Cardinality({i \in Slots : file.lh[i] # Unused}) \in Nat
  BY <1>1, FS_CardinalityType
<1>3. MapOf(file.lh) \in [Channels -> Slots \cup {-1}]
  <2>1. \A c \in Channels : MapOf(file.lh)[c] \in Slots \cup {-1}
    BY MapOfSlots
  <2> QED BY <2>1 DEF MapOf
<1> QED BY <1>2, <1>3 DEF Load, Context

-----------------------------------------------------------------------------
(* The file and the table.                                                 *)

\* lh_config has the station and the mode of a slot that is known.
LEMMA KnownSlot ==
  ASSUME NEW x \in Context, NEW i \in Slots, SoundSlot(x, i), x.bsd[i].OOTXSet
  PROVE  /\ x.lh_config[i].mode = x.bsd[i].mode /\ x.lh_config[i].mode # FreeMode
         /\ x.lh_config[i].id = x.bsd[i].id /\ x.lh_config[i].OOTXSet
<1>1. x.lh_config[i] \in Lighthouse
  BY DEF Context, Table
<1> QED BY <1>1 DEF SoundSlot, Lighthouse

\* config_save makes the file what it should be.
LEMMA SaveSound ==
  ASSUME NEW x \in Context, \A i \in Slots : SoundSlot(x, i)
  PROVE  Sound(SaveConfig(x))
  BY DEF SaveConfig, Sound, SoundSlot, Filed, Context

\* config_set_lighthouse too, for a slot whose entry may be out of date.
LEMMA StoreSound ==
  ASSUME NEW x \in Context, NEW i \in Slots,
         \A j \in Slots \ {i} : SoundSlot(x, j),
         x.bsd[i].mode = FreeMode => ~x.bsd[i].OOTXSet
  PROVE  Sound(Store(x, i))
<1> DEFINE y == [x EXCEPT !.lh_config[i] = x.bsd[i]]
<1>1. y \in Context
  BY DEF Context, Table
<1>2. \A j \in Slots : SoundSlot(y, j)
  BY DEF SoundSlot, Context, Table
<1> QED BY <1>1, <1>2, SaveSound DEF Store

\* A slot is claimed only when nothing is known of it.
LEMMA ClaimSound ==
  ASSUME NEW x \in Context, NEW c \in Channels, Sound(x)
  PROVE  Sound(Claim(x, c))
<1>1. ASSUME NEW i \in Slots, NEW y \in Context, x.bsd[i].mode = FreeMode,
             y.bsd = [x.bsd EXCEPT ![i] = Claimed(c)],
             y.lh_config = x.lh_config, y.file = x.file
      PROVE  Sound(y)
  <2>1. Filed(x, i) /\ ~x.bsd[i].OOTXSet
    BY <1>1 DEF Sound, SoundSlot
  <2>2. Filed(y, i) /\ SoundSlot(y, i)
    BY <1>1, <2>1 DEF Filed, SoundSlot, Claimed, Unused, Context, Table
  <2>3. ASSUME NEW j \in Slots \ {i} PROVE Filed(y, j) /\ SoundSlot(y, j)
    BY <1>1 DEF Sound, Filed, SoundSlot, Context, Table
  <2> QED BY <2>2, <2>3 DEF Sound
<1>2. Claim(x, c) \in Context
  BY ClaimType
<1>3. CASE x.lh_version = 0 /\ x.bsd[c].mode = FreeMode
  <2>1. c \in Slots
    BY DEF Slots, Channels
  <2>2. /\ Claim(x, c).bsd = [x.bsd EXCEPT ![c] = Claimed(c)]
        /\ Claim(x, c).lh_config = x.lh_config /\ Claim(x, c).file = x.file
    BY <1>3 DEF Claim, Context
  <2> QED BY <1>1, <1>2, <1>3, <2>1, <2>2
<1>4. CASE x.lh_version # 0 /\ x.bsd_map[c] = -1 /\ Free(x) # {}
  <2>1. FirstFree(x) \in Slots /\ x.bsd[FirstFree(x)].mode = FreeMode
    BY <1>4, FirstFreeIsFree DEF Free
  <2>2. /\ Claim(x, c).bsd = [x.bsd EXCEPT ![FirstFree(x)] = Claimed(c)]
        /\ Claim(x, c).lh_config = x.lh_config /\ Claim(x, c).file = x.file
    BY <1>4 DEF Claim, Context
  <2> QED BY <1>1, <1>2, <2>1, <2>2
<1>5. CASE ~(x.lh_version = 0 /\ x.bsd[c].mode = FreeMode)
           /\ ~(x.lh_version # 0 /\ x.bsd_map[c] = -1 /\ Free(x) # {})
  BY <1>5 DEF Claim
<1> QED BY <1>3, <1>4, <1>5

\* The reset for another generation leaves nothing known.
LEMMA NotifySound ==
  ASSUME NEW x \in Context, NEW g \in {0, 1}, Sound(x)
  PROVE  Sound(Notify(x, g))
<1> DEFINE reset == g # x.lh_version_configed /\ x.lh_version_configed # -1
           table == [i \in Slots |-> IF reset
                                     THEN [x.bsd[i] EXCEPT !.mode = FreeMode,
                                             !.OOTXSet = FALSE, !.pose = None]
                                     ELSE x.bsd[i]]
           y == [x EXCEPT !.bsd = table, !.lh_version = g, !.gen = g]
<1>1. table \in Table
  <2>1. ASSUME NEW i \in Slots PROVE table[i] \in Lighthouse
    <3>1. x.bsd[i] \in Lighthouse
      BY DEF Context, Table
    <3> QED BY <3>1 DEF Lighthouse
  <2> QED BY <2>1 DEF Table
<1>2. ASSUME NEW i \in Slots
      PROVE  /\ table[i].OOTXSet => table[i] = x.bsd[i]
             /\ table[i].mode = FreeMode => ~table[i].OOTXSet
  <2>1. x.bsd[i] \in Lighthouse /\ SoundSlot(x, i)
    BY DEF Context, Table, Sound
  <2>2. CASE reset
    BY <2>1, <2>2 DEF Lighthouse
  <2>3. CASE ~reset
    BY <2>1, <2>3 DEF SoundSlot
  <2> QED BY <2>2, <2>3
<1> HIDE DEF table
<1>3. y \in Context
  BY <1>1 DEF Context
<1>4. ASSUME NEW i \in Slots PROVE SoundSlot(y, i)
  <2>1. SoundSlot(x, i)
    BY DEF Sound
  <2> QED BY <1>2, <2>1 DEF SoundSlot, Context
<1>5. Sound(SaveConfig(y))
  BY <1>3, <1>4, SaveSound
<1>6. Sound([x EXCEPT !.lh_version = 3])
  BY DEF Sound, SoundSlot, Filed, Context
<1> QED BY <1>5, <1>6 DEF Notify, GenDetected, table

\* What a packet teaches is stored.
LEMMA OotxSound ==
  ASSUME NEW x \in Context, NEW i \in Slots, NEW g \in {0, 1},
         NEW p \in Bits(Channels), Sound(x)
  PROVE  Sound(Ootx(x, i, g, p))
<1>1. Attach(x, i) \in Context /\ Sound(Attach(x, i))
  BY DEF Attach, Context, Sound, SoundSlot, Filed
<1>2. ASSUME NEW y \in Context, Sound(y), p \in Packets(Channels)
      PROVE  Sound(Receive(y, i, p))
  <2> DEFINE b == [mode |-> p.mode, id |-> p.id, OOTXSet |-> TRUE, pose |-> None]
             z == [y EXCEPT !.bsd[i] = b]
  <2>1. b \in Lighthouse /\ b.mode # FreeMode
    BY <1>2, TableAssumption DEF Packets, Lighthouse, Channels, FreeMode
  <2>2. z \in Context /\ z.bsd[i] = b
    BY <2>1 DEF Context, Table
  <2>3. \A j \in Slots \ {i} : SoundSlot(z, j)
    BY <1>2 DEF Sound, SoundSlot, Context, Table
  <2>4. Sound(Store(z, i))
    <3>1. z.bsd[i].mode # FreeMode
      BY <2>1, <2>2
    <3> HIDE DEF z, b
    <3> QED BY <2>2, <2>3, <3>1, StoreSound
  <2> QED BY <1>2, <2>4 DEF Receive
<1> QED BY <1>1, <1>2 DEF Ootx, Bits

\* A start finds the table as it was left, but for what was not known.
LEMMA LoadSound ==
  ASSUME NEW x \in Context, Sound(x), NEW force \in BOOLEAN
  PROVE  Sound(Load(x.file, force))
<1>1. ASSUME NEW i \in Slots
      PROVE  /\ x.file.lh[i].OOTXSet \/ x.file.lh[i] = Unused
             /\ x.file.lh[i].mode = FreeMode => ~x.file.lh[i].OOTXSet
  <2>1. Filed(x, i) /\ SoundSlot(x, i)
    BY DEF Sound
  <2>2. CASE x.bsd[i].OOTXSet
    BY <2>1, <2>2, KnownSlot DEF Filed
  <2>3. CASE ~x.bsd[i].OOTXSet
    BY <2>1, <2>3 DEF Filed, Unused
  <2> QED BY <2>2, <2>3
<1> QED BY <1>1 DEF Load, Sound, SoundSlot, Filed, Unused

-----------------------------------------------------------------------------
(* bsd_map and the table, on a system of generation 2.                     *)

\* Only the modes of the table matter.
LEMMA SameModes ==
  ASSUME NEW x \in Context, NEW y \in Context, Agrees(x), OnlyGen2(y),
         y.bsd_map = x.bsd_map, \A i \in Slots : y.bsd[i].mode = x.bsd[i].mode
  PROVE  Agrees(y)
<1>1. \A c \in Channels : x.bsd_map[c] \in Slots \cup {-1}
  BY DEF Context
<1> QED BY <1>1 DEF Agrees, MapInverse

\* survive_get_bsd_idx enters the slot it takes, and the channel has the slot
\* it returns.
LEMMA ClaimAgrees ==
  ASSUME NEW x \in Context, NEW c \in Channels, Agrees(x)
  PROVE  /\ Agrees(Claim(x, c))
         /\ Idx(x, c) # -1 => Claim(x, c).bsd[Idx(x, c)].mode = c
<1>1. x.lh_version # 0 /\ x.bsd_map[c] \in Slots \cup {-1}
  BY DEF Agrees, OnlyGen2, Context
<1>2. CASE x.bsd_map[c] = -1 /\ Free(x) # {}
  <2> DEFINE f == FirstFree(x)
             y == Claim(x, c)
  <2>1. f \in Slots /\ x.bsd[f].mode = FreeMode
    BY <1>2, FirstFreeIsFree DEF Free
  <2>2. /\ y.bsd = [x.bsd EXCEPT ![f] = Claimed(c)]
        /\ y.bsd_map = [x.bsd_map EXCEPT ![c] = f]
        /\ y.lh_version = x.lh_version /\ y.lh_version_configed = x.lh_version_configed
        /\ y.gen = x.gen /\ y.file = x.file
        /\ y.decoder = [x.decoder EXCEPT ![f] = -1]
    BY <1>1, <1>2 DEF Claim, Context
  <2>3. /\ x.bsd \in Table /\ x.bsd_map \in [Channels -> Slots \cup {-1}]
        /\ x.decoder \in [Slots -> {-1, 0, 1}]
    BY DEF Context
  <2>4. Claimed(c).mode = c /\ FreeMode \notin Channels
    BY TableAssumption DEF Claimed, Unused, Channels, FreeMode
  <2>5. Idx(x, c) = f
    BY <1>1, <1>2 DEF Idx
  <2> HIDE DEF f, y
  <2>6. y.bsd[f].mode = c
    BY <2>1, <2>2, <2>3, <2>4 DEF Table
  <2>7. ASSUME NEW d \in Channels, y.bsd_map[d] # -1 PROVE y.bsd[y.bsd_map[d]].mode = d
    <3>1. CASE d = c
      BY <2>2, <2>3, <2>6, <3>1
    <3>2. CASE d # c
      <4>1. y.bsd_map[d] = x.bsd_map[d] /\ x.bsd_map[d] \in Slots
        BY <2>2, <2>3, <2>7, <3>2
      <4>2. x.bsd[x.bsd_map[d]].mode = d
        BY <2>7, <4>1 DEF Agrees, MapInverse
      <4>3. x.bsd_map[d] # f
        BY <2>1, <2>4, <4>2
      <4> QED BY <2>2, <2>3, <4>1, <4>2, <4>3 DEF Table
    <3> QED BY <3>1, <3>2
  <2>8. ASSUME NEW i \in Slots, y.bsd[i].mode # FreeMode PROVE y.bsd_map[y.bsd[i].mode] = i
    <3>1. CASE i = f
      BY <2>2, <2>3, <2>6, <3>1
    <3>2. CASE i # f
      <4>1. y.bsd[i] = x.bsd[i] /\ x.bsd[i].mode # FreeMode
        BY <2>2, <2>3, <2>8, <3>2 DEF Table
      <4>2. x.bsd_map[x.bsd[i].mode] = i
        BY <4>1 DEF Agrees, MapInverse
      <4>3. x.bsd[i].mode \in Channels
        BY <2>3, <4>1 DEF Table, Lighthouse
      <4>4. i # -1
        BY TableAssumption DEF Slots
      <4>5. x.bsd[i].mode # c
        BY <1>2, <4>2, <4>4
      <4> QED BY <2>2, <2>3, <4>1, <4>2, <4>3, <4>5
    <3> QED BY <3>1, <3>2
  <2>9. OnlyGen2(y)
    BY <2>2 DEF Agrees, OnlyGen2
  <2> QED BY <2>5, <2>6, <2>7, <2>8, <2>9 DEF Agrees, MapInverse, y
<1>3. CASE ~(x.bsd_map[c] = -1 /\ Free(x) # {})
  <2>1. Claim(x, c) = x /\ Idx(x, c) = x.bsd_map[c]
    BY <1>1, <1>3 DEF Claim, Idx
  <2> QED BY <2>1 DEF Agrees, MapInverse
<1> QED BY <1>2, <1>3

\* Generation 2 is detected on a system that had no other: nothing is reset.
LEMMA NotifyAgrees ==
  ASSUME NEW x \in Context, Agrees(x)
  PROVE  Agrees(Notify(x, 1)) /\ Notify(x, 1).lh_version # 0
<1>1. CASE Notices(x, 1)
  <2>1. x.lh_version = -1 /\ x.lh_version_configed \in {-1, 1}
    BY <1>1 DEF Notices, Agrees, OnlyGen2
  <2>2. [i \in Slots |-> x.bsd[i]] = x.bsd
    BY DEF Context, Table
  <2> DEFINE z == [x EXCEPT !.bsd = [i \in Slots |-> x.bsd[i]], !.lh_version = 1, !.gen = 1]
             y == SaveConfig(z)
  <2>3. Notify(x, 1) = y
    BY <1>1, <2>1 DEF Notify, GenDetected
  <2>4. /\ y.bsd = x.bsd /\ y.bsd_map = x.bsd_map /\ y.lh_version = 1 /\ y.gen = 1
        /\ y.lh_version_configed = x.lh_version_configed /\ y.decoder = x.decoder
        /\ y.file.gen = 1
    BY <2>2 DEF SaveConfig, Context
  <2>5. y \in Context
    BY <2>3, NotifyType
  <2> HIDE DEF y
  <2>6. OnlyGen2(y)
    BY <2>4 DEF Agrees, OnlyGen2
  <2> QED BY <2>3, <2>4, <2>5, <2>6, SameModes
<1>2. CASE ~Notices(x, 1)
  BY <1>2 DEF Notify, Agrees, OnlyGen2
<1> QED BY <1>1, <1>2

\* A packet names the channel it came on.
LEMMA OotxAgrees ==
  ASSUME NEW x \in Context, NEW i \in Slots, NEW g \in {0, 1},
         NEW p \in Bits(Channels), Agrees(x),
         g = 1 /\ p \in Packets(Channels) => p.mode = x.bsd[i].mode
  PROVE  Agrees(Ootx(x, i, g, p))
<1> DEFINE a == Attach(x, i)
<1>1. a \in Context /\ a.bsd = x.bsd /\ Agrees(a) /\ a.decoder[i] = 1
  BY DEF Attach, Context, Agrees, OnlyGen2, MapInverse
<1>2. CASE Ootx(x, i, g, p) \in {x, a}
  BY <1>1, <1>2
<1>3. CASE g = 1 /\ p \in Packets(Channels) /\ Ootx(x, i, g, p) = Receive(a, i, p)
  <2> DEFINE b == [mode |-> p.mode, id |-> p.id, OOTXSet |-> TRUE, pose |-> None]
             z == [a EXCEPT !.bsd[i] = b]
             y == Store(z, i)
  <2>1. b \in Lighthouse /\ b.mode = a.bsd[i].mode
    BY <1>1, <1>3 DEF Packets, Lighthouse
  <2> HIDE DEF a
  <2>2. z \in Context /\ \A j \in Slots : z.bsd[j].mode = a.bsd[j].mode
    BY <1>1, <2>1 DEF Context, Table
  <2>3. y \in Context
    BY <2>2, StoreType
  <2>4. /\ z.bsd_map = a.bsd_map /\ z.lh_version = a.lh_version /\ z.gen = a.gen
        /\ z.lh_version_configed = a.lh_version_configed /\ z.decoder = a.decoder
    BY <1>1 DEF Context
  <2> HIDE DEF z
  <2>5. /\ y.bsd = z.bsd /\ y.bsd_map = z.bsd_map /\ y.lh_version = z.lh_version
        /\ y.gen = z.gen /\ y.lh_version_configed = z.lh_version_configed
        /\ y.decoder = z.decoder /\ y.file.gen = z.gen
    BY <2>2 DEF Store, SaveConfig, Context
  <2> HIDE DEF y
  <2>6. Agrees(y)
    <3>1. OnlyGen2(y)
      BY <1>1, <2>4, <2>5 DEF Agrees, OnlyGen2
    <3> QED BY <1>1, <2>2, <2>3, <2>4, <2>5, <3>1, SameModes
  <2> QED BY <1>1, <1>3, <2>6 DEF Receive, y, z
<1> QED BY <1>1, <1>2, <1>3 DEF Ootx, Bits

\* A start finds the channels of what is on the file.
LEMMA LoadAgrees ==
  ASSUME NEW x \in Context, NEW force \in BOOLEAN, Sound(x), Agrees(x)
  PROVE  Agrees(Load(x.file, force))
<1> DEFINE lh == x.file.lh
           y  == Load(x.file, force)
<1>1. /\ y.bsd = lh /\ y.bsd_map = MapOf(lh) /\ y.lh_version = -1
      /\ y.lh_version_configed = x.file.gen /\ y.gen = x.file.gen /\ y.file = x.file
      /\ \A i \in Slots : y.decoder[i] = -1
  BY DEF Load
<1>2. lh \in Table
  BY DEF Context
<1>3. ASSUME NEW i \in Slots, lh[i].mode # FreeMode
      PROVE  x.bsd[i].mode = lh[i].mode /\ lh[i].mode \in Channels
  <2>1. Filed(x, i) /\ SoundSlot(x, i)
    BY DEF Sound
  <2>2. lh[i] \in Lighthouse
    BY <1>2 DEF Table
  <2>3. x.bsd[i].OOTXSet /\ lh[i] = x.lh_config[i]
    BY <1>3, <2>1 DEF Filed, Unused
  <2> QED BY <1>3, <2>1, <2>2, <2>3, KnownSlot DEF Lighthouse
<1> HIDE DEF lh, y
<1>4. OnlyGen2(y)
  BY <1>1 DEF Agrees, OnlyGen2
<1>5. \A c \in Channels : y.bsd_map[c] # -1 => y.bsd[y.bsd_map[c]].mode = c
  BY <1>1, <1>2, MapOfSlots
<1>6. ASSUME NEW i \in Slots, y.bsd[i].mode # FreeMode PROVE y.bsd_map[y.bsd[i].mode] = i
  <2> DEFINE c == lh[i].mode
             m == MapOf(lh)[c]
  <2>1. c \in Channels /\ x.bsd[i].mode = c /\ c # FreeMode
    BY <1>1, <1>3, <1>6
  <2>2. m \in Slots /\ lh[m].mode = c
    BY <1>2, <2>1, MapOfSlots
  <2>3. x.bsd[m].mode = c
    BY <1>3, <2>1, <2>2
  <2>4. x.bsd_map[c] = i /\ x.bsd_map[c] = m
    BY <2>1, <2>2, <2>3 DEF Agrees, MapInverse
  <2> QED BY <1>1, <2>4
<1> QED BY <1>4, <1>5, <1>6 DEF Agrees, MapInverse, y

-----------------------------------------------------------------------------
(* The invariant.                                                          *)

\* An empty file has nothing to disagree about.
LEMMA InitIInv == Init => IInv
<1> SUFFICES ASSUME Init PROVE IInv
  OBVIOUS
<1> DEFINE file == [gen |-> -1, lh |-> [i \in Slots |-> Unused]]
<1>1. PICK force \in BOOLEAN : ctx = Load(file, force)
  BY DEF Init
<1>2. file \in [gen : {-1, 0, 1}, lh : Table] /\ file.gen = -1
  BY UnusedType DEF Table
<1>3. \A i \in Slots : file.lh[i] = Unused
  OBVIOUS
<1> HIDE DEF file
<1>4. ctx \in Context
  BY <1>1, <1>2, LoadType
<1>5. Sound(ctx)
  <2>1. ctx.bsd = file.lh /\ ctx.lh_config = file.lh /\ ctx.file = file
    BY <1>1 DEF Load
  <2>2. ASSUME NEW i \in Slots PROVE Filed(ctx, i) /\ SoundSlot(ctx, i)
    <3>1. ctx.bsd[i] = Unused /\ ctx.lh_config[i] = Unused /\ ctx.file.lh[i] = Unused
      BY <1>3, <2>1
    <3> QED BY <3>1 DEF SoundSlot, Filed, Unused
  <2> QED BY <2>2 DEF Sound
<1>6. OnlyGen2(ctx)
  BY <1>1, <1>2 DEF Load, OnlyGen2
<1>7. MapInverse(ctx)
  <2>1. \A i \in Slots : ctx.bsd[i].mode = FreeMode
    BY <1>1, <1>3 DEF Load, Unused
  <2>2. \A c \in Channels : c # FreeMode
    BY TableAssumption DEF Channels, FreeMode
  <2>3. ASSUME NEW c \in Channels PROVE ctx.bsd_map[c] = -1
    BY <1>1, <1>2, <1>3, <2>2, <2>3, MapOfSlots DEF Load, Unused
  <2> QED BY <2>1, <2>3 DEF MapInverse
<1> QED BY <1>4, <1>5, <1>6, <1>7 DEF Init, IInv, TypeOK, Agrees

\* force-calibrate removes positions, and what is known is stored.
LEMMA StartupKeeps == IInv /\ Startup => IInv'
<1> SUFFICES ASSUME IInv, Startup PROVE IInv'
  OBVIOUS
<1> DEFINE known(i) == i < ctx.activeLighthouses
           table == [i \in Slots |-> IF ctx.force /\ known(i)
                                     THEN [ctx.bsd[i] EXCEPT !.pose = None] ELSE ctx.bsd[i]]
           told(i) == known(i) /\ (table[i].OOTXSet \/ table[i].pose # None)
           config == [i \in Slots |-> IF told(i) THEN table[i] ELSE ctx.lh_config[i]]
           z == [ctx EXCEPT !.state = "running", !.force = FALSE, !.bsd = table,
                            !.lh_config = config]
<1>1. ctx \in Context /\ Sound(ctx) /\ gens \subseteq {0, 1}
  BY DEF IInv, TypeOK
<1>2. ctx' = SaveConfig(z) /\ gens' = gens
  BY DEF Startup
<1>3. ASSUME NEW i \in Slots
      PROVE  /\ table[i] \in Lighthouse /\ config[i] \in Lighthouse
             /\ table[i].mode = ctx.bsd[i].mode
             /\ table[i].OOTXSet => table[i] \in {config[i], [config[i] EXCEPT !.pose = None]}
             /\ table[i].mode = FreeMode => ~table[i].OOTXSet
  <2>1. ctx.bsd[i] \in Lighthouse /\ ctx.lh_config[i] \in Lighthouse /\ SoundSlot(ctx, i)
    BY <1>1 DEF Context, Table, Sound
  <2>2. CASE ctx.force /\ known(i)
    BY <2>1, <2>2 DEF SoundSlot, Lighthouse
  <2>3. CASE ~(ctx.force /\ known(i))
    <3>1. table[i] = ctx.bsd[i]
      BY <2>3
    <3> QED BY <2>1, <3>1 DEF SoundSlot
  <2> QED BY <2>2, <2>3
<1>4. table \in Table /\ config \in Table
  BY <1>3 DEF Table
<1> HIDE DEF table, config
<1>5. z \in Context /\ z.bsd = table /\ z.lh_config = config
  BY <1>1, <1>4 DEF Context
<1>6. \A i \in Slots : SoundSlot(z, i)
  BY <1>3, <1>5 DEF SoundSlot
<1>7. ctx' \in Context /\ Sound(ctx')
  BY <1>2, <1>5, <1>6, SaveType, SaveSound
<1>8. ASSUME gens \subseteq {1} PROVE Agrees(ctx')
  <2>1. Agrees(ctx)
    BY <1>8 DEF IInv
  <2>2. /\ ctx'.bsd = table /\ ctx'.bsd_map = ctx.bsd_map
        /\ ctx'.lh_version = ctx.lh_version /\ ctx'.gen = ctx.gen /\ ctx'.file.gen = ctx.gen
        /\ ctx'.lh_version_configed = ctx.lh_version_configed /\ ctx'.decoder = ctx.decoder
    BY <1>1, <1>2 DEF SaveConfig, Context
  <2>3. OnlyGen2(ctx')
    BY <2>1, <2>2 DEF Agrees, OnlyGen2
  <2> QED BY <1>1, <1>3, <1>7, <2>1, <2>2, <2>3, SameModes
<1> QED BY <1>1, <1>2, <1>7, <1>8 DEF IInv, TypeOK

\* survive_notify_gen1 and survive_notify_gen2 by themselves.
LEMMA DetectKeeps == ASSUME NEW g \in {0, 1} PROVE IInv /\ Detect(g) => IInv'
<1> SUFFICES ASSUME IInv, Detect(g) PROVE IInv'
  OBVIOUS
<1>1. ctx \in Context /\ Sound(ctx) /\ gens \subseteq {0, 1} /\ ctx' = Notify(ctx, g)
  BY DEF IInv, TypeOK, Detect
<1>2. gens' = IF Notices(ctx, g) THEN gens \cup {g} ELSE gens
  BY DEF Detect, Detected
<1>3. ASSUME gens' \subseteq {1} PROVE Agrees(ctx')
  <2>1. Agrees(ctx) /\ (Notices(ctx, g) => g = 1)
    BY <1>2, <1>3 DEF IInv
  <2>2. CASE g = 1
    BY <1>1, <2>1, <2>2, NotifyAgrees
  <2>3. CASE ~Notices(ctx, g)
    BY <1>1, <2>1, <2>3 DEF Notify
  <2> QED BY <2>1, <2>2, <2>3
<1> QED BY <1>1, <1>2, <1>3, NotifyType, NotifySound DEF IInv, TypeOK

\* survive_default_sync_process.
LEMMA SyncKeeps ==
  ASSUME NEW c \in Channels, NEW p \in Bits({c}) PROVE IInv /\ Sync(c, p) => IInv'
<1> SUFFICES ASSUME IInv, Sync(c, p) PROVE IInv'
  OBVIOUS
<1> DEFINE i == Idx(ctx, c)
           x == Claim(ctx, c)
<1>1. ctx \in Context /\ Sound(ctx) /\ gens \subseteq {0, 1} /\ gens' = gens
  BY DEF IInv, TypeOK, Sync
<1>2. ctx' = IF i = -1 THEN x ELSE Ootx(x, i, 1, p)
  BY DEF Sync
<1>3. x \in Context /\ Sound(x) /\ i \in Slots \cup {-1}
  BY <1>1, ClaimType, ClaimSound
<1>4. gens \subseteq {1} => Agrees(x) /\ (i # -1 => x.bsd[i].mode = c)
  BY <1>1, ClaimAgrees DEF IInv
<1>5. p \in Bits(Channels) /\ (p \in Packets(Channels) => p.mode = c)
  BY TableAssumption DEF Bits, Packets, NoBit, OneBit, Channels, FreeMode
<1> HIDE DEF i, x
<1>6. CASE i = -1
  BY <1>1, <1>2, <1>3, <1>4, <1>6 DEF IInv, TypeOK
<1>7. CASE i # -1
  <2>1. ctx' = Ootx(x, i, 1, p) /\ i \in Slots
    BY <1>2, <1>3, <1>7
  <2>2. ctx' \in Context
    BY <1>3, <1>5, <2>1, OotxType
  <2>3. Sound(ctx')
    BY <1>3, <1>5, <2>1, OotxSound
  <2>4. ASSUME gens \subseteq {1} PROVE Agrees(ctx')
    BY <1>3, <1>4, <1>5, <1>7, <2>1, <2>4, OotxAgrees
  <2> QED BY <1>1, <2>2, <2>3, <2>4 DEF IInv, TypeOK
<1> QED BY <1>6, <1>7

\* survive_default_sweep_process.
LEMMA SweepKeeps ==
  ASSUME NEW c \in Channels, NEW angle \in BOOLEAN PROVE IInv /\ Sweep(c, angle) => IInv'
<1> SUFFICES ASSUME IInv, Sweep(c, angle) PROVE IInv'
  OBVIOUS
<1> DEFINE w == Claim(ctx, c)
           x == Notify(w, 1)
<1>1. ctx \in Context /\ Sound(ctx) /\ gens \subseteq {0, 1}
  BY DEF IInv, TypeOK
<1>2. ctx' = IF angle THEN Claim(x, c) ELSE x
  BY DEF Sweep
<1>3. gens' \subseteq {0, 1} /\ gens \subseteq gens'
  BY <1>1 DEF Sweep, Detected
<1>4. w \in Context /\ Sound(w) /\ (gens \subseteq {1} => Agrees(w))
  BY <1>1, ClaimType, ClaimSound, ClaimAgrees DEF IInv
<1> HIDE DEF w
<1>5. x \in Context /\ Sound(x) /\ (gens \subseteq {1} => Agrees(x))
  BY <1>4, NotifyType, NotifySound, NotifyAgrees
<1> HIDE DEF x
<1>6. ctx' \in Context /\ Sound(ctx') /\ (gens \subseteq {1} => Agrees(ctx'))
  BY <1>2, <1>5, ClaimType, ClaimSound, ClaimAgrees
<1> QED BY <1>3, <1>6 DEF IInv, TypeOK

\* survive_default_light_process; where generation 2 is forced, its decoder
\* does not take the packet.
LEMMA LightKeeps ==
  ASSUME NEW c \in {0, 1}, NEW p \in Bits(Channels) PROVE IInv /\ Light(c, p) => IInv'
<1> SUFFICES ASSUME IInv, Light(c, p) PROVE IInv'
  OBVIOUS
<1> DEFINE i == Idx(ctx, c)
           w == Claim(ctx, c)
           x == Notify(w, 0)
<1>1. ctx \in Context /\ Sound(ctx) /\ gens \subseteq {0, 1} /\ c \in Channels
  BY TableAssumption DEF IInv, TypeOK, Channels
<1>2. ctx' = Ootx(x, i, 0, p) /\ i # -1
  BY DEF Light
<1>3. gens' = IF Notices(ctx, 0) THEN gens \cup {0} ELSE gens
  BY DEF Light, Detected
<1>4. w \in Context /\ Sound(w) /\ i \in Slots /\ w.lh_version = ctx.lh_version
  <2>1. w.lh_version = ctx.lh_version
    BY <1>1 DEF Claim, Context
  <2> QED BY <1>1, <1>2, <2>1, ClaimType, ClaimSound
<1>5. gens \subseteq {1} => Agrees(w)
  BY <1>1, ClaimAgrees DEF IInv
<1> HIDE DEF i, w
<1>6. x \in Context /\ Sound(x)
  BY <1>4, NotifyType, NotifySound
<1>7. ASSUME gens' \subseteq {1} PROVE Agrees(ctx')
  <2>1. ~Notices(w, 0) /\ gens \subseteq {1}
    BY <1>3, <1>4, <1>7 DEF Notices
  <2>2. x = w /\ Agrees(w)
    BY <1>5, <2>1 DEF Notify
  <2> HIDE DEF x
  <2> QED BY <1>2, <1>4, <2>2, OotxAgrees
<1> HIDE DEF x
<1>8. ctx' \in Context /\ Sound(ctx')
  BY <1>2, <1>4, <1>6, OotxType, OotxSound
<1> QED BY <1>1, <1>3, <1>7, <1>8 DEF IInv, TypeOK

\* Setting a position changes nothing else.
LEMMA PoseSet ==
  ASSUME NEW x \in Context, NEW i \in Slots, NEW s \in Stations
  PROVE  LET z == [x EXCEPT !.bsd[i].pose = s]
         IN  /\ z \in Context
             /\ z.bsd[i].mode = x.bsd[i].mode /\ z.bsd[i].id = x.bsd[i].id
             /\ z.bsd[i].OOTXSet = x.bsd[i].OOTXSet /\ z.bsd[i].pose = s
             /\ \A j \in Slots \ {i} : z.bsd[j] = x.bsd[j]
             /\ z.lh_config = x.lh_config /\ z.bsd_map = x.bsd_map /\ z.file = x.file
             /\ z.lh_version = x.lh_version /\ z.gen = x.gen
             /\ z.lh_version_configed = x.lh_version_configed /\ z.decoder = x.decoder
             /\ z.activeLighthouses = x.activeLighthouses
<1> DEFINE z == [x EXCEPT !.bsd[i].pose = s]
           b == [x.bsd[i] EXCEPT !.pose = s]
<1>1. x.bsd \in Table /\ x.bsd[i] \in Lighthouse
  BY DEF Context, Table
<1>2. b \in Lighthouse /\ b.mode = x.bsd[i].mode /\ b.OOTXSet = x.bsd[i].OOTXSet
      /\ b.id = x.bsd[i].id /\ b.pose = s
  BY <1>1 DEF Lighthouse
<1>3. z = [x EXCEPT !.bsd = [x.bsd EXCEPT ![i] = b]]
  BY DEF Context
<1> HIDE DEF b
<1>4. [x.bsd EXCEPT ![i] = b] \in Table
  BY <1>1, <1>2 DEF Table
<1>5. /\ z.bsd = [x.bsd EXCEPT ![i] = b] /\ z \in Context
      /\ z.lh_config = x.lh_config /\ z.bsd_map = x.bsd_map /\ z.file = x.file
      /\ z.lh_version = x.lh_version /\ z.gen = x.gen
      /\ z.lh_version_configed = x.lh_version_configed /\ z.decoder = x.decoder
      /\ z.activeLighthouses = x.activeLighthouses
  BY <1>3, <1>4 DEF Context
<1> HIDE DEF z
<1>6. z.bsd[i] = b /\ \A j \in Slots \ {i} : z.bsd[j] = x.bsd[j]
  BY <1>1, <1>5 DEF Table
<1> QED BY <1>2, <1>5, <1>6 DEF z

\* survive_default_raw_lighthouse_pose_process.
LEMMA PoseKeeps ==
  ASSUME NEW i \in Slots, NEW s \in Stations PROVE IInv /\ Pose(i, s) => IInv'
<1> SUFFICES ASSUME IInv, Pose(i, s) PROVE IInv'
  OBVIOUS
<1> DEFINE z == [ctx EXCEPT !.bsd[i].pose = s]
<1>1. ctx \in Context /\ Sound(ctx) /\ gens \subseteq {0, 1}
  BY DEF IInv, TypeOK
<1>2. ctx' = Store(z, i) /\ gens' = gens
  BY DEF Pose
<1>3. /\ z \in Context
      /\ z.bsd[i].mode = ctx.bsd[i].mode /\ z.bsd[i].OOTXSet = ctx.bsd[i].OOTXSet
      /\ \A j \in Slots \ {i} : z.bsd[j] = ctx.bsd[j]
      /\ z.lh_config = ctx.lh_config /\ z.bsd_map = ctx.bsd_map
      /\ z.lh_version = ctx.lh_version /\ z.gen = ctx.gen
      /\ z.lh_version_configed = ctx.lh_version_configed /\ z.decoder = ctx.decoder
  BY <1>1, PoseSet
<1> HIDE DEF z
<1>4. \A j \in Slots \ {i} : SoundSlot(z, j)
  BY <1>1, <1>3 DEF Sound, SoundSlot
<1>5. z.bsd[i].mode = FreeMode => ~z.bsd[i].OOTXSet
  BY <1>1, <1>3 DEF Sound, SoundSlot
<1>6. ctx' \in Context /\ Sound(ctx')
  BY <1>2, <1>3, <1>4, <1>5, StoreType, StoreSound
<1>7. ASSUME gens \subseteq {1} PROVE Agrees(ctx')
  <2>1. Agrees(ctx)
    BY <1>7 DEF IInv
  <2>2. /\ ctx'.bsd = z.bsd /\ ctx'.bsd_map = z.bsd_map /\ ctx'.lh_version = z.lh_version
        /\ ctx'.gen = z.gen /\ ctx'.lh_version_configed = z.lh_version_configed
        /\ ctx'.decoder = z.decoder /\ ctx'.file.gen = z.gen
    BY <1>2, <1>3 DEF Store, SaveConfig, Context
  <2>3. OnlyGen2(ctx')
    BY <1>3, <2>1, <2>2 DEF Agrees, OnlyGen2
  <2>4. \A j \in Slots : ctx'.bsd[j].mode = ctx.bsd[j].mode
    BY <1>3, <2>2
  <2> QED BY <1>1, <1>3, <1>6, <2>1, <2>2, <2>3, <2>4, SameModes
<1> QED BY <1>1, <1>2, <1>6, <1>7 DEF IInv, TypeOK

\* Positions are given up in some slots.
GivesUp(x, y) ==
  \E table \in [Slots -> Lighthouse] :
    /\ \A i \in Slots : table[i] \in {x.bsd[i], [x.bsd[i] EXCEPT !.pose = None]}
    /\ y = [x EXCEPT !.bsd = table]

\* survive_lighthouse_adjust_confidence and survive_kalman_tracker_lost_tracking.
LEMMA ResetsGiveUp ==
  ASSUME ctx \in Context
  PROVE  /\ \A i \in Slots : AdjustConfidence(i) => GivesUp(ctx, ctx') /\ gens' = gens
         /\ LoseTracking => GivesUp(ctx, ctx') /\ gens' = gens
<1>1. ASSUME NEW i \in Slots
      PROVE  ctx.bsd[i] \in Lighthouse /\ [ctx.bsd[i] EXCEPT !.pose = None] \in Lighthouse
  <2>1. ctx.bsd[i] \in Lighthouse
    BY DEF Context, Table
  <2> QED BY <2>1 DEF Lighthouse
<1>2. ASSUME NEW i \in Slots, AdjustConfidence(i) PROVE GivesUp(ctx, ctx') /\ gens' = gens
  <2> DEFINE table == [ctx.bsd EXCEPT ![i] = [ctx.bsd[i] EXCEPT !.pose = None]]
  <2>1. table \in [Slots -> Lighthouse]
    BY <1>1 DEF Context, Table
  <2>2. \A j \in Slots : table[j] \in {ctx.bsd[j], [ctx.bsd[j] EXCEPT !.pose = None]}
    BY DEF Context, Table
  <2>3. ctx' = [ctx EXCEPT !.bsd = table]
    BY <1>2 DEF AdjustConfidence, Context
  <2> HIDE DEF table
  <2> QED BY <1>2, <2>1, <2>2, <2>3 DEF GivesUp, AdjustConfidence
<1>3. ASSUME LoseTracking PROVE GivesUp(ctx, ctx') /\ gens' = gens
  <2> DEFINE table == [i \in Slots |-> IF i < ctx.activeLighthouses
                                       THEN [ctx.bsd[i] EXCEPT !.pose = None]
                                       ELSE ctx.bsd[i]]
  <2>1. table \in [Slots -> Lighthouse]
    BY <1>1
  <2>2. \A j \in Slots : table[j] \in {ctx.bsd[j], [ctx.bsd[j] EXCEPT !.pose = None]}
    OBVIOUS
  <2>3. ctx' = [ctx EXCEPT !.bsd = table]
    BY <1>3 DEF LoseTracking
  <2> HIDE DEF table
  <2> QED BY <1>3, <2>1, <2>2, <2>3 DEF GivesUp, LoseTracking
<1> QED BY <1>2, <1>3

\* What giving up positions leaves as it was.
LEMMA GivenUp ==
  ASSUME NEW x \in Context, NEW y, GivesUp(x, y)
  PROVE  /\ y \in Context
         /\ \A i \in Slots : /\ y.bsd[i].mode = x.bsd[i].mode /\ y.bsd[i].id = x.bsd[i].id
                             /\ y.bsd[i].OOTXSet = x.bsd[i].OOTXSet
                             /\ y.bsd[i] \in {x.bsd[i], [x.bsd[i] EXCEPT !.pose = None]}
                             /\ y.bsd[i].pose \in {None, x.bsd[i].pose}
         /\ y.lh_config = x.lh_config /\ y.bsd_map = x.bsd_map /\ y.file = x.file
         /\ y.lh_version = x.lh_version /\ y.gen = x.gen
         /\ y.lh_version_configed = x.lh_version_configed /\ y.decoder = x.decoder
         /\ y.activeLighthouses = x.activeLighthouses
<1>1. PICK table \in [Slots -> Lighthouse] :
        /\ \A i \in Slots : table[i] \in {x.bsd[i], [x.bsd[i] EXCEPT !.pose = None]}
        /\ y = [x EXCEPT !.bsd = table]
  BY DEF GivesUp
<1>2. y \in Context /\ y.bsd = table
  BY <1>1 DEF Context, Table
<1>3. ASSUME NEW i \in Slots
      PROVE  /\ table[i].mode = x.bsd[i].mode /\ table[i].id = x.bsd[i].id
             /\ table[i].OOTXSet = x.bsd[i].OOTXSet
             /\ table[i].pose \in {None, x.bsd[i].pose}
  <2>1. x.bsd[i] \in Lighthouse
    BY DEF Context, Table
  <2> QED BY <1>1, <2>1 DEF Lighthouse
<1>4. /\ y.lh_config = x.lh_config /\ y.bsd_map = x.bsd_map /\ y.file = x.file
      /\ y.lh_version = x.lh_version /\ y.gen = x.gen
      /\ y.lh_version_configed = x.lh_version_configed /\ y.decoder = x.decoder
      /\ y.activeLighthouses = x.activeLighthouses
  BY <1>1 DEF Context
<1> QED BY <1>1, <1>2, <1>3, <1>4

\* The handlers that give positions up without a save.
LEMMA GiveUpKeeps ==
  ASSUME IInv, GivesUp(ctx, ctx'), gens' = gens
  PROVE  IInv'
<1>1. ctx \in Context /\ Sound(ctx) /\ gens \subseteq {0, 1}
  BY DEF IInv, TypeOK
<1>2. /\ ctx' \in Context
      /\ ctx'.lh_config = ctx.lh_config /\ ctx'.bsd_map = ctx.bsd_map /\ ctx'.file = ctx.file
      /\ ctx'.lh_version = ctx.lh_version /\ ctx'.gen = ctx.gen
      /\ ctx'.lh_version_configed = ctx.lh_version_configed /\ ctx'.decoder = ctx.decoder
  BY <1>1, GivenUp
<1>3. ASSUME NEW i \in Slots
      PROVE  /\ ctx'.bsd[i].mode = ctx.bsd[i].mode
             /\ ctx'.bsd[i].OOTXSet = ctx.bsd[i].OOTXSet
             /\ ctx'.bsd[i] \in {ctx.bsd[i], [ctx.bsd[i] EXCEPT !.pose = None]}
  BY <1>1, GivenUp
<1>4. ASSUME NEW i \in Slots PROVE Filed(ctx', i) /\ SoundSlot(ctx', i)
  <2>1. Filed(ctx, i) /\ SoundSlot(ctx, i)
    BY <1>1 DEF Sound
  <2>2. ctx.lh_config[i] \in Lighthouse
    BY <1>1 DEF Context, Table
  <2>3. Filed(ctx', i)
    BY <1>2, <1>3, <2>1 DEF Filed
  <2>4. [[ctx.lh_config[i] EXCEPT !.pose = None] EXCEPT !.pose = None]
          = [ctx.lh_config[i] EXCEPT !.pose = None]
    BY <2>2 DEF Lighthouse
  <2>5. SoundSlot(ctx', i)
    BY <1>2, <1>3, <2>1, <2>4 DEF SoundSlot
  <2> QED BY <2>3, <2>5
<1>5. ASSUME gens \subseteq {1} PROVE Agrees(ctx')
  <2>1. Agrees(ctx)
    BY <1>5 DEF IInv
  <2>2. OnlyGen2(ctx')
    BY <1>2, <2>1 DEF Agrees, OnlyGen2
  <2> QED BY <1>1, <1>2, <1>3, <2>1, <2>2, SameModes
<1> QED BY <1>1, <1>2, <1>4, <1>5 DEF IInv, TypeOK, Sound

\* The next start after survive_close or a crash.
LEMMA RestartKeeps ==
  ASSUME NEW force \in BOOLEAN PROVE IInv /\ (Close(force) \/ Crash(force)) => IInv'
<1> SUFFICES ASSUME IInv, Close(force) \/ Crash(force) PROVE IInv'
  OBVIOUS
<1> DEFINE x == SaveConfig(ctx)
<1>1. ctx \in Context /\ Sound(ctx) /\ gens \subseteq {0, 1} /\ gens' = gens
  BY DEF IInv, TypeOK, Close, Crash
<1>2. x \in Context /\ Sound(x)
  BY <1>1, SaveType, SaveSound DEF Sound
<1>3. ASSUME gens \subseteq {1} PROVE Agrees(ctx) /\ Agrees(x)
  <2>1. Agrees(ctx)
    BY <1>3 DEF IInv
  <2>2. OnlyGen2(x) /\ x.bsd_map = ctx.bsd_map /\ x.bsd = ctx.bsd
    BY <1>1, <2>1 DEF SaveConfig, Context, Agrees, OnlyGen2
  <2> QED BY <1>1, <1>2, <2>1, <2>2, SameModes
<1> HIDE DEF x
<1>4. ASSUME NEW y \in {ctx, x}, ctx' = Load(y.file, force) PROVE IInv'
  <2>1. y \in Context /\ Sound(y) /\ (gens \subseteq {1} => Agrees(y))
    BY <1>1, <1>2, <1>3
  <2>2. y.file \in [gen : {-1, 0, 1}, lh : Table]
    BY <2>1 DEF Context
  <2>3. ctx' \in Context
    BY <1>4, <2>2, LoadType
  <2>4. Sound(ctx')
    BY <1>4, <2>1, LoadSound
  <2>5. gens \subseteq {1} => Agrees(ctx')
    BY <1>4, <2>1, LoadAgrees
  <2> QED BY <1>1, <2>3, <2>4, <2>5 DEF IInv, TypeOK
<1> QED BY <1>4 DEF Close, Crash, x

\* Every step keeps the invariant.
LEMMA NextIInv == IInv /\ [Next]_vars => IInv'
<1> SUFFICES ASSUME IInv, [Next]_vars PROVE IInv'
  OBVIOUS
<1>1. CASE UNCHANGED vars
  BY <1>1 DEF vars, IInv, TypeOK, Sound, SoundSlot, Filed, Agrees, OnlyGen2, MapInverse
<1>2. CASE Next
  <2>1. ctx \in Context
    BY DEF IInv, TypeOK
  <2> QED BY <1>2, <2>1, StartupKeeps, DetectKeeps, SyncKeeps, SweepKeeps, LightKeeps, PoseKeeps,
             ResetsGiveUp, GiveUpKeeps, RestartKeeps DEF Next
<1> QED BY <1>1, <1>2

\* The inductive invariant, for any number of slots and stations.
THEOREM TableInvariant == Spec => []IInv
  BY InitIInv, NextIInv, PTL DEF Spec

\* TypeOK holds.
THEOREM TableTyped == Spec => []TypeOK
<1>1. IInv => TypeOK
  BY DEF IInv
<1> QED BY <1>1, TableInvariant, PTL

\* On a system of generation 2 bsd_map and the modes of bsd are each other's
\* inverse.
THEOREM MapAndTableAgree == Spec => []MapAgrees
<1>1. IInv => MapAgrees
  BY DEF IInv, Agrees, MapInverse, MapAgrees
<1> QED BY <1>1, TableInvariant, PTL

\* What is known of a station is in the file whenever the process dies, but for a
\* position that was given up.
THEOREM KnownIsDurable == Spec => []Durable
<1>1. IInv => Durable
  <2> SUFFICES ASSUME IInv, NEW i \in Slots
               PROVE  \/ Saved(ctx, i)
                      \/ /\ ctx.bsd[i].OOTXSet
                         /\ ctx.bsd[i] = [ctx.file.lh[i] EXCEPT !.pose = None]
    BY DEF Durable
  <2> QED BY DEF IInv, Sound, Filed, SoundSlot, Saved
<1> QED BY <1>1, TableInvariant, PTL

-----------------------------------------------------------------------------
(* Positions: what is saved of them, and whose they are.                   *)

\* lh_config, from which the file is written, has all that is known of the slot.
Current(x, i) == x.bsd[i].OOTXSet => x.bsd[i] = x.lh_config[i]

\* Another station's position, in the table or to be written.
Off(x, i) ==
  \/ x.bsd[i].pose \notin {None, x.bsd[i].id}
  \/ x.bsd[i].OOTXSet /\ x.lh_config[i].pose \notin {None, x.bsd[i].id}

\* From x to y no slot falls behind the configuration, and no station gets
\* another's position.
Carries(x, y) ==
  \A i \in Slots : /\ Current(x, i) => Current(y, i)
                   /\ Off(y, i) => Off(x, i) /\ y.bsd[i].id = x.bsd[i].id

\* The file is what it should be, so that these speak of it too.
LEMMA FileFollows ==
  ASSUME NEW x \in Context, Sound(x), NEW i \in Slots
  PROVE  (Saved(x, i) <=> Current(x, i)) /\ (Astray(x, i) <=> Off(x, i))
<1>1. Filed(x, i) /\ SoundSlot(x, i)
  BY DEF Sound
<1>2. CASE x.bsd[i].OOTXSet
  BY <1>1, <1>2, KnownSlot DEF Filed, Saved, Current, Astray, Off
<1>3. CASE ~x.bsd[i].OOTXSet
  BY <1>1, <1>3 DEF Filed, Saved, Current, Astray, Off, Unused
<1> QED BY <1>2, <1>3

\* Function after function.
LEMMA CarriesOn ==
  ASSUME NEW x, NEW y, NEW z, Carries(x, y), Carries(y, z)
  PROVE  Carries(x, z)
BY DEF Carries

\* A slot that is cleared has no position, and the others stay.
LEMMA OneSlotCarries ==
  ASSUME NEW x \in Context, NEW y \in Context, NEW i \in Slots, Current(y, i), ~Off(y, i),
         \A j \in Slots \ {i} : y.bsd[j] = x.bsd[j] /\ y.lh_config[j] = x.lh_config[j]
  PROVE  Carries(x, y)
BY DEF Carries, Current, Off

\* config_save and config_set_lighthouse.
LEMMA StoreCarries ==
  ASSUME NEW x \in Context
  PROVE  /\ Carries(x, SaveConfig(x))
         /\ \A i \in Slots :
              /\ Store(x, i).bsd = x.bsd /\ Store(x, i).lh_config[i] = x.bsd[i]
              /\ \A j \in Slots \ {i} : Store(x, i).lh_config[j] = x.lh_config[j]
<1>1. Carries(x, SaveConfig(x))
  BY DEF SaveConfig, Carries, Current, Off, Context
<1>2. ASSUME NEW i \in Slots
      PROVE  /\ Store(x, i).bsd = x.bsd /\ Store(x, i).lh_config[i] = x.bsd[i]
             /\ \A j \in Slots \ {i} : Store(x, i).lh_config[j] = x.lh_config[j]
  BY DEF Store, SaveConfig, Context, Table
<1> QED BY <1>1, <1>2

\* survive_get_bsd_idx.
LEMMA ClaimCarries ==
  ASSUME NEW x \in Context, NEW c \in Channels
  PROVE  Carries(x, Claim(x, c))
<1>1. ASSUME NEW i \in Slots, NEW y \in Context,
             y.bsd = [x.bsd EXCEPT ![i] = Claimed(c)], y.lh_config = x.lh_config
      PROVE  Carries(x, y)
  <2>1. y.bsd[i] = Claimed(c) /\ \A j \in Slots \ {i} : y.bsd[j] = x.bsd[j]
    BY <1>1 DEF Context, Table
  <2>2. Current(y, i) /\ ~Off(y, i)
    BY <2>1 DEF Current, Off, Claimed, Unused
  <2> QED BY <1>1, <2>1, <2>2, OneSlotCarries
<1>2. Claim(x, c) \in Context
  BY ClaimType
<1>3. CASE x.lh_version = 0 /\ x.bsd[c].mode = FreeMode
  <2>1. c \in Slots
    BY DEF Slots, Channels
  <2>2. /\ Claim(x, c).bsd = [x.bsd EXCEPT ![c] = Claimed(c)]
        /\ Claim(x, c).lh_config = x.lh_config
    BY <1>3 DEF Claim, Context
  <2> QED BY <1>1, <1>2, <2>1, <2>2
<1>4. CASE x.lh_version # 0 /\ x.bsd_map[c] = -1 /\ Free(x) # {}
  <2>1. FirstFree(x) \in Slots
    BY <1>4, FirstFreeIsFree
  <2>2. /\ Claim(x, c).bsd = [x.bsd EXCEPT ![FirstFree(x)] = Claimed(c)]
        /\ Claim(x, c).lh_config = x.lh_config
    BY <1>4 DEF Claim, Context
  <2> QED BY <1>1, <1>2, <2>1, <2>2
<1>5. CASE ~(x.lh_version = 0 /\ x.bsd[c].mode = FreeMode)
           /\ ~(x.lh_version # 0 /\ x.bsd_map[c] = -1 /\ Free(x) # {})
  BY <1>5 DEF Claim, Carries
<1> QED BY <1>3, <1>4, <1>5

\* The reset for another generation drops positions.
LEMMA NotifyCarries ==
  ASSUME NEW x \in Context, NEW g \in {0, 1}
  PROVE  Carries(x, Notify(x, g))
<1> DEFINE reset == g # x.lh_version_configed /\ x.lh_version_configed # -1
           table == [i \in Slots |-> IF reset
                                     THEN [x.bsd[i] EXCEPT !.mode = FreeMode,
                                             !.OOTXSet = FALSE, !.pose = None]
                                     ELSE x.bsd[i]]
           y == SaveConfig([x EXCEPT !.bsd = table, !.lh_version = g, !.gen = g])
<1>1. ASSUME NEW i \in Slots
      PROVE  \/ ~table[i].OOTXSet /\ table[i].pose = None
             \/ table[i] = x.bsd[i]
  <2>1. x.bsd[i] \in Lighthouse
    BY DEF Context, Table
  <2> QED BY <2>1 DEF Lighthouse
<1> HIDE DEF table
<1>2. y.bsd = table /\ y.lh_config = x.lh_config
  BY DEF SaveConfig, Context
<1>3. Carries(x, y)
  BY <1>1, <1>2 DEF Carries, Current, Off
<1>4. Carries(x, [x EXCEPT !.lh_version = 3]) /\ Carries(x, x)
  BY DEF Carries, Current, Off, Context
<1> QED BY <1>3, <1>4 DEF Notify, GenDetected, table

\* A packet that is kept resets the position of its slot.
LEMMA OotxCarries ==
  ASSUME NEW x \in Context, NEW i \in Slots, NEW g \in {0, 1}, NEW p \in Bits(Channels)
  PROVE  Carries(x, Ootx(x, i, g, p))
<1> DEFINE a == Attach(x, i)
<1>1. a \in Context /\ Carries(x, a) /\ Carries(x, x)
  BY DEF Attach, Context, Carries, Current, Off
<1>2. ASSUME NEW y \in Context, p \in Packets(Channels) PROVE Carries(y, Receive(y, i, p))
  <2> DEFINE b == [mode |-> p.mode, id |-> p.id, OOTXSet |-> TRUE, pose |-> None]
             z == [y EXCEPT !.bsd[i] = b]
             w == Store(z, i)
  <2>1. b \in Lighthouse
    BY <1>2 DEF Packets, Lighthouse
  <2>2. /\ z \in Context /\ z.bsd[i] = b /\ z.lh_config = y.lh_config
        /\ \A j \in Slots \ {i} : z.bsd[j] = y.bsd[j]
    BY <2>1 DEF Context, Table
  <2>3. b.pose = None
    OBVIOUS
  <2> HIDE DEF z, b
  <2>4. w \in Context
    BY <2>2, StoreType
  <2>5. /\ w.bsd[i] = b /\ w.lh_config[i] = b
        /\ \A j \in Slots \ {i} : w.bsd[j] = y.bsd[j] /\ w.lh_config[j] = y.lh_config[j]
    BY <2>2, StoreCarries
  <2> HIDE DEF w
  <2>6. Current(w, i) /\ ~Off(w, i)
    BY <2>3, <2>5 DEF Current, Off
  <2>7. Carries(y, w)
    BY <2>4, <2>5, <2>6, OneSlotCarries
  <2>8. Carries(y, y)
    BY DEF Carries
  <2> QED BY <2>7, <2>8 DEF Receive, w, z, b
<1>3. p \in Packets(Channels) => Carries(a, Receive(a, i, p))
  BY <1>1, <1>2
<1>4. \/ Ootx(x, i, g, p) \in {x, a}
      \/ p \in Packets(Channels) /\ Ootx(x, i, g, p) = Receive(a, i, p)
  BY DEF Ootx, Bits
<1> HIDE DEF a
<1> QED BY <1>1, <1>3, <1>4, CarriesOn

\* A start reads what was written, where anything was known.
LEMMA LoadCarries ==
  ASSUME NEW x \in Context, Sound(x), NEW force \in BOOLEAN
  PROVE  Carries(x, Load(x.file, force))
<1> DEFINE y == Load(x.file, force)
<1>1. y.bsd = x.file.lh /\ y.lh_config = x.file.lh
  BY DEF Load
<1> HIDE DEF y
<1>2. ASSUME NEW i \in Slots, Off(y, i) PROVE Off(x, i) /\ y.bsd[i].id = x.bsd[i].id
  <2>1. Filed(x, i) /\ SoundSlot(x, i)
    BY DEF Sound
  <2>2. x.file.lh[i].pose \notin {None, x.file.lh[i].id}
    BY <1>1, <1>2 DEF Off
  <2>3. x.bsd[i].OOTXSet /\ x.file.lh[i] = x.lh_config[i]
    BY <2>1, <2>2 DEF Filed, Unused
  <2> QED BY <1>1, <2>1, <2>2, <2>3, KnownSlot DEF Off
<1> QED BY <1>1, <1>2 DEF Carries, Current, y

\* survive_startup clears positions and stores what it has cleared.
LEMMA StartupCarries == IInv /\ Startup => Carries(ctx, ctx')
<1> SUFFICES ASSUME IInv, Startup PROVE Carries(ctx, ctx')
  OBVIOUS
<1> DEFINE known(i) == i < ctx.activeLighthouses
           table == [i \in Slots |-> IF ctx.force /\ known(i)
                                     THEN [ctx.bsd[i] EXCEPT !.pose = None] ELSE ctx.bsd[i]]
           told(i) == known(i) /\ (table[i].OOTXSet \/ table[i].pose # None)
           config == [i \in Slots |-> IF told(i) THEN table[i] ELSE ctx.lh_config[i]]
<1>1. ctx \in Context
  BY DEF IInv, TypeOK
<1>2. ctx' = SaveConfig([ctx EXCEPT !.state = "running", !.force = FALSE, !.bsd = table,
                                    !.lh_config = config])
  BY DEF Startup
<1>3. ASSUME NEW i \in Slots
      PROVE  /\ table[i].id = ctx.bsd[i].id /\ table[i].OOTXSet = ctx.bsd[i].OOTXSet
             /\ table[i].pose \in {None, ctx.bsd[i].pose}
             /\ \/ table[i].OOTXSet => config[i] = table[i]
                \/ table[i] = ctx.bsd[i] /\ config[i] = ctx.lh_config[i]
  <2>1. ctx.bsd[i] \in Lighthouse
    BY <1>1 DEF Context, Table
  <2>2. CASE known(i)
    BY <2>1, <2>2 DEF Lighthouse
  <2>3. CASE ~known(i)
    BY <2>3
  <2> QED BY <2>2, <2>3
<1> HIDE DEF table, config
<1>4. ctx'.bsd = table /\ ctx'.lh_config = config
  BY <1>1, <1>2 DEF SaveConfig, Context
<1> QED BY <1>3, <1>4 DEF Carries, Current, Off

\* What UnsavedResets and PositionOfStation say of one step.
SavesStep ==
  \A i \in Slots : Saved(ctx, i) => \/ Saved(ctx', i)
                                    \/ AdjustConfidence(i) \/ LoseTracking
StationStep ==
  \A i \in Slots : Astray(ctx', i) =>
    \/ \E s \in Stations : s # ctx.bsd[i].id /\ Pose(i, s)
    \/ Astray(ctx, i) /\ ctx'.bsd[i].id = ctx.bsd[i].id

\* Nothing but a position that is set, or given up, is not carried.
LEMMA StepCarries ==
  ASSUME IInv, [Next]_vars
  PROVE  \/ Carries(ctx, ctx')
         \/ \E i \in Slots, s \in Stations : Pose(i, s)
         \/ (\E i \in Slots : AdjustConfidence(i)) \/ LoseTracking
<1>0. ctx \in Context /\ Sound(ctx)
  BY DEF IInv, TypeOK
<1>1. CASE UNCHANGED vars
  BY <1>1 DEF vars, Carries, Current, Off
<1>2. CASE Startup
  BY <1>2, StartupCarries
<1>3. CASE \E g \in {0, 1} : Detect(g)
  BY <1>0, <1>3, NotifyCarries DEF Detect
<1>4. ASSUME NEW c \in Channels, NEW p \in Bits({c}), Sync(c, p) PROVE Carries(ctx, ctx')
  <2> DEFINE i == Idx(ctx, c)
             x == Claim(ctx, c)
  <2>1. ctx' = IF i = -1 THEN x ELSE Ootx(x, i, 1, p)
    BY <1>4 DEF Sync
  <2>2. x \in Context /\ i \in Slots \cup {-1} /\ Carries(ctx, x)
    BY <1>0, ClaimType, ClaimCarries
  <2>3. p \in Bits(Channels)
    BY TableAssumption DEF Bits, Packets, NoBit, OneBit, Channels, FreeMode
  <2> HIDE DEF x, i
  <2> QED BY <2>1, <2>2, <2>3, OotxCarries, CarriesOn
<1>5. ASSUME NEW c \in Channels, NEW angle \in BOOLEAN, Sweep(c, angle) PROVE Carries(ctx, ctx')
  <2> DEFINE w == Claim(ctx, c)
             x == Notify(w, 1)
  <2>1. ctx' = IF angle THEN Claim(x, c) ELSE x
    BY <1>5 DEF Sweep
  <2>2. w \in Context /\ Carries(ctx, w)
    BY <1>0, ClaimType, ClaimCarries
  <2> HIDE DEF w
  <2>3. x \in Context /\ Carries(w, x)
    BY <2>2, NotifyType, NotifyCarries
  <2> HIDE DEF x
  <2> QED BY <2>1, <2>2, <2>3, ClaimCarries, CarriesOn
<1>6. ASSUME NEW c \in {0, 1}, NEW p \in Bits(Channels), Light(c, p) PROVE Carries(ctx, ctx')
  <2> DEFINE i == Idx(ctx, c)
             w == Claim(ctx, c)
             x == Notify(w, 0)
  <2>0. c \in Channels
    BY TableAssumption DEF Channels
  <2>1. ctx' = Ootx(x, i, 0, p) /\ i # -1
    BY <1>6 DEF Light
  <2>2. w \in Context /\ i \in Slots /\ Carries(ctx, w)
    BY <1>0, <2>0, <2>1, ClaimType, ClaimCarries
  <2> HIDE DEF w, i
  <2>3. x \in Context /\ Carries(w, x)
    BY <2>2, NotifyType, NotifyCarries
  <2> HIDE DEF x
  <2> QED BY <2>1, <2>2, <2>3, OotxCarries, CarriesOn
<1>7. ASSUME NEW force \in BOOLEAN, Close(force) \/ Crash(force) PROVE Carries(ctx, ctx')
  <2> DEFINE x == SaveConfig(ctx)
  <2>1. x \in Context /\ Sound(x) /\ Carries(ctx, x)
    BY <1>0, SaveType, SaveSound, StoreCarries DEF Sound
  <2> HIDE DEF x
  <2>2. Carries(x, Load(x.file, force)) /\ Carries(ctx, Load(ctx.file, force))
    BY <1>0, <2>1, LoadCarries
  <2> QED BY <1>7, <2>1, <2>2, CarriesOn DEF Close, Crash, x
<1> QED BY <1>1, <1>2, <1>3, <1>4, <1>5, <1>6, <1>7 DEF Next

\* One step of each property, the steps that StepCarries leaves out among them.
LEMMA NextPositions == IInv /\ IInv' /\ [Next]_vars => SavesStep /\ StationStep
<1> SUFFICES ASSUME IInv, IInv', [Next]_vars PROVE SavesStep /\ StationStep
  OBVIOUS
<1>0. ctx \in Context /\ Sound(ctx) /\ ctx' \in Context /\ Sound(ctx')
  BY DEF IInv, TypeOK
<1>a. \A i \in Slots : /\ Saved(ctx, i) <=> Current(ctx, i)
                       /\ Saved(ctx', i) <=> Current(ctx', i)
                       /\ Astray(ctx, i) <=> Off(ctx, i)
                       /\ Astray(ctx', i) <=> Off(ctx', i)
  BY <1>0, FileFollows
<1>1. CASE Carries(ctx, ctx')
  BY <1>1, <1>a DEF Carries, SavesStep, StationStep
<1>2. ASSUME NEW i \in Slots, NEW s \in Stations, Pose(i, s) PROVE SavesStep /\ StationStep
  <2> DEFINE z == [ctx EXCEPT !.bsd[i].pose = s]
  <2>1. ctx' = Store(z, i)
    BY <1>2 DEF Pose
  <2>2. /\ z \in Context /\ z.bsd[i].id = ctx.bsd[i].id /\ z.bsd[i].pose = s
        /\ \A j \in Slots \ {i} : z.bsd[j] = ctx.bsd[j]
        /\ z.lh_config = ctx.lh_config
    BY <1>0, PoseSet
  <2> HIDE DEF z
  <2>3. /\ ctx'.bsd[i].id = ctx.bsd[i].id /\ ctx'.bsd[i].pose = s
        /\ ctx'.lh_config[i] = ctx'.bsd[i]
        /\ \A j \in Slots \ {i} : ctx'.bsd[j] = ctx.bsd[j] /\ ctx'.lh_config[j] = ctx.lh_config[j]
    BY <2>1, <2>2, StoreCarries
  <2>4. SavesStep
    BY <1>a, <2>3 DEF SavesStep, Current
  <2>5. Off(ctx', i) => s # ctx.bsd[i].id
    BY <2>3 DEF Off
  <2>6. ASSUME NEW j \in Slots \ {i}, Off(ctx', j)
        PROVE  Off(ctx, j) /\ ctx'.bsd[j].id = ctx.bsd[j].id
    BY <2>3, <2>6 DEF Off
  <2>7. StationStep
    BY <1>2, <1>a, <2>5, <2>6 DEF StationStep
  <2> QED BY <2>4, <2>7
<1>3. ASSUME (\E i \in Slots : AdjustConfidence(i)) \/ LoseTracking PROVE SavesStep /\ StationStep
  <2>1. GivesUp(ctx, ctx')
    BY <1>0, <1>3, ResetsGiveUp
  <2>2. ctx'.lh_config = ctx.lh_config /\ ctx'.file = ctx.file
    BY <1>0, <2>1, GivenUp
  <2>3. ASSUME NEW i \in Slots
        PROVE  /\ ctx'.bsd[i].id = ctx.bsd[i].id /\ ctx'.bsd[i].OOTXSet = ctx.bsd[i].OOTXSet
               /\ ctx'.bsd[i].pose \in {None, ctx.bsd[i].pose}
    BY <1>0, <2>1, GivenUp
  <2>4. StationStep
    BY <1>a, <2>2, <2>3 DEF StationStep, Off
  <2>5. CASE LoseTracking
    BY <2>4, <2>5 DEF SavesStep
  <2>6. ASSUME NEW i \in Slots, AdjustConfidence(i) PROVE SavesStep
    <3>1. \A j \in Slots \ {i} : ctx'.bsd[j] = ctx.bsd[j]
      BY <1>0, <2>6 DEF AdjustConfidence, Context, Table
    <3>2. \A j \in Slots \ {i} : Saved(ctx, j) => Saved(ctx', j)
      BY <2>2, <3>1 DEF Saved
    <3> QED BY <2>6, <3>2 DEF SavesStep
  <2> QED BY <1>3, <2>4, <2>5, <2>6
<1> QED BY <1>1, <1>2, <1>3, StepCarries

\* The file falls behind the table only where a position is given up.
THEOREM OnlyResetsUnsaved == Spec => UnsavedResets
<1>1. IInv /\ IInv' /\ [Next]_vars => SavesStep
  BY NextPositions
<1>2. SavesStep => [\A i \in Slots : Saved(ctx, i) => \/ Saved(ctx', i)
                                                      \/ AdjustConfidence(i) \/ LoseTracking]_vars
  BY DEF SavesStep
<1> QED BY <1>1, <1>2, TableInvariant, PTL DEF Spec, UnsavedResets

\* A station gets another's position only from an optimizer that worked with the
\* other's light, and it is not handed on.
THEOREM PositionsBelong == Spec => PositionOfStation
<1>1. IInv /\ IInv' /\ [Next]_vars => StationStep
  BY NextPositions
<1>2. StationStep => [\A i \in Slots : Astray(ctx', i) =>
                        \/ \E s \in Stations : s # ctx.bsd[i].id /\ Pose(i, s)
                        \/ Astray(ctx, i) /\ ctx'.bsd[i].id = ctx.bsd[i].id]_vars
  BY DEF StationStep
<1> QED BY <1>1, <1>2, TableInvariant, PTL DEF Spec, PositionOfStation

-----------------------------------------------------------------------------
(* A channel keeps its slot.                                               *)

\* A channel that has a slot in x has the same in y.
Keeps(x, y) == \A c \in Channels : x.bsd_map[c] # -1 => y.bsd_map[c] = x.bsd_map[c]

\* A slot is taken for a channel only when it has none; the other functions
\* leave bsd_map alone.
LEMMA ClaimKeepsSlots ==
  ASSUME NEW x \in Context, NEW c \in Channels
  PROVE  Keeps(x, Claim(x, c))
<1>1. CASE x.lh_version # 0 /\ x.bsd_map[c] = -1 /\ Free(x) # {}
  <2>1. Claim(x, c).bsd_map = [x.bsd_map EXCEPT ![c] = FirstFree(x)]
    BY <1>1 DEF Claim, Context
  <2> QED BY <1>1, <2>1 DEF Keeps, Context
<1>2. CASE ~(x.lh_version # 0 /\ x.bsd_map[c] = -1 /\ Free(x) # {})
  BY <1>2 DEF Claim, Keeps, Context
<1> QED BY <1>1, <1>2

\* What writes bsd_map is Claim and the start of the program, and nothing else.
LEMMA OthersKeepSlots ==
  ASSUME NEW x \in Context
  PROVE  /\ SaveConfig(x).bsd_map = x.bsd_map
         /\ \A i \in Slots : Store(x, i).bsd_map = x.bsd_map
         /\ \A g \in {0, 1} : Notify(x, g).bsd_map = x.bsd_map
         /\ \A i \in Slots, g \in {0, 1}, p \in Bits(Channels) :
              Ootx(x, i, g, p).bsd_map = x.bsd_map
<1>1. SaveConfig(x).bsd_map = x.bsd_map
  BY DEF SaveConfig, Context
<1>2. \A i \in Slots : Store(x, i).bsd_map = x.bsd_map
  BY DEF Store, SaveConfig, Context
<1>3. ASSUME NEW g \in {0, 1} PROVE Notify(x, g).bsd_map = x.bsd_map
  BY DEF Notify, GenDetected, SaveConfig, Context
<1>4. ASSUME NEW i \in Slots, NEW g \in {0, 1}, NEW p \in Bits(Channels)
      PROVE  Ootx(x, i, g, p).bsd_map = x.bsd_map
  <2>1. Attach(x, i).bsd_map = x.bsd_map
    BY DEF Attach, Context
  <2>2. ASSUME NEW y PROVE Receive(y, i, p).bsd_map = y.bsd_map
    BY DEF Receive, Store, SaveConfig
  <2> QED BY <2>1, <2>2 DEF Ootx
<1> QED BY <1>1, <1>2, <1>3, <1>4

\* After a start the channel of a known station has the slot it had: the file
\* has that slot's entry, and no other slot's entry has the channel.
LEMMA LoadKeepsKnown ==
  ASSUME NEW x \in Context, Sound(x), Agrees(x), NEW force \in BOOLEAN, NEW c \in Channels,
         x.bsd_map[c] # -1, x.bsd[x.bsd_map[c]].OOTXSet
  PROVE  Load(x.file, force).bsd_map[c] = x.bsd_map[c]
<1> DEFINE i == x.bsd_map[c]
           m == MapOf(x.file.lh)[c]
<1>1. i \in Slots /\ x.bsd[i].mode = c /\ x.file.lh \in Table
  BY DEF Agrees, MapInverse, Context
<1>2. x.file.lh[i].mode = c
  BY <1>1, KnownSlot DEF Sound, Filed
<1>3. m \in Slots /\ x.file.lh[m].mode = c
  BY <1>1, <1>2, MapOfSlots
<1>4. c # FreeMode
  BY TableAssumption DEF Channels, FreeMode
<1>5. x.bsd[m].mode = c
  BY <1>3, <1>4, KnownSlot DEF Sound, Filed, Unused
<1>6. x.bsd_map[c] = m
  BY <1>3, <1>4, <1>5 DEF Agrees, MapInverse
<1> QED BY <1>6 DEF Load

\* What SlotStable says of one step.
StableStep ==
  \A c \in Channels :
    LET i == ctx.bsd_map[c]
    IN  gens' \subseteq {1} /\ i # -1 /\ ctx.bsd[i].OOTXSet => ctx'.bsd_map[c] = i

\* No step takes the channel of a known station away from its slot.
LEMMA NextStable == IInv /\ [Next]_vars => StableStep
<1> SUFFICES ASSUME IInv, [Next]_vars PROVE StableStep
  OBVIOUS
<1>0. ctx \in Context /\ Sound(ctx)
  BY DEF IInv, TypeOK
<1>1. Keeps(ctx, ctx') => StableStep
  BY DEF Keeps, StableStep
<1>2. CASE UNCHANGED vars
  BY <1>1, <1>2 DEF vars, Keeps
<1>3. CASE Startup
  BY <1>1, <1>3 DEF Startup, SaveConfig, Keeps
<1>4. CASE \E g \in {0, 1} : Detect(g)
  BY <1>0, <1>1, <1>4, OthersKeepSlots DEF Detect, Keeps
<1>5. ASSUME NEW c \in Channels, NEW p \in Bits({c}), Sync(c, p) PROVE StableStep
  <2> DEFINE i == Idx(ctx, c)
             x == Claim(ctx, c)
  <2>1. ctx' = IF i = -1 THEN x ELSE Ootx(x, i, 1, p)
    BY <1>5 DEF Sync
  <2>2. x \in Context /\ i \in Slots \cup {-1} /\ Keeps(ctx, x)
    BY <1>0, ClaimType, ClaimKeepsSlots
  <2>3. p \in Bits(Channels)
    BY TableAssumption DEF Bits, Packets, NoBit, OneBit, Channels, FreeMode
  <2> HIDE DEF x, i
  <2>4. ctx'.bsd_map = x.bsd_map
    BY <2>1, <2>2, <2>3, OthersKeepSlots
  <2> QED BY <1>1, <2>2, <2>4 DEF Keeps
<1>6. ASSUME NEW c \in Channels, NEW angle \in BOOLEAN, Sweep(c, angle) PROVE StableStep
  <2> DEFINE w == Claim(ctx, c)
             x == Notify(w, 1)
  <2>1. ctx' = IF angle THEN Claim(x, c) ELSE x
    BY <1>6 DEF Sweep
  <2>2. w \in Context /\ Keeps(ctx, w)
    BY <1>0, ClaimType, ClaimKeepsSlots
  <2> HIDE DEF w
  <2>3. x \in Context /\ x.bsd_map = w.bsd_map
    BY <2>2, NotifyType, OthersKeepSlots
  <2> HIDE DEF x
  <2>4. Keeps(x, ctx')
    BY <2>1, <2>3, ClaimKeepsSlots DEF Keeps
  <2> QED BY <1>1, <2>2, <2>3, <2>4 DEF Keeps
<1>7. ASSUME NEW c \in {0, 1}, NEW p \in Bits(Channels), Light(c, p) PROVE StableStep
  <2> DEFINE i == Idx(ctx, c)
             w == Claim(ctx, c)
             x == Notify(w, 0)
  <2>0. c \in Channels
    BY TableAssumption DEF Channels
  <2>1. ctx' = Ootx(x, i, 0, p) /\ i # -1
    BY <1>7 DEF Light
  <2>2. w \in Context /\ i \in Slots /\ Keeps(ctx, w)
    BY <1>0, <2>0, <2>1, ClaimType, ClaimKeepsSlots
  <2> HIDE DEF w, i
  <2>3. x \in Context /\ x.bsd_map = w.bsd_map
    BY <2>2, NotifyType, OthersKeepSlots
  <2> HIDE DEF x
  <2>4. ctx'.bsd_map = x.bsd_map
    BY <2>1, <2>2, <2>3, OthersKeepSlots
  <2> QED BY <1>1, <2>2, <2>3, <2>4 DEF Keeps
<1>8. CASE \E i \in Slots, s \in Stations : Pose(i, s)
  BY <1>1, <1>8 DEF Pose, Store, SaveConfig, Keeps
<1>10. CASE (\E i \in Slots : AdjustConfidence(i)) \/ LoseTracking
  BY <1>0, <1>1, <1>10, ResetsGiveUp, GivenUp DEF Keeps
<1>9. ASSUME NEW force \in BOOLEAN, Close(force) \/ Crash(force) PROVE StableStep
  <2> DEFINE x == SaveConfig(ctx)
  <2> SUFFICES ASSUME gens \subseteq {1}, NEW c \in Channels, ctx.bsd_map[c] # -1,
                      ctx.bsd[ctx.bsd_map[c]].OOTXSet
               PROVE  ctx'.bsd_map[c] = ctx.bsd_map[c]
    BY <1>9 DEF StableStep, Close, Crash
  <2>1. Agrees(ctx)
    BY DEF IInv
  <2>2. x \in Context /\ Sound(x) /\ x.bsd_map = ctx.bsd_map /\ x.bsd = ctx.bsd
    BY <1>0, SaveType, SaveSound DEF Sound, SaveConfig, Context
  <2>3. Agrees(x)
    <3>1. OnlyGen2(x)
      BY <1>0, <2>1 DEF SaveConfig, Context, Agrees, OnlyGen2
    <3> HIDE DEF x
    <3> QED BY <1>0, <2>1, <2>2, <3>1, SameModes
  <2> HIDE DEF x
  <2>4. CASE Close(force)
    BY <2>2, <2>3, <2>4, LoadKeepsKnown DEF Close, x
  <2>5. CASE Crash(force)
    BY <1>0, <2>1, <2>5, LoadKeepsKnown DEF Crash
  <2> QED BY <1>9, <2>4, <2>5
<1> QED BY <1>2, <1>3, <1>4, <1>5, <1>6, <1>7, <1>8, <1>9, <1>10 DEF Next

\* The channel of a known station keeps its slot for good, on a system of
\* generation 2, across packets, crashes and restarts.
THEOREM SlotsStay == Spec => SlotStable
<1>1. IInv /\ [Next]_vars => StableStep
  BY NextStable
<1>2. StableStep => [\A c \in Channels :
                       LET i == ctx.bsd_map[c]
                       IN gens' \subseteq {1} /\ i # -1 /\ ctx.bsd[i].OOTXSet
                            => ctx'.bsd_map[c] = i]_vars
  BY DEF StableStep
<1> QED BY <1>1, <1>2, TableInvariant, PTL DEF Spec, SlotStable

-----------------------------------------------------------------------------
(* The count of lighthouses.                                               *)

Used(x) == {i \in Slots : x.bsd[i].mode # FreeMode}

\* Nothing is known of a generation but g.
OneGen(x, g) == {x.lh_version, x.lh_version_configed, x.gen, x.file.gen} \subseteq {-1, g}

\* activeLighthouses counts no more than the slots in use.
Counted(x) == x.activeLighthouses <= Cardinality(Used(x))

CountInv == \A g \in {0, 1} : gens \subseteq {g} => OneGen(ctx, g) /\ Counted(ctx)

\* Slots in use are finitely many, at most all.
LEMMA UsedFinite ==
  ASSUME NEW x
  PROVE  /\ IsFiniteSet(Used(x)) /\ Cardinality(Used(x)) \in Nat
         /\ Cardinality(Used(x)) <= NLighthouses
<1>1. IsFiniteSet(Slots) /\ Cardinality(Slots) = NLighthouses
  BY TableAssumption, FS_Interval DEF Slots
<1>2. Used(x) \in SUBSET Slots
  BY DEF Used
<1> QED BY <1>1, <1>2, FS_Subset, FS_CardinalityType

\* More slots in use for the same count.
LEMMA MoreUsed ==
  ASSUME NEW x \in Context, NEW y \in Context, Counted(x), Used(x) \subseteq Used(y),
         y.activeLighthouses = x.activeLighthouses
  PROVE  Counted(y)
<1>1. Cardinality(Used(x)) <= Cardinality(Used(y))
  BY UsedFinite, FS_Subset
<1>2. Cardinality(Used(x)) \in Nat /\ Cardinality(Used(y)) \in Nat /\ x.activeLighthouses \in Nat
  BY UsedFinite DEF Context
<1> QED BY <1>1, <1>2 DEF Counted

\* survive_get_bsd_idx: in generation 1 a slot taken adds one to both; otherwise
\* the slots below the one taken are all in use.
LEMMA ClaimCounted ==
  ASSUME NEW x \in Context, NEW c \in Channels, Counted(x)
  PROVE  Counted(Claim(x, c))
<1> DEFINE y == Claim(x, c)
<1>0. y \in Context /\ x.bsd \in Table /\ x.activeLighthouses \in Nat
  BY ClaimType DEF Context
<1>a. c \in Slots /\ Claimed(c).mode # FreeMode
  BY TableAssumption DEF Slots, Channels, Claimed, Unused, FreeMode
<1>1. CASE x.lh_version = 0 /\ x.bsd[c].mode = FreeMode
  <2>1. y.bsd = [x.bsd EXCEPT ![c] = Claimed(c)] /\ y.activeLighthouses = x.activeLighthouses + 1
    BY <1>1 DEF Claim, Context
  <2> HIDE DEF y
  <2>2. Used(y) = Used(x) \cup {c} /\ c \notin Used(x)
    BY <1>0, <1>1, <1>a, <2>1 DEF Used, Table
  <2>3. Cardinality(Used(y)) = Cardinality(Used(x)) + 1
    BY <2>2, UsedFinite, FS_AddElement
  <2> QED BY <1>0, <2>1, <2>3, UsedFinite DEF Counted, y
<1>2. CASE x.lh_version # 0 /\ x.bsd_map[c] = -1 /\ Free(x) # {}
  <2> DEFINE f == FirstFree(x)
  <2>1. /\ y.bsd = [x.bsd EXCEPT ![f] = Claimed(c)]
        /\ y.activeLighthouses = IF x.activeLighthouses < f + 1 THEN f + 1 ELSE x.activeLighthouses
    BY <1>2 DEF Claim, Context
  <2>2. f \in Slots /\ \A j \in Free(x) : f <= j
    <3>1. \E i \in Free(x) : \A j \in Free(x) : i <= j
      <4>1. Free(x) \in SUBSET Slots
        BY DEF Free
      <4> QED BY <1>2, <4>1, LeastSlot
    <3> QED BY <3>1 DEF FirstFree, Free
  <2> HIDE DEF y, f
  <2>3. Used(x) \subseteq Used(y)
    BY <1>0, <1>a, <2>1, <2>2 DEF Used, Table
  <2>4. 0 .. f \subseteq Used(y)
    <3>1. ASSUME NEW j \in 0 .. f PROVE y.bsd[j].mode # FreeMode /\ j \in Slots
      <4>0. j \in Slots /\ f \in Int /\ j \in Int
        BY <2>2, TableAssumption DEF Slots
      <4>1. CASE j = f
        BY <1>0, <1>a, <2>1, <2>2, <4>1 DEF Table
      <4>2. CASE j # f
        <5>1. j \notin Free(x)
          BY <2>2, <4>0, <4>2
        <5>2. y.bsd[j] = x.bsd[j]
          BY <1>0, <2>1, <4>0, <4>2 DEF Table
        <5> QED BY <4>0, <5>1, <5>2 DEF Free
      <4> QED BY <4>0, <4>1, <4>2
    <3> QED BY <3>1 DEF Used
  <2>5. Cardinality(0 .. f) = f + 1 /\ f \in Nat
    BY <2>2, TableAssumption, FS_Interval DEF Slots
  <2>6. f + 1 <= Cardinality(Used(y))
    BY <2>4, <2>5, UsedFinite, FS_Subset
  <2>7. Cardinality(Used(x)) <= Cardinality(Used(y))
    BY <2>3, UsedFinite, FS_Subset
  <2> QED BY <1>0, <2>1, <2>5, <2>6, <2>7, UsedFinite DEF Counted, y
<1>3. CASE ~(x.lh_version = 0 /\ x.bsd[c].mode = FreeMode)
           /\ ~(x.lh_version # 0 /\ x.bsd_map[c] = -1 /\ Free(x) # {})
  BY <1>3 DEF Claim
<1> QED BY <1>1, <1>2, <1>3

\* Claiming a slot brings no second generation.
LEMMA ClaimOneGen ==
  ASSUME NEW x \in Context, NEW c \in Channels, NEW g \in {0, 1}, OneGen(x, g)
  PROVE  OneGen(Claim(x, c), g)
BY DEF Claim, OneGen, Context

\* The one generation is detected: nothing is reset.
LEMMA NotifyCounted ==
  ASSUME NEW x \in Context, NEW g \in {0, 1}, OneGen(x, g), Counted(x)
  PROVE  OneGen(Notify(x, g), g) /\ Counted(Notify(x, g))
<1>1. CASE Notices(x, g)
  <2>1. x.lh_version = -1 /\ ~(g # x.lh_version_configed /\ x.lh_version_configed # -1)
    BY <1>1 DEF Notices, OneGen
  <2>2. [i \in Slots |-> x.bsd[i]] = x.bsd
    BY DEF Context, Table
  <2> DEFINE y == SaveConfig([x EXCEPT !.bsd = [i \in Slots |-> x.bsd[i]], !.lh_version = g, !.gen = g])
  <2>3. Notify(x, g) = y
    BY <1>1, <2>1 DEF Notify, GenDetected
  <2>4. /\ y.bsd = x.bsd /\ y.activeLighthouses = x.activeLighthouses
        /\ y.lh_version = g /\ y.gen = g /\ y.file.gen = g
        /\ y.lh_version_configed = x.lh_version_configed
    BY <2>2 DEF SaveConfig, Context
  <2>5. y \in Context
    BY <2>3, NotifyType
  <2> HIDE DEF y
  <2>6. Used(x) \subseteq Used(y)
    BY <2>4 DEF Used
  <2> QED BY <2>3, <2>4, <2>5, <2>6, MoreUsed DEF OneGen
<1>2. CASE ~Notices(x, g)
  BY <1>2 DEF Notify
<1> QED BY <1>1, <1>2

\* What is left alone by a function that keeps the modes in use and the count.
LEMMA SaveCounted ==
  ASSUME NEW x \in Context, NEW g \in {0, 1}, OneGen(x, g), Counted(x)
  PROVE  OneGen(SaveConfig(x), g) /\ Counted(SaveConfig(x))
BY DEF SaveConfig, OneGen, Counted, Used, Context

\* A slot stored in the configuration stays counted.
LEMMA StoreCounted ==
  ASSUME NEW x \in Context, NEW i \in Slots, NEW g \in {0, 1}, OneGen(x, g), Counted(x)
  PROVE  OneGen(Store(x, i), g) /\ Counted(Store(x, i))
<1> DEFINE y == [x EXCEPT !.lh_config[i] = x.bsd[i]]
<1>1. y \in Context
  BY DEF Context, Table
<1>2. OneGen(y, g) /\ Counted(y)
  BY DEF OneGen, Counted, Used, Context
<1> QED BY <1>1, <1>2, SaveCounted DEF Store

\* A packet puts its slot in use.
LEMMA OotxCounted ==
  ASSUME NEW x \in Context, NEW i \in Slots, NEW h \in {0, 1}, NEW p \in Bits(Channels),
         NEW g \in {0, 1}, OneGen(x, g), Counted(x)
  PROVE  OneGen(Ootx(x, i, h, p), g) /\ Counted(Ootx(x, i, h, p))
<1>1. Attach(x, i) \in Context /\ OneGen(Attach(x, i), g) /\ Counted(Attach(x, i))
  BY DEF Attach, Context, OneGen, Counted, Used
<1>2. ASSUME NEW y \in Context, OneGen(y, g), Counted(y), p \in Packets(Channels)
      PROVE  OneGen(Receive(y, i, p), g) /\ Counted(Receive(y, i, p))
  <2> DEFINE b == [mode |-> p.mode, id |-> p.id, OOTXSet |-> TRUE, pose |-> None]
             z == [y EXCEPT !.bsd[i] = b]
  <2>1. b \in Lighthouse /\ b.mode # FreeMode
    BY <1>2, TableAssumption DEF Packets, Lighthouse, Channels, FreeMode
  <2> HIDE DEF b
  <2>2. /\ z \in Context /\ z.bsd = [y.bsd EXCEPT ![i] = b]
        /\ z.activeLighthouses = y.activeLighthouses /\ OneGen(z, g)
    BY <1>2, <2>1 DEF Context, Table, OneGen
  <2> HIDE DEF z
  <2>3. Used(y) \subseteq Used(z)
    BY <1>2, <2>1, <2>2 DEF Used, Context, Table
  <2>4. Counted(z)
    BY <1>2, <2>2, <2>3, MoreUsed
  <2> QED BY <1>2, <2>2, <2>4, StoreCounted DEF Receive, z, b
<1> QED BY <1>1, <1>2 DEF Ootx, Bits

\* survive_init counts the entries it reads, which are slots in use.
LEMMA LoadCounted ==
  ASSUME NEW x \in Context, Sound(x), NEW g \in {0, 1}, OneGen(x, g), NEW force \in BOOLEAN
  PROVE  OneGen(Load(x.file, force), g) /\ Counted(Load(x.file, force))
<1> DEFINE y == Load(x.file, force)
           read == {i \in Slots : x.file.lh[i] # Unused}
<1>1. y.bsd = x.file.lh /\ y.activeLighthouses = Cardinality(read)
  BY DEF Load
<1>2. OneGen(y, g)
  BY DEF Load, OneGen
<1>3. ASSUME NEW i \in read PROVE x.file.lh[i].mode # FreeMode
  BY KnownSlot DEF Sound, Filed
<1> HIDE DEF y
<1>4. read \in SUBSET Used(y)
  BY <1>1, <1>3 DEF Used
<1>5. Cardinality(read) <= Cardinality(Used(y))
  BY <1>4, UsedFinite, FS_Subset
<1> QED BY <1>1, <1>2, <1>5 DEF Counted, y

\* At first nothing is counted and nothing stored.
LEMMA InitCounted == Init => CountInv
<1> SUFFICES ASSUME Init PROVE CountInv
  OBVIOUS
<1> DEFINE file == [gen |-> -1, lh |-> [i \in Slots |-> Unused]]
<1>1. PICK force \in BOOLEAN : ctx = Load(file, force)
  BY DEF Init
<1>2. {i \in Slots : file.lh[i] # Unused} = {}
  OBVIOUS
<1>3. ctx.activeLighthouses = 0
  BY <1>1, <1>2, FS_EmptySet DEF Load
<1>4. \A g \in {0, 1} : OneGen(ctx, g)
  BY <1>1 DEF Load, OneGen
<1> QED BY <1>3, <1>4, UsedFinite DEF CountInv, Counted

\* Each step keeps the count.
LEMMA NextCounted == IInv /\ CountInv /\ [Next]_vars => CountInv'
<1> SUFFICES ASSUME IInv, CountInv, [Next]_vars, NEW g \in {0, 1}, gens' \subseteq {g}
             PROVE  OneGen(ctx', g) /\ Counted(ctx')
  BY DEF CountInv
<1>0. ctx \in Context /\ Sound(ctx)
  BY DEF IInv, TypeOK
<1>a. gens \subseteq gens'
  BY DEF Next, vars, Startup, Detect, Sync, Sweep, Light, Pose, AdjustConfidence, LoseTracking,
         Close, Crash, Detected
<1>b. OneGen(ctx, g) /\ Counted(ctx)
  BY <1>a DEF CountInv
<1>2. CASE UNCHANGED vars
  BY <1>b, <1>2 DEF vars
<1>3. CASE Startup
  <2> DEFINE known(i) == i < ctx.activeLighthouses
             table == [i \in Slots |-> IF ctx.force /\ known(i)
                                       THEN [ctx.bsd[i] EXCEPT !.pose = None] ELSE ctx.bsd[i]]
  <2>1. \E config : ctx' = SaveConfig([ctx EXCEPT !.state = "running", !.force = FALSE,
                                         !.bsd = table, !.lh_config = config])
    BY <1>3 DEF Startup
  <2>2. \A i \in Slots : table[i].mode = ctx.bsd[i].mode
    <3>1. ASSUME NEW i \in Slots PROVE ctx.bsd[i] \in Lighthouse
      BY <1>0 DEF Context, Table
    <3> QED BY <3>1 DEF Lighthouse
  <2> HIDE DEF table
  <2>3. /\ ctx'.bsd = table /\ ctx'.activeLighthouses = ctx.activeLighthouses
        /\ ctx'.lh_version = ctx.lh_version /\ ctx'.gen = ctx.gen /\ ctx'.file.gen = ctx.gen
        /\ ctx'.lh_version_configed = ctx.lh_version_configed
    <3>1. PICK config : ctx' = SaveConfig([ctx EXCEPT !.state = "running", !.force = FALSE,
                                             !.bsd = table, !.lh_config = config])
      BY <2>1
    <3> QED BY <1>0, <3>1, SMTT(30) DEF SaveConfig, Context
  <2>4. \A i \in Slots : ctx'.bsd[i].mode = ctx.bsd[i].mode
    BY <2>2, <2>3, Zenon
  <2>5. Used(ctx') = Used(ctx)
    BY <2>4, Zenon DEF Used
  <2>6. OneGen(ctx', g)
    BY <1>b, <2>3, SMTT(30) DEF OneGen
  <2>7. Counted(ctx')
    BY <1>b, <2>3, <2>5, SMTT(30) DEF Counted
  <2> QED BY <2>6, <2>7, Zenon
<1>4. ASSUME NEW h \in {0, 1}, Detect(h) PROVE OneGen(ctx', g) /\ Counted(ctx')
  <2>1. ctx' = Notify(ctx, h) /\ gens' = IF Notices(ctx, h) THEN gens \cup {h} ELSE gens
    BY <1>4 DEF Detect, Detected
  <2>2. CASE Notices(ctx, h)
    BY <1>0, <1>b, <2>1, <2>2, NotifyCounted
  <2>3. CASE ~Notices(ctx, h)
    BY <1>b, <2>1, <2>3 DEF Notify
  <2> QED BY <2>2, <2>3
<1>5. ASSUME NEW c \in Channels, NEW p \in Bits({c}), Sync(c, p)
      PROVE  OneGen(ctx', g) /\ Counted(ctx')
  <2> DEFINE i == Idx(ctx, c)
             x == Claim(ctx, c)
  <2>1. ctx' = IF i = -1 THEN x ELSE Ootx(x, i, 1, p)
    BY <1>5 DEF Sync
  <2>2. x \in Context /\ i \in Slots \cup {-1} /\ OneGen(x, g) /\ Counted(x)
    BY <1>0, <1>b, ClaimType, ClaimCounted, ClaimOneGen
  <2>3. p \in Bits(Channels)
    BY TableAssumption DEF Bits, Packets, NoBit, OneBit, Channels, FreeMode
  <2> HIDE DEF x, i
  <2> QED BY <2>1, <2>2, <2>3, OotxCounted
<1>6. ASSUME NEW c \in Channels, NEW angle \in BOOLEAN, Sweep(c, angle)
      PROVE  OneGen(ctx', g) /\ Counted(ctx')
  <2> DEFINE w == Claim(ctx, c)
             x == Notify(w, 1)
  <2>1. /\ ctx' = IF angle THEN Claim(x, c) ELSE x
        /\ gens' = IF Notices(ctx, 1) THEN gens \cup {1} ELSE gens
    BY <1>6 DEF Sweep, Detected
  <2>2. w \in Context /\ OneGen(w, g) /\ Counted(w)
    BY <1>0, <1>b, ClaimType, ClaimCounted, ClaimOneGen
  <2>3. w.lh_version = ctx.lh_version
    BY <1>0 DEF Claim, Context
  <2> HIDE DEF w
  <2>4. x \in Context /\ OneGen(x, g) /\ Counted(x)
    <3>1. CASE Notices(w, 1)
      BY <2>1, <2>2, <2>3, <3>1, NotifyCounted, NotifyType DEF Notices
    <3>2. CASE ~Notices(w, 1)
      BY <2>2, <3>2 DEF Notify
    <3> QED BY <3>1, <3>2
  <2> HIDE DEF x
  <2> QED BY <2>1, <2>4, ClaimCounted, ClaimOneGen
<1>7. ASSUME NEW c \in {0, 1}, NEW p \in Bits(Channels), Light(c, p)
      PROVE  OneGen(ctx', g) /\ Counted(ctx')
  <2> DEFINE i == Idx(ctx, c)
             w == Claim(ctx, c)
             x == Notify(w, 0)
  <2>0. c \in Channels
    BY TableAssumption DEF Channels
  <2>1. /\ ctx' = Ootx(x, i, 0, p) /\ i # -1
        /\ gens' = IF Notices(ctx, 0) THEN gens \cup {0} ELSE gens
    BY <1>7 DEF Light, Detected
  <2>2. w \in Context /\ i \in Slots /\ OneGen(w, g) /\ Counted(w)
    BY <1>0, <1>b, <2>0, <2>1, ClaimType, ClaimCounted, ClaimOneGen
  <2>3. w.lh_version = ctx.lh_version
    BY <1>0 DEF Claim, Context
  <2> HIDE DEF w, i
  <2>4. x \in Context /\ OneGen(x, g) /\ Counted(x)
    <3>1. CASE Notices(w, 0)
      BY <2>1, <2>2, <2>3, <3>1, NotifyCounted, NotifyType DEF Notices
    <3>2. CASE ~Notices(w, 0)
      BY <2>2, <3>2 DEF Notify
    <3> QED BY <3>1, <3>2
  <2> HIDE DEF x
  <2> QED BY <2>1, <2>2, <2>4, OotxCounted
<1>8. ASSUME NEW i \in Slots, NEW s \in Stations, Pose(i, s) PROVE OneGen(ctx', g) /\ Counted(ctx')
  <2> DEFINE z == [ctx EXCEPT !.bsd[i].pose = s]
  <2>1. /\ z \in Context /\ z.activeLighthouses = ctx.activeLighthouses
        /\ \A j \in Slots : z.bsd[j].mode = ctx.bsd[j].mode
        /\ z.lh_version = ctx.lh_version /\ z.gen = ctx.gen /\ z.file = ctx.file
        /\ z.lh_version_configed = ctx.lh_version_configed
    BY <1>0, PoseSet
  <2> HIDE DEF z
  <2>2. OneGen(z, g) /\ Used(z) = Used(ctx)
    BY <1>b, <2>1 DEF OneGen, Used
  <2>3. Counted(z)
    BY <1>b, <2>1, <2>2 DEF Counted
  <2> QED BY <1>8, <2>1, <2>2, <2>3, StoreCounted DEF Pose, z
<1>10. ASSUME (\E i \in Slots : AdjustConfidence(i)) \/ LoseTracking
       PROVE  OneGen(ctx', g) /\ Counted(ctx')
  <2>1. GivesUp(ctx, ctx')
    BY <1>0, <1>10, ResetsGiveUp
  <2>2. /\ ctx'.activeLighthouses = ctx.activeLighthouses
        /\ \A j \in Slots : ctx'.bsd[j].mode = ctx.bsd[j].mode
        /\ ctx'.lh_version = ctx.lh_version /\ ctx'.gen = ctx.gen /\ ctx'.file = ctx.file
        /\ ctx'.lh_version_configed = ctx.lh_version_configed
    BY <1>0, <2>1, GivenUp
  <2>3. Used(ctx') = Used(ctx)
    BY <2>2 DEF Used
  <2> QED BY <1>b, <2>2, <2>3 DEF OneGen, Counted
<1>9. ASSUME NEW force \in BOOLEAN, Close(force) \/ Crash(force)
      PROVE  OneGen(ctx', g) /\ Counted(ctx')
  <2> DEFINE x == SaveConfig(ctx)
  <2>1. x \in Context /\ Sound(x) /\ OneGen(x, g)
    BY <1>0, <1>b, SaveType, SaveSound, SaveCounted DEF Sound
  <2> HIDE DEF x
  <2>2. CASE Close(force)
    BY <2>1, <2>2, LoadCounted DEF Close, x
  <2>3. CASE Crash(force)
    BY <1>0, <1>b, <2>3, LoadCounted DEF Crash
  <2> QED BY <1>9, <2>2, <2>3
<1> QED BY <1>2, <1>3, <1>4, <1>5, <1>6, <1>7, <1>8, <1>9, <1>10 DEF Next

\* The loops over activeLighthouses stay within bsd as long as one generation
\* is seen, for any number of slots, claims, restarts and crashes.
THEOREM LoopsInTable == Spec => []CountInTable
<1>1. IInv /\ CountInv => CountInTable
  <2> SUFFICES ASSUME IInv, CountInv, gens # {0, 1}
               PROVE  ctx.activeLighthouses <= NLighthouses
    BY DEF CountInTable
  <2>1. \E g \in {0, 1} : gens \subseteq {g}
    BY DEF IInv, TypeOK
  <2>2. Counted(ctx)
    BY <2>1 DEF CountInv
  <2>3. ctx.activeLighthouses \in Nat /\ NLighthouses \in Nat
    BY TableAssumption DEF IInv, TypeOK, Context
  <2> QED BY <2>2, <2>3, UsedFinite DEF Counted
<1> QED BY <1>1, InitCounted, NextCounted, TableInvariant, PTL DEF Spec
=============================================================================
