-------------------------- MODULE UsbDevices_proofs --------------------------
(***************************************************************************)
(* The USB devices, for any devices, any number of records and any number  *)
(* of times a device is plugged in. DeviceOK says what the fields of one   *)
(* record have to do with each other, RolesOK what the records of the      *)
(* mainboard and of the headset are, ObjectsOK who holds which object.     *)
(***************************************************************************)
EXTENDS UsbDevices, FiniteSetTheorems, TLAPS

Alloc(t)  == {e \in Ends : t[e] # "none"}
Packet(c) == IF c \in {"idle", "flying"} THEN 1 ELSE 0

Refused(i) == /\ cfg[i] = "none" /\ tx[i] = NoTransfers
              /\ dev[i] \in Headsets /\ i # imu

DeviceOK(i) ==
  /\ active[i] = Cardinality(Alloc(tx[i])) + Packet(cfg[i])
  /\ dev[i] = Nothing => tx[i] = NoTransfers /\ cfg[i] = "none" /\ so[i] = Nothing
  /\ \A e \in Ends : timeouts[i][e] > 0 => tx[i][e] = "idle"
  /\ cfg[i] # "none" => tx[i] = NoTransfers
  /\ i \in due => cfg[i] = "idle" \/ Refused(i)
  /\ i \in asked => active[i] = 0 /\ i \notin due

RolesOK ==
  /\ board # Nothing => dev[board] \in Boards
  /\ imu # Nothing => dev[imu] \in Headsets
  /\ \A i \in Infos : dev[i] \in Boards => i = board

ObjectsOK ==
  /\ made = owns
  /\ \A i \in owns : so[i] = i /\ dev[i] \notin Boards
  /\ \A i \in Infos : so[i] # Nothing /\ i \notin owns =>
       i = board /\ imu \in owns /\ so[i] = imu
  /\ Registered \subseteq made
  /\ \A k, m \in DOMAIN objs : objs[k] = objs[m] => k = m
  /\ ~error => Registered = made
  /\ phase = "closed" => Listed = {}

UsbInv ==
  /\ UsbTypeOK
  /\ \A i \in Infos : DeviceOK(i)
  /\ RolesOK
  /\ ObjectsOK

TxStates == {"none", "idle", "flying", "timed"}

-----------------------------------------------------------------------------
(* Allocated transfers.                                                    *)

LEMMA AllocFinite ==
  ASSUME NEW t PROVE IsFiniteSet(Alloc(t)) /\ Cardinality(Alloc(t)) \in Nat
BY DevicesAssumption, FS_Subset, FS_CardinalityType, Alloc(t) \in SUBSET Ends DEF Alloc

LEMMA AllocNone == Cardinality(Alloc(NoTransfers)) = 0
<1>1. Alloc(NoTransfers) = {}
  BY DEF Alloc, NoTransfers
<1> QED BY <1>1, FS_EmptySet

\* Nothing counted, nothing allocated.
LEMMA AllocZero ==
  ASSUME NEW t, Cardinality(Alloc(t)) = 0
  PROVE  \A e \in Ends : t[e] = "none"
<1>1. Alloc(t) = {}
  BY AllocFinite, FS_EmptySet
<1> QED BY <1>1 DEF Alloc

\* A transfer that is freed is one less.
LEMMA AllocDrop ==
  ASSUME NEW t \in [Ends -> TxStates], NEW e \in Ends, t[e] # "none"
  PROVE  /\ Cardinality(Alloc([t EXCEPT ![e] = "none"])) = Cardinality(Alloc(t)) - 1
         /\ Cardinality(Alloc(t)) >= 1
<1>1. Alloc([t EXCEPT ![e] = "none"]) = Alloc(t) \ {e} /\ e \in Alloc(t)
  BY DEF Alloc
<1>2. Cardinality(Alloc(t) \ {e}) = Cardinality(Alloc(t)) - 1
  BY <1>1, AllocFinite, FS_RemoveElement
<1>3. Cardinality(Alloc(t) \ {e}) \in Nat /\ Cardinality(Alloc(t)) \in Nat
  BY <1>1, AllocFinite
<1>4. Cardinality(Alloc(t)) >= 1
  BY <1>2, <1>3
<1>5. Cardinality(Alloc([t EXCEPT ![e] = "none"])) = Cardinality(Alloc(t)) - 1
  BY <1>1, <1>2
<1> QED BY <1>4, <1>5

LEMMA InitUsb == UsbInit => UsbInv
<1> SUFFICES ASSUME UsbInit PROVE UsbInv
  OBVIOUS
<1> USE DevicesAssumption DEF UsbInit
<1>1. UsbTypeOK
  <2>1. tx \in [Infos -> [Ends -> TxStates]] /\ timeouts \in [Infos -> [Ends -> 0..1]]
    BY DEF NoTransfers, NoTimeouts, TxStates
  <2>2. objs \in Seq(Infos) /\ plugs \in 0..MaxPlugs
    OBVIOUS
  <2> QED BY <2>1, <2>2 DEF UsbTypeOK, Listed, TxStates
<1>2. \A i \in Infos : DeviceOK(i)
  BY AllocNone DEF DeviceOK, Refused, Packet, NoTimeouts
<1>3. RolesOK
  BY DEF RolesOK
<1>4. ObjectsOK
  BY DEF ObjectsOK, Listed, Registered
<1> QED BY <1>1, <1>2, <1>3, <1>4 DEF UsbInv

-----------------------------------------------------------------------------
(* Frames.                                                                 *)

\* A record none of whose fields change, and that is not made the headset.
LEMMA SameDevice ==
  ASSUME NEW i \in Infos, DeviceOK(i), i # imu => i # imu',
         active'[i] = active[i], cfg'[i] = cfg[i], tx'[i] = tx[i],
         timeouts'[i] = timeouts[i], dev'[i] = dev[i],
         dev[i] = Nothing => so'[i] = so[i],
         i \in due' <=> i \in due, i \in asked' <=> i \in asked
  PROVE  DeviceOK(i)'
BY DEF DeviceOK, Refused, Alloc, Packet, NoTransfers

\* What callbacks leave alone; an error may be reported.
LEMMA SameObjects ==
  ASSUME UsbInv, UNCHANGED <<headset, dev, objects, phase>>, error => error'
  PROVE  RolesOK' /\ ObjectsOK'
BY DEF UsbInv, RolesOK, ObjectsOK, headset, objects, Listed, Registered

LEMMA FailsInv == ASSUME UsbInv, NEW k \in {"nullPacket", "freedInFlight", "strayObject"},
                         Fails(k)
                  PROVE  UsbInv'
<1> USE DEF Fails, hardware, headset, objects, packets, transfers, ending, control
<1>1. UsbTypeOK'
  BY DEF UsbInv, UsbTypeOK, Listed
<1>2. \A j \in Infos : DeviceOK(j)'
  BY SameDevice DEF UsbInv
<1>3. RolesOK' /\ ObjectsOK'
  BY SameObjects
<1> QED BY <1>1, <1>2, <1>3 DEF UsbInv

LEMMA HardwareInv == ASSUME UsbInv, Hardware PROVE UsbInv'
<1> PICK d \in Devices : Plug(d) \/ Unplug(d)
  BY DEF Hardware
<1> USE DEF Plug, Unplug, headset, objects, packets, transfers, ending, control
<1>1. UsbTypeOK'
  BY DevicesAssumption DEF UsbInv, UsbTypeOK, Listed
<1>2. \A j \in Infos : DeviceOK(j)'
  BY SameDevice DEF UsbInv
<1>3. RolesOK' /\ ObjectsOK'
  BY SameObjects
<1> QED BY <1>1, <1>2, <1>3 DEF UsbInv

-----------------------------------------------------------------------------
(* Devices that arrive.                                                    *)

\* A record that is in use has not been, and no object is held under it.
LEMMA FreshRecord ==
  ASSUME UsbInv, NEW i \in Infos, dev[i] = Nothing
  PROVE  /\ tx[i] = NoTransfers /\ cfg[i] = "none" /\ so[i] = Nothing
         /\ active[i] = 0
         /\ i \notin owns /\ i \notin live /\ i \notin shut /\ i \notin asked
         /\ i \notin due /\ i # board /\ i # imu
<1>1. i \notin Listed
  BY DEF Listed
<1>2. tx[i] = NoTransfers /\ cfg[i] = "none" /\ so[i] = Nothing
  BY DEF UsbInv, DeviceOK
<1>3. active[i] = 0
  BY <1>2, AllocNone DEF UsbInv, DeviceOK, Packet
<1>4. i # board /\ i # imu
  BY DevicesAssumption DEF UsbInv, RolesOK
<1> QED BY <1>1, <1>2, <1>3, <1>4 DEF UsbInv, UsbTypeOK

LEMMA AddInv == ASSUME UsbInv, Add PROVE UsbInv'
<1> PICK d \in Devices : \/ RefuseBoard(d)
                         \/ \E i \in Infos : \/ AddDevice(i, d) \/ AddBoard(i, d)
                                             \/ AddHeadset(i, d) \/ RefuseHeadset(i, d)
  BY DEF Add
<1> USE DEF Arrives, headset, objects, packets, transfers, ending, control
<1>1. CASE RefuseBoard(d)
  <2> USE <1>1 DEF RefuseBoard
  <2>1. UsbTypeOK'
    BY DEF UsbInv, UsbTypeOK, Listed
  <2>2. \A j \in Infos : DeviceOK(j)'
    BY SameDevice DEF UsbInv
  <2>3. RolesOK' /\ ObjectsOK'
    BY SameObjects
  <2> QED BY <2>1, <2>2, <2>3 DEF UsbInv
<1>2. ASSUME NEW i \in Infos, Arrives(d), Enlist(i, d), StartGetConfig(i, d),
             so' \in [Infos -> Infos \cup {Nothing}],
             imu' \in Infos \cup {Nothing}, board' \in Infos \cup {Nothing},
             UNCHANGED owns,
             \A j \in Infos : j # imu => (j # imu' \/ j = i),
             \A j \in Infos : j # i /\ dev[j] = Nothing => so'[j] = so[j]
      PROVE  UsbTypeOK' /\ \A j \in Infos : DeviceOK(j)'
  <2> USE <1>2 DEF Enlist, StartGetConfig
  <2>1. UsbTypeOK'
    <3>1. /\ dev' \in [Infos -> Devices \cup {Nothing}]
          /\ \A j \in Infos : dev'[j] = IF j = i THEN d ELSE dev[j]
      BY DEF UsbInv, UsbTypeOK
    <3>2. Listed' = Listed \cup {i}
      BY <3>1, DevicesAssumption DEF Listed
    <3>3. /\ active' \in [Infos -> Nat]
          /\ cfg' \in [Infos -> {"none", "idle", "flying", "lost"}]
          /\ stage' \in [Infos -> {"config", "setup"}]
      BY DEF UsbInv, UsbTypeOK
    <3> QED BY <3>1, <3>2, <3>3 DEF UsbInv, UsbTypeOK
  <2>2. ASSUME NEW j \in Infos, j # i PROVE DeviceOK(j)'
    <3>1. /\ active'[j] = active[j] /\ cfg'[j] = cfg[j] /\ tx'[j] = tx[j]
          /\ timeouts'[j] = timeouts[j] /\ dev'[j] = dev[j]
          /\ (j \in due' <=> j \in due) /\ (j \in asked' <=> j \in asked)
      BY <2>2 DEF UsbInv, UsbTypeOK
    <3> QED BY <2>2, <3>1, SameDevice DEF UsbInv
  <2>3. DeviceOK(i)'
    <3>1. /\ active'[i] = 1 /\ cfg'[i] = "idle" /\ tx'[i] = NoTransfers /\ dev'[i] = d
          /\ timeouts' = timeouts /\ tx' = tx /\ i \notin asked'
      BY FreshRecord DEF UsbInv, UsbTypeOK
    <3>2. \A e \in Ends : timeouts'[i][e] > 0 => tx'[i][e] = "idle"
      BY <3>1 DEF UsbInv, DeviceOK
    <3>3. Cardinality(Alloc(tx'[i])) = 0
      BY <3>1, AllocNone
    <3> QED BY <3>1, <3>2, <3>3, DevicesAssumption DEF DeviceOK, Alloc, Packet, NoTransfers
  <2> QED BY <2>1, <2>2, <2>3
<1>3. ASSUME NEW i \in Infos, AddDevice(i, d) PROVE UsbInv'
  <2> USE <1>3 DEF AddDevice
  <2>1. UsbTypeOK' /\ \A j \in Infos : DeviceOK(j)'
    BY <1>2 DEF UsbInv, UsbTypeOK
  <2>2. \A j \in Infos : dev'[j] = IF j = i THEN d ELSE dev[j]
    BY DEF Enlist, UsbInv, UsbTypeOK
  <2>3. RolesOK'
    BY <2>2, FreshRecord DEF Enlist, UsbInv, UsbTypeOK, RolesOK
  <2>4. ObjectsOK'
    BY <2>2, FreshRecord DEF Enlist, UsbInv, UsbTypeOK, ObjectsOK, Registered
  <2> QED BY <2>1, <2>3, <2>4 DEF UsbInv
<1>4. ASSUME NEW i \in Infos, AddBoard(i, d) PROVE UsbInv'
  <2> USE <1>4 DEF AddBoard
  <2>0. so' \in [Infos -> Infos \cup {Nothing}] /\ \A j \in Infos : j # i => so'[j] = so[j]
    BY DEF UsbInv, UsbTypeOK
  <2>1. UsbTypeOK' /\ \A j \in Infos : DeviceOK(j)'
    BY <1>2, <2>0 DEF UsbInv, UsbTypeOK
  <2>2. \A j \in Infos : dev'[j] = IF j = i THEN d ELSE dev[j]
    BY DEF Enlist, UsbInv, UsbTypeOK
  <2>3. RolesOK'
    BY <2>2, FreshRecord, DevicesAssumption DEF Enlist, UsbInv, UsbTypeOK, RolesOK
  <2>4. imu # Nothing /\ so[imu] # Nothing => so[imu] = imu /\ imu \in owns
    BY DevicesAssumption DEF UsbInv, ObjectsOK, RolesOK, UsbTypeOK
  <2>5. so'[i] # Nothing => imu \in owns /\ so'[i] = imu
    BY <2>4, FreshRecord DEF Enlist, UsbInv, UsbTypeOK
  <2>6. ObjectsOK'
    BY <2>0, <2>2, <2>5, FreshRecord, DevicesAssumption
      DEF Enlist, UsbInv, UsbTypeOK, ObjectsOK, Registered
  <2> QED BY <2>1, <2>3, <2>6 DEF UsbInv
<1>5. ASSUME NEW i \in Infos, AddHeadset(i, d) PROVE UsbInv'
  <2> USE <1>5 DEF AddHeadset
  <2>0. /\ so' \in [Infos -> Infos \cup {Nothing}]
        /\ \A j \in Infos : j # board => so'[j] = so[j]
        /\ board # Nothing => so'[board] = Nothing
    BY FreshRecord DEF Enlist, UsbInv, UsbTypeOK
  <2>1. UsbTypeOK' /\ \A j \in Infos : DeviceOK(j)'
    <3>1. \A j \in Infos : j # i /\ dev[j] = Nothing => so'[j] = so[j]
      BY <2>0, DevicesAssumption DEF UsbInv, RolesOK
    <3> QED BY <1>2, <2>0, <3>1 DEF UsbInv, UsbTypeOK
  <2>2. \A j \in Infos : dev'[j] = IF j = i THEN d ELSE dev[j]
    BY DEF Enlist, UsbInv, UsbTypeOK
  <2>3. RolesOK'
    BY <2>2, FreshRecord, DevicesAssumption DEF Enlist, UsbInv, UsbTypeOK, RolesOK
  <2>4. board \notin owns
    BY DevicesAssumption DEF UsbInv, ObjectsOK, RolesOK, UsbTypeOK
  <2>6. ObjectsOK'
    BY <2>0, <2>2, <2>4, FreshRecord, DevicesAssumption
      DEF Enlist, UsbInv, UsbTypeOK, ObjectsOK, Registered
  <2> QED BY <2>1, <2>3, <2>6 DEF UsbInv
<1>6. ASSUME NEW i \in Infos, RefuseHeadset(i, d) PROVE UsbInv'
  <2> USE <1>6 DEF RefuseHeadset, Enlist
  <2>2. /\ dev' \in [Infos -> Devices \cup {Nothing}]
        /\ \A j \in Infos : dev'[j] = IF j = i THEN d ELSE dev[j]
    BY DEF Enlist, UsbInv, UsbTypeOK
  <2>1. UsbTypeOK'
    <3>2. Listed' = Listed \cup {i}
      BY <2>2, DevicesAssumption DEF Listed
    <3> QED BY <2>2, <3>2 DEF UsbInv, UsbTypeOK
  <2>3. RolesOK'
    BY <2>2, FreshRecord, DevicesAssumption DEF UsbInv, UsbTypeOK, RolesOK
  <2>4. ObjectsOK'
    BY <2>2, FreshRecord, DevicesAssumption DEF UsbInv, UsbTypeOK, ObjectsOK, Registered
  <2>5. ASSUME NEW j \in Infos, j # i PROVE DeviceOK(j)'
    BY <2>2, <2>5, SameDevice DEF UsbInv
  <2>6. DeviceOK(i)'
    <3>1. /\ active'[i] = 0 /\ cfg'[i] = "none" /\ tx'[i] = NoTransfers /\ dev'[i] = d
          /\ i # imu' /\ timeouts' = timeouts /\ tx' = tx /\ i \notin asked'
      BY <2>2, FreshRecord DEF UsbInv, UsbTypeOK
    <3>2. \A e \in Ends : timeouts'[i][e] > 0 => tx'[i][e] = "idle"
      BY <3>1 DEF UsbInv, DeviceOK
    <3>3. Cardinality(Alloc(tx'[i])) = 0
      BY <3>1, AllocNone
    <3> QED BY <3>1, <3>2, <3>3, DevicesAssumption
          DEF DeviceOK, Refused, Alloc, Packet, NoTransfers
  <2> QED BY <2>1, <2>3, <2>4, <2>5, <2>6 DEF UsbInv
<1> QED BY <1>1, <1>3, <1>4, <1>5, <1>6

-----------------------------------------------------------------------------
(* The configuration packet.                                               *)

\* A callback of one record: what it must show for that record.
LEMMA CallbackInv ==
  ASSUME UsbInv, NEW i \in Infos, DeviceOK(i)', UsbTypeOK',
         UNCHANGED <<headset, dev>>,
         \A j \in Infos : j # i =>
           /\ active'[j] = active[j] /\ cfg'[j] = cfg[j] /\ tx'[j] = tx[j]
           /\ timeouts'[j] = timeouts[j] /\ so'[j] = so[j]
           /\ (j \in due' <=> j \in due) /\ (j \in asked' <=> j \in asked),
         RolesOK' /\ ObjectsOK'
  PROVE  UsbInv'
<1>1. ASSUME NEW j \in Infos, j # i PROVE DeviceOK(j)'
  BY <1>1, SameDevice DEF UsbInv, headset
<1> QED BY <1>1 DEF UsbInv

\* A packet in flight is all that is outstanding.
LEMMA PacketInFlight ==
  ASSUME UsbInv, NEW i \in Infos, cfg[i] = "flying"
  PROVE  /\ active[i] = 1 /\ tx[i] = NoTransfers
         /\ i \in Listed /\ i \notin asked /\ i \notin due
         /\ \A e \in Ends : timeouts[i][e] = 0
<1>1. tx[i] = NoTransfers /\ i \in Listed /\ i \notin due
  BY DEF UsbInv, UsbTypeOK, DeviceOK, Listed, Refused
<1>2. active[i] = 1
  BY <1>1, AllocNone DEF UsbInv, DeviceOK, Packet
<1>3. ASSUME NEW e \in Ends PROVE timeouts[i][e] = 0
  <2>1. timeouts[i][e] \in 0..1 /\ tx[i][e] # "idle"
    BY <1>1 DEF UsbInv, UsbTypeOK, NoTransfers
  <2> QED BY <2>1 DEF UsbInv, DeviceOK
<1> QED BY <1>1, <1>2, <1>3 DEF UsbInv, DeviceOK

LEMMA CancelledInv ==
  ASSUME UsbInv, NEW i \in Infos, ConfigCancelled(i) PROVE UsbInv'
<1> USE DEF ConfigCancelled, ConfigReturns, AskAtZero, headset, objects
<1>1. /\ active[i] = 1 /\ tx[i] = NoTransfers /\ i \in Listed
      /\ active' = [active EXCEPT ![i] = 0]
  <2>1. active[i] = 1
    BY PacketInFlight
  <2>2. active' = [active EXCEPT ![i] = active[i] - 1]
    OBVIOUS
  <2> QED BY <2>1, <2>2, PacketInFlight
<1>2. UsbTypeOK'
  <2>1. /\ active' \in [Infos -> Nat]
        /\ cfg' \in [Infos -> {"none", "idle", "flying", "lost"}]
    BY <1>1 DEF UsbInv, UsbTypeOK
  <2> QED BY <1>1, <2>1 DEF UsbInv, UsbTypeOK, Listed, hardware
<1>3. DeviceOK(i)'
  <2>1. active'[i] = 0 /\ cfg'[i] = "none" /\ tx'[i] = tx[i] /\ i \notin due'
    BY <1>1 DEF UsbInv, UsbTypeOK
  <2>2. Alloc(tx'[i]) = Alloc(tx[i])
    BY <2>1 DEF Alloc
  <2> QED BY <1>1, <2>1, <2>2, AllocNone DEF UsbInv, DeviceOK, Packet, NoTransfers
<1>4. RolesOK' /\ ObjectsOK'
  BY SameObjects
<1> QED BY <1>2, <1>3, <1>4, CallbackInv DEF UsbInv, UsbTypeOK

LEMMA StallsInv ==
  ASSUME UsbInv, NEW i \in Infos, ConfigStalls(i) PROVE UsbInv'
<1> USE DEF ConfigStalls, ConfigReturns, headset, objects
<1>1. active[i] = 1 /\ tx[i] = NoTransfers /\ i \in Listed /\ i \notin asked
  BY PacketInFlight
<1>2. UsbTypeOK'
  BY <1>1 DEF UsbInv, UsbTypeOK, Listed, hardware
<1>3. DeviceOK(i)'
  <2>1. active'[i] = 1 /\ cfg'[i] = "idle" /\ tx'[i] = tx[i] /\ i \notin asked'
    BY <1>1 DEF UsbInv, UsbTypeOK, DeviceOK
  <2>2. Alloc(tx'[i]) = Alloc(tx[i])
    BY <2>1 DEF Alloc
  <2> QED BY <1>1, <2>1, <2>2, AllocNone DEF UsbInv, UsbTypeOK, DeviceOK, Packet, NoTransfers
<1>4. RolesOK' /\ ObjectsOK'
  BY SameObjects
<1> QED BY <1>2, <1>3, <1>4, CallbackInv DEF UsbInv, UsbTypeOK

\* Attaching the interfaces counts as many transfers as there are.
LEMMA AttachDevice ==
  ASSUME UsbInv, NEW i \in Infos, cfg[i] = "flying", Attach(i),
         UNCHANGED <<timeouts, dev>>
  PROVE  /\ active' \in [Infos -> Nat]
         /\ tx' \in [Infos -> [Ends -> TxStates]]
         /\ DeviceOK(i)'
<1> DEFINE d == dev[i]
           t == [e \in Ends |-> IF e \notin Endpoints[d] THEN "none"
                                ELSE IF i \in live THEN "flying" ELSE "idle"]
<1> USE DEF Attach
<1>1. /\ active[i] = 1 /\ tx[i] = NoTransfers /\ d \in Devices
      /\ i \notin asked
  BY PacketInFlight DEF UsbInv, UsbTypeOK, Listed
<1>2. Alloc(t) = Endpoints[d]
  BY <1>1 DEF Alloc, Ends
<1>3. Cardinality(Endpoints[d]) \in Nat
  BY <1>2, AllocFinite
<1>4. t \in [Ends -> TxStates] /\ tx' = [tx EXCEPT ![i] = t]
  BY DEF TxStates
<1>5. tx' \in [Infos -> [Ends -> TxStates]] /\ tx'[i] = t
  BY <1>4 DEF UsbInv, UsbTypeOK, TxStates
<1>6. /\ active' = [active EXCEPT ![i] = Cardinality(Endpoints[d])]
      /\ active' \in [Infos -> Nat] /\ active'[i] = Cardinality(Alloc(t))
  <2>1. active[i] - 1 + Cardinality(Endpoints[d]) = Cardinality(Endpoints[d])
    BY <1>1, <1>3
  <2>2. active' = [active EXCEPT ![i] = Cardinality(Endpoints[d])]
    BY <2>1
  <2> QED BY <1>2, <1>3, <2>2 DEF UsbInv, UsbTypeOK
<1>7. \A e \in Ends : timeouts[i][e] = 0
  BY PacketInFlight
<1>8. cfg'[i] = "none" /\ i \notin due' /\ i \notin asked'
  BY <1>1 DEF UsbInv, UsbTypeOK
<1>9. Alloc(tx'[i]) = Alloc(t)
  BY <1>5
<1> QED BY <1>1, <1>3, <1>5, <1>6, <1>7, <1>8, <1>9, DevicesAssumption DEF DeviceOK, Packet, Alloc

\* The objects after an answer: a new one is registered, or reported.
LEMMA AnsweredObjects ==
  ASSUME UsbInv, NEW i \in Infos, ConfigAnswered(i), error => error', NameError(i) => error'
  PROVE  /\ RolesOK' /\ ObjectsOK'
         /\ so' \in [Infos -> Infos \cup {Nothing}] /\ owns' \subseteq Listed
         /\ made' \subseteq Infos /\ objs' \in Seq(Infos)
         /\ \A j \in Infos : j # i => so'[j] = so[j]
<1> USE DEF ConfigAnswered, ConfigReturns, headset
<1>1. CASE ~(so[i] = Nothing /\ dev[i] \notin Boards)
  <2>1. UNCHANGED objects
    BY <1>1
  <2>2. RolesOK' /\ ObjectsOK'
    BY <2>1, SameObjects
  <2> QED BY <2>1, <2>2 DEF objects, UsbInv, UsbTypeOK
<1>2. CASE so[i] = Nothing /\ dev[i] \notin Boards
  <2> USE <1>2
  <2>1. /\ made' = made \cup {i} /\ owns' = owns \cup {i}
        /\ so' = [so EXCEPT ![i] = i]
        /\ objs' = IF Clashes(Codename[dev[i]]) THEN objs ELSE Append(objs, i)
    BY DEF MakeObject
  <2>2. i \in Listed
    BY PacketInFlight
  <2>3. i \notin owns
    BY DevicesAssumption DEF UsbInv, ObjectsOK
  <2>4. /\ so' \in [Infos -> Infos \cup {Nothing}] /\ so'[i] = i
        /\ \A j \in Infos : j # i => so'[j] = so[j]
    BY <2>1 DEF UsbInv, UsbTypeOK
  <2>5. /\ objs' \in Seq(Infos)
        /\ \A k, m \in DOMAIN objs' : objs'[k] = objs'[m] => k = m
        /\ Registered' \subseteq made'
        /\ ~error' => Registered' = made'
    <3>1. CASE Clashes(Codename[dev[i]])
      <4>1. objs' = objs /\ error'
        BY <2>1, <3>1 DEF NameError
      <4> QED BY <2>1, <4>1 DEF UsbInv, UsbTypeOK, ObjectsOK, Registered
    <3>2. CASE ~Clashes(Codename[dev[i]])
      <4>0. objs \in Seq(Infos)
        BY DEF UsbInv, UsbTypeOK
      <4>1. /\ objs' \in Seq(Infos) /\ Len(objs') = Len(objs) + 1
            /\ objs'[Len(objs) + 1] = i
            /\ \A k \in 1..Len(objs) : objs'[k] = objs[k]
            /\ DOMAIN objs' = 1..(Len(objs) + 1) /\ DOMAIN objs = 1..Len(objs)
        BY <2>1, <3>2, <4>0
      <4>2. Registered' = Registered \cup {i}
        BY <4>0, <4>1 DEF Registered
      <4>3. i \notin Registered
        BY <2>3 DEF UsbInv, ObjectsOK
      <4>4. \A k, m \in DOMAIN objs' : objs'[k] = objs'[m] => k = m
        BY <4>0, <4>1, <4>3 DEF Registered, UsbInv, ObjectsOK
      <4> QED BY <2>1, <4>1, <4>2, <4>4 DEF UsbInv, ObjectsOK
    <3> QED BY <3>1, <3>2
  <2>6. ObjectsOK'
    BY <2>1, <2>3, <2>4, <2>5 DEF UsbInv, ObjectsOK, Listed
  <2>7. RolesOK'
    BY DEF UsbInv, RolesOK
  <2> QED BY <2>1, <2>2, <2>4, <2>5, <2>6, <2>7 DEF UsbInv, UsbTypeOK
<1> QED BY <1>1, <1>2

\* Where the packet ends, with the interfaces attached.
LEMMA AttachInv ==
  ASSUME UsbInv, NEW i \in Infos, ConfigReturns(i), Attach(i),
         RolesOK' /\ ObjectsOK', error' \in BOOLEAN,
         /\ so' \in [Infos -> Infos \cup {Nothing}] /\ owns' \subseteq Listed
         /\ made' \subseteq Infos /\ objs' \in Seq(Infos)
         /\ \A j \in Infos : j # i => so'[j] = so[j],
         UNCHANGED stage
  PROVE  UsbInv'
<1> USE DEF ConfigReturns, headset, hardware
<1>1. /\ active' \in [Infos -> Nat] /\ tx' \in [Infos -> [Ends -> TxStates]]
      /\ DeviceOK(i)'
  BY AttachDevice
<1>2. UsbTypeOK'
  BY <1>1 DEF Attach, UsbInv, UsbTypeOK, Listed, TxStates
<1> QED BY <1>1, <1>2, CallbackInv DEF Attach, UsbInv, UsbTypeOK

LEMMA BreaksInv ==
  ASSUME UsbInv, NEW i \in Infos, ConfigBreaks(i) PROVE UsbInv'
<1> USE DEF ConfigBreaks
<1>1. RolesOK' /\ ObjectsOK'
  BY SameObjects DEF ConfigReturns
<1> QED BY <1>1, AttachInv DEF UsbInv, UsbTypeOK, objects

LEMMA EndsInv ==
  ASSUME UsbInv, NEW i \in Infos, ConfigEnds(i) PROVE UsbInv'
<1> USE DEF ConfigEnds
<1>1. error' \in BOOLEAN /\ (error => error') /\ (NameError(i) => error')
  BY DEF UsbInv, UsbTypeOK
<1> QED BY <1>1, AnsweredObjects, AttachInv DEF ConfigAnswered

LEMMA GoesOnInv ==
  ASSUME UsbInv, NEW i \in Infos, ConfigGoesOn(i) PROVE UsbInv'
<1> USE DEF ConfigGoesOn
<1>1. error' \in BOOLEAN /\ (error => error') /\ (NameError(i) => error')
  BY DEF UsbInv, UsbTypeOK
<1>2. /\ RolesOK' /\ ObjectsOK'
      /\ so' \in [Infos -> Infos \cup {Nothing}] /\ owns' \subseteq Listed
      /\ made' \subseteq Infos /\ objs' \in Seq(Infos)
      /\ \A j \in Infos : j # i => so'[j] = so[j]
  BY <1>1, AnsweredObjects
<1> USE DEF ConfigAnswered, ConfigReturns
<1>3. stage' \in [Infos -> {"config", "setup"}]
  BY DEF UsbInv, UsbTypeOK
<1>4. UsbTypeOK'
  BY <1>1, <1>2, <1>3 DEF UsbInv, UsbTypeOK, Listed, hardware, headset
<1>5. DeviceOK(i)'
  BY PacketInFlight DEF UsbInv, DeviceOK, Refused, Alloc, Packet, NoTransfers, Listed
<1> QED BY <1>2, <1>4, <1>5, CallbackInv

LEMMA UnknownInv ==
  ASSUME UsbInv, NEW i \in Infos, ConfigUnknown(i) PROVE UsbInv'
<1> USE DEF ConfigUnknown
<1>2. /\ RolesOK' /\ ObjectsOK'
      /\ so' \in [Infos -> Infos \cup {Nothing}] /\ owns' \subseteq Listed
      /\ made' \subseteq Infos /\ objs' \in Seq(Infos)
      /\ \A j \in Infos : j # i => so'[j] = so[j]
  BY AnsweredObjects
<1> USE DEF ConfigAnswered, ConfigReturns
<1>3. cfg' \in [Infos -> {"none", "idle", "flying", "lost"}] /\ cfg'[i] = "idle"
  BY DEF UsbInv, UsbTypeOK
<1>4. UsbTypeOK'
  BY <1>2, <1>3 DEF UsbInv, UsbTypeOK, Listed, hardware, headset
<1>5. DeviceOK(i)'
  BY <1>3, PacketInFlight DEF UsbInv, DeviceOK, Refused, Alloc, Packet, NoTransfers, Listed
<1> QED BY <1>2, <1>4, <1>5, CallbackInv DEF UsbInv, UsbTypeOK

-----------------------------------------------------------------------------
(* The interfaces' transfers.                                              *)

\* A transfer in flight is counted, and there is no configuration packet.
LEMMA TransferInFlight ==
  ASSUME UsbInv, NEW i \in Infos, NEW e \in Ends, Flying(i, e)
  PROVE  /\ tx[i] \in [Ends -> TxStates] /\ tx[i][e] # "none"
         /\ cfg[i] = "none" /\ active[i] = Cardinality(Alloc(tx[i]))
         /\ active[i] \in Nat \ {0} /\ timeouts[i][e] = 0
         /\ i \in Listed /\ i \notin asked /\ i \notin due
<1>1. tx[i] \in [Ends -> TxStates] /\ tx[i][e] \in {"flying", "timed"}
  BY DEF Flying, UsbInv, UsbTypeOK, TxStates
<1>2. tx[i] # NoTransfers
  BY <1>1 DEF NoTransfers
<1>3. cfg[i] = "none" /\ i \in Listed /\ i \notin due
  BY <1>2 DEF UsbInv, UsbTypeOK, DeviceOK, Listed, Refused
<1>4. active[i] = Cardinality(Alloc(tx[i])) /\ active[i] \in Nat
  <2>1. active[i] = Cardinality(Alloc(tx[i])) + 0
    BY <1>3 DEF UsbInv, DeviceOK, Packet
  <2>2. Cardinality(Alloc(tx[i])) \in Nat
    BY AllocFinite
  <2> QED BY <2>1, <2>2
<1>5. active[i] # 0
  BY <1>1, <1>4, AllocZero
<1>6. timeouts[i][e] = 0
  <2>1. timeouts[i][e] \in 0..1 /\ tx[i][e] # "idle"
    BY <1>1 DEF UsbInv, UsbTypeOK
  <2> QED BY <2>1 DEF UsbInv, DeviceOK
<1>7. i \notin asked
  BY <1>5 DEF UsbInv, DeviceOK
<1> QED BY <1>1, <1>3, <1>4, <1>5, <1>6, <1>7

LEMMA DroppedInv ==
  ASSUME UsbInv, NEW i \in Infos, NEW e \in Ends, TransferDropped(i, e) PROVE UsbInv'
<1> USE DEF TransferDropped, TransferReturns, Release, AskAtZero, headset, objects
<1>1. /\ tx[i] \in [Ends -> TxStates] /\ tx[i][e] # "none"
      /\ cfg[i] = "none" /\ active[i] = Cardinality(Alloc(tx[i]))
      /\ active[i] \in Nat \ {0} /\ timeouts[i][e] = 0
      /\ i \in Listed /\ i \notin asked /\ i \notin due
  BY TransferInFlight
<1>2. tx' = [tx EXCEPT ![i] = [tx[i] EXCEPT ![e] = "none"]]
  BY DEF UsbInv, UsbTypeOK
<1>3. /\ tx' \in [Infos -> [Ends -> TxStates]]
      /\ tx'[i] = [tx[i] EXCEPT ![e] = "none"]
  BY <1>1, <1>2 DEF UsbInv, UsbTypeOK, TxStates
<1>4. /\ active' \in [Infos -> Nat] /\ active'[i] = active[i] - 1
      /\ active[i] - 1 \in Nat
  BY <1>1 DEF UsbInv, UsbTypeOK
<1>5. active'[i] = Cardinality(Alloc(tx'[i]))
  <2>1. Cardinality(Alloc([tx[i] EXCEPT ![e] = "none"])) = Cardinality(Alloc(tx[i])) - 1
    BY <1>1, AllocDrop
  <2> HIDE DEF TransferDropped, TransferReturns, Release, AskAtZero
  <2>2. Alloc(tx'[i]) = Alloc([tx[i] EXCEPT ![e] = "none"])
    BY <1>3
  <2> QED BY <1>1, <1>4, <2>1, <2>2
<1>6. UsbTypeOK'
  BY <1>1, <1>3, <1>4 DEF UsbInv, UsbTypeOK, Listed, TxStates, hardware, control
<1>7. \A f \in Ends : timeouts'[i][f] > 0 => tx'[i][f] = "idle"
  BY <1>1, <1>3 DEF UsbInv, UsbTypeOK, DeviceOK
<1>8. /\ cfg'[i] = "none" /\ dev'[i] # Nothing /\ i \notin due'
      /\ (i \in asked' => active'[i] = 0)
  BY <1>1, <1>4 DEF Listed
<1>9. DeviceOK(i)'
  <2>1. active'[i] = Cardinality(Alloc(tx'[i])) + Packet(cfg'[i])
    BY <1>4, <1>5, <1>8 DEF Packet
  <2> QED BY <1>7, <1>8, <2>1 DEF DeviceOK, Packet, Alloc
<1>10. RolesOK' /\ ObjectsOK'
  BY SameObjects DEF control
<1> QED BY <1>6, <1>9, <1>10, CallbackInv DEF UsbInv, UsbTypeOK

\* A transfer that breaks is counted down like one that is dropped; that it
\* is loose afterwards has no part in the count.
LEMMA TransferBreaksInv ==
  ASSUME UsbInv, NEW i \in Infos, NEW e \in Ends, TransferBreaks(i, e) PROVE UsbInv'
<1> USE DEF TransferBreaks, TransferReturns, Release, CloseUsbDevices, headset, objects
<1>1. /\ tx[i] \in [Ends -> TxStates] /\ tx[i][e] # "none"
      /\ cfg[i] = "none" /\ active[i] = Cardinality(Alloc(tx[i]))
      /\ active[i] \in Nat \ {0} /\ timeouts[i][e] = 0
      /\ i \in Listed /\ i \notin asked /\ i \notin due
  BY TransferInFlight
<1>2. tx' = [tx EXCEPT ![i] = [tx[i] EXCEPT ![e] = "none"]]
  BY DEF UsbInv, UsbTypeOK
<1>3. /\ tx' \in [Infos -> [Ends -> TxStates]]
      /\ tx'[i] = [tx[i] EXCEPT ![e] = "none"]
      /\ \A j \in Infos : j # i => tx'[j] = tx[j]
  BY <1>1, <1>2 DEF UsbInv, UsbTypeOK, TxStates
<1>4. /\ active' \in [Infos -> Nat] /\ active'[i] = active[i] - 1
      /\ active[i] - 1 \in Nat
      /\ \A j \in Infos : j # i => active'[j] = active[j]
  BY <1>1 DEF UsbInv, UsbTypeOK
<1>5. active'[i] = Cardinality(Alloc(tx'[i]))
  <2>1. Cardinality(Alloc([tx[i] EXCEPT ![e] = "none"])) = Cardinality(Alloc(tx[i])) - 1
    BY <1>1, AllocDrop
  <2> HIDE DEF TransferBreaks, TransferReturns, Release, CloseUsbDevices
  <2>2. Alloc(tx'[i]) = Alloc([tx[i] EXCEPT ![e] = "none"])
    BY <1>3
  <2> QED BY <1>1, <1>4, <2>1, <2>2
<1>6. /\ cfg' \in [Infos -> {"none", "idle", "flying", "lost"}]
      /\ \A j \in Infos : cfg'[j] = cfg[j]
  BY <1>1 DEF UsbInv, UsbTypeOK
<1>7. /\ shut' = shut \cup {i} /\ due' = due \ {i}
      /\ asked' \subseteq asked \cup {i} /\ asked \subseteq asked'
      /\ i \in asked' => active'[i] = 0
  BY <1>1, <1>4 DEF UsbInv, UsbTypeOK
<1>8. UsbTypeOK'
  <2>1. loose' \subseteq Infos \X Ends
    BY DEF UsbInv, UsbTypeOK
  <2> QED BY <1>1, <1>3, <1>4, <1>6, <1>7, <2>1
        DEF UsbInv, UsbTypeOK, Listed, TxStates, hardware, control
<1>9. \A f \in Ends : timeouts'[i][f] > 0 => tx'[i][f] = "idle"
  BY <1>1, <1>3 DEF UsbInv, UsbTypeOK, DeviceOK
<1>10. DeviceOK(i)'
  <2>1. cfg'[i] = "none" /\ dev'[i] # Nothing /\ i \notin due'
    BY <1>1, <1>6, <1>7 DEF Listed
  <2>2. active'[i] = Cardinality(Alloc(tx'[i])) + Packet(cfg'[i])
    BY <1>4, <1>5, <2>1 DEF Packet
  <2> QED BY <1>7, <1>9, <2>1, <2>2 DEF DeviceOK, Packet, Alloc
<1>11. RolesOK' /\ ObjectsOK'
  BY SameObjects DEF control
<1>12. ASSUME NEW j \in Infos, j # i
       PROVE  (j \in due' <=> j \in due) /\ (j \in asked' <=> j \in asked)
  BY <1>7, <1>12
<1> QED BY <1>3, <1>4, <1>6, <1>8, <1>10, <1>11, <1>12, CallbackInv

\* A transfer that goes on in another state is counted as before.
LEMMA TransferInv ==
  ASSUME UsbInv, NEW i \in Infos, NEW e \in Ends, TransferReturns(i, e),
         NEW v \in TxStates \ {"none"}, NEW n \in 0..1, n = 1 => v = "idle",
         tx' = [tx EXCEPT ![i][e] = v], timeouts' = [timeouts EXCEPT ![i][e] = n],
         UNCHANGED <<cfg, due, ending, loose, fault>>
  PROVE  UsbInv'
<1> USE DEF TransferReturns, headset, objects, ending
<1>1. /\ tx[i] \in [Ends -> TxStates] /\ tx[i][e] # "none"
      /\ cfg[i] = "none" /\ active[i] = Cardinality(Alloc(tx[i]))
      /\ i \in Listed /\ i \notin asked /\ i \notin due
  BY TransferInFlight
<1>2. /\ tx' = [tx EXCEPT ![i] = [tx[i] EXCEPT ![e] = v]]
      /\ timeouts' = [timeouts EXCEPT ![i] = [timeouts[i] EXCEPT ![e] = n]]
  BY DEF UsbInv, UsbTypeOK
<1>3. /\ tx' \in [Infos -> [Ends -> TxStates]]
      /\ tx'[i] = [tx[i] EXCEPT ![e] = v]
  BY <1>1, <1>2 DEF UsbInv, UsbTypeOK, TxStates
<1>4. timeouts[i] \in [Ends -> 0..1]
  BY DEF UsbInv, UsbTypeOK
<1>5. /\ timeouts' \in [Infos -> [Ends -> 0..1]]
      /\ timeouts'[i] = [timeouts[i] EXCEPT ![e] = n]
  BY <1>2, <1>4 DEF UsbInv, UsbTypeOK
<1>6. UsbTypeOK'
  BY <1>3, <1>5 DEF UsbInv, UsbTypeOK, Listed, TxStates, hardware, control
<1>7. \A f \in Ends : timeouts'[i][f] > 0 => tx'[i][f] = "idle"
  <2> TAKE f \in Ends
  <2>1. CASE f = e
    BY <1>1, <1>3, <1>4, <1>5, <2>1
  <2>2. CASE f # e
    BY <1>1, <1>3, <1>4, <1>5, <2>2 DEF UsbInv, DeviceOK
  <2> QED BY <2>1, <2>2
<1>8. Alloc(tx'[i]) = Alloc(tx[i])
  <2>1. v # "none" /\ v \in TxStates
    OBVIOUS
  <2>2. \A f \in Ends : tx'[i][f] # "none" <=> tx[i][f] # "none"
    BY <1>1, <1>3, <2>1
  <2> QED BY <2>2 DEF Alloc
<1>9. DeviceOK(i)'
  <2>1. active'[i] = Cardinality(Alloc(tx'[i])) + Packet(cfg'[i])
    BY <1>1, <1>8, AllocFinite DEF Packet
  <2>2. cfg'[i] = "none" /\ dev'[i] # Nothing /\ i \notin due' /\ i \notin asked'
    BY <1>1 DEF Listed
  <2> QED BY <1>7, <2>1, <2>2 DEF DeviceOK, Alloc, Packet
<1>10. RolesOK' /\ ObjectsOK'
  BY SameObjects DEF control
<1>11. \A j \in Infos : j # i => tx'[j] = tx[j] /\ timeouts'[j] = timeouts[j]
  BY <1>2 DEF UsbInv, UsbTypeOK
<1> QED BY <1>6, <1>9, <1>10, <1>11, CallbackInv

LEMMA ReportInv ==
  ASSUME UsbInv, NEW i \in Infos, NEW e \in Ends, Report(i, e) PROVE UsbInv'
<1>1. /\ TransferReturns(i, e) /\ timeouts' = [timeouts EXCEPT ![i][e] = 0]
      /\ UNCHANGED <<cfg, due, ending, loose, fault>>
  BY DEF Report
<1>2. CASE tx' = [tx EXCEPT ![i][e] = "timed"]
  <2>1. "timed" \in TxStates \ {"none"} /\ 0 \in 0..1 /\ (0 = 1 => "timed" = "idle")
    BY DEF TxStates
  <2> QED BY <1>1, <1>2, <2>1, TransferInv
<1>3. CASE tx' = [tx EXCEPT ![i][e] = "flying"]
  <2>1. "flying" \in TxStates \ {"none"} /\ 0 \in 0..1 /\ (0 = 1 => "flying" = "idle")
    BY DEF TxStates
  <2> QED BY <1>1, <1>3, <2>1, TransferInv
<1> QED BY <1>2, <1>3 DEF Report

LEMMA TimesOutInv ==
  ASSUME UsbInv, NEW i \in Infos, NEW e \in Ends, TimesOut(i, e) PROVE UsbInv'
<1>1. timeouts[i][e] = 0 /\ i \in Infos
  BY TransferInFlight DEF TimesOut, TransferReturns
<1>2. /\ timeouts' = [timeouts EXCEPT ![i][e] = 1]
      /\ tx' = [tx EXCEPT ![i][e] = "idle"]
      /\ UNCHANGED <<cfg, due, ending>>
  <2>1. ~(timeouts[i][e] + 1 >= 3) /\ timeouts[i][e] + 1 = 1
    BY <1>1
  <2>2. timeouts' = [timeouts EXCEPT ![i][e] = timeouts[i][e] + 1]
    BY DEF TimesOut
  <2> QED BY <2>1, <2>2 DEF TimesOut
<1>3. TransferReturns(i, e) /\ UNCHANGED <<loose, fault>>
  BY DEF TimesOut
<1>4. "idle" \in TxStates \ {"none"} /\ 1 \in 0..1
  BY DEF TxStates
<1>5. UNCHANGED <<cfg, due, ending, loose, fault>>
  BY <1>2, <1>3
<1> QED BY <1>2, <1>3, <1>4, <1>5, TransferInv

LEMMA TransfersInv ==
  ASSUME UsbInv, NEW i \in Infos, NEW e \in Ends, Transfer(i, e) PROVE UsbInv'
BY DroppedInv, ReportInv, TimesOutInv, TransferBreaksInv, FailsInv DEF Transfer, LooseReturns

LEMMA ConfigTxInv ==
  ASSUME UsbInv, NEW i \in Infos, ConfigTx(i) PROVE UsbInv'
BY CancelledInv, StallsInv, BreaksInv, GoesOnInv, EndsInv, UnknownInv DEF ConfigTx

-----------------------------------------------------------------------------
(* Polling, freeing and closing.                                           *)

\* A packet that is due and exists is all that is outstanding.
LEMMA PacketDue ==
  ASSUME UsbInv, NEW i \in Infos, i \in due, cfg[i] # "none"
  PROVE  /\ cfg[i] = "idle" /\ active[i] = 1 /\ tx[i] = NoTransfers
         /\ i \in Listed /\ i \notin asked
         /\ \A e \in Ends : timeouts[i][e] = 0
<1>1. cfg[i] = "idle" /\ tx[i] = NoTransfers /\ i \in Listed /\ i \notin asked
  BY DEF UsbInv, UsbTypeOK, DeviceOK, Listed, Refused
<1>2. active[i] = 1
  BY <1>1, AllocNone DEF UsbInv, DeviceOK, Packet
<1>3. ASSUME NEW e \in Ends PROVE timeouts[i][e] = 0
  <2>1. timeouts[i][e] \in 0..1 /\ tx[i][e] # "idle"
    BY <1>1 DEF UsbInv, UsbTypeOK, NoTransfers
  <2> QED BY <2>1 DEF UsbInv, DeviceOK
<1> QED BY <1>1, <1>2, <1>3

LEMMA ConfigPollInv ==
  ASSUME UsbInv, NEW i \in Infos, ConfigPoll(i) PROVE UsbInv'
<1> USE DEF ConfigPoll, AskAtZero, headset, objects, transfers, ending, control
<1>1. /\ cfg[i] = "idle" /\ active[i] = 1 /\ tx[i] = NoTransfers
      /\ i \in Listed /\ i \notin asked
      /\ \A e \in Ends : timeouts[i][e] = 0
  BY PacketDue
<1>2. RolesOK' /\ ObjectsOK'
  BY SameObjects
<1>3. CASE i \in live
  <2>1. UsbTypeOK'
    BY <1>1, <1>3 DEF UsbInv, UsbTypeOK, Listed, hardware
  <2>2. active'[i] = 1 /\ cfg'[i] = "flying" /\ i \notin due' /\ i \notin asked'
    BY <1>1, <1>3 DEF UsbInv, UsbTypeOK
  <2>3. DeviceOK(i)'
    BY <1>1, <2>2, AllocNone DEF UsbInv, DeviceOK, Packet, Alloc, NoTransfers, Listed
  <2> QED BY <1>2, <1>3, <2>1, <2>3, CallbackInv DEF UsbInv, UsbTypeOK
<1>4. CASE i \notin live
  <2>1. /\ active' = [active EXCEPT ![i] = 0] /\ asked' = asked \cup {i}
        /\ cfg' = [cfg EXCEPT ![i] = "lost"] /\ shut' = shut \cup {i}
    <3>1. active' = [active EXCEPT ![i] = active[i] - 1]
      BY <1>4
    <3> QED BY <1>1, <1>4, <3>1
  <2>2. active' \in [Infos -> Nat]
    BY <2>1 DEF UsbInv, UsbTypeOK
  <2>3. UsbTypeOK'
    BY <1>1, <2>1, <2>2 DEF UsbInv, UsbTypeOK, Listed, hardware
  <2>4. active'[i] = 0 /\ cfg'[i] = "lost" /\ i \notin due'
    BY <2>1 DEF UsbInv, UsbTypeOK
  <2>5. DeviceOK(i)'
    BY <1>1, <2>4, AllocNone DEF UsbInv, DeviceOK, Packet, Alloc, NoTransfers, Listed
  <2> QED BY <1>2, <2>1, <2>3, <2>5, CallbackInv DEF UsbInv, UsbTypeOK
<1> QED BY <1>3, <1>4

Entries(s) == {s[k] : k \in DOMAIN s}
Distinct(s) == \A k, m \in DOMAIN s : s[k] = s[m] => k = m

\* Taking an entry out of a sequence without duplicates.
LEMMA SwapRemoveRange ==
  ASSUME NEW S, NEW s \in Seq(S), NEW x \in Entries(s), Distinct(s),
         NEW r, r = SwapRemove(s, IndexIn(s, x))
  PROVE  r \in Seq(S) /\ Entries(r) = Entries(s) \ {x} /\ Distinct(r)
<1> DEFINE n == Len(s)
           k0 == IndexIn(s, x)
<1>1. k0 \in 1..n /\ s[k0] = x /\ n \in Nat /\ n >= 1 /\ DOMAIN s = 1..n
  BY DEF IndexIn, Entries
<1>2. /\ DOMAIN r = 1..(n - 1)
      /\ \A k \in 1..(n - 1) : r[k] = IF k = k0 THEN s[n] ELSE s[k]
  BY DEF SwapRemove
<1>3. \A k \in 1..(n - 1) : r[k] \in S
  BY <1>1, <1>2
<1>4. r \in Seq(S)
  BY <1>1, <1>2, <1>3 DEF SwapRemove
<1>5. Distinct(r)
  BY <1>1, <1>2 DEF Distinct
<1>6. ASSUME NEW k \in DOMAIN r PROVE r[k] \in Entries(s) \ {x}
  BY <1>1, <1>2 DEF Distinct, Entries
<1>7. ASSUME NEW m \in DOMAIN s, s[m] # x PROVE \E k \in DOMAIN r : r[k] = s[m]
  <2>1. CASE m = n
    <3>1. k0 \in DOMAIN r /\ r[k0] = s[m]
      BY <1>1, <1>2, <1>7, <2>1
    <3> QED BY <3>1
  <2>2. CASE m # n
    <3>1. m \in DOMAIN r /\ r[m] = s[m]
      BY <1>1, <1>2, <1>7, <2>2
    <3> QED BY <3>1
  <2> QED BY <2>1, <2>2
<1>8. Entries(r) = Entries(s) \ {x}
  BY <1>6, <1>7 DEF Entries
<1> QED BY <1>4, <1>5, <1>8

LEMMA ReapInv ==
  ASSUME UsbInv, NEW i \in Infos, Reap(i) PROVE UsbInv'
<1> USE DEF Reap, control, hardware
<1>1. i \in asked /\ i \in Listed /\ phase # "closed" /\ i # Nothing
  BY DevicesAssumption DEF Reapable, Polls, UsbInv, UsbTypeOK
<1>2. Partner(i) \subseteq Infos \ {i} /\ \A j \in Partner(i) : j = board /\ i = imu /\ dev[j] \in Boards
  BY DevicesAssumption DEF Partner, UsbInv, UsbTypeOK, RolesOK
<1>3. Partner(i) \subseteq Listed
  BY <1>2, DevicesAssumption DEF Listed
<1>4. /\ dev' \in [Infos -> Devices \cup {Nothing}]
      /\ \A j \in Infos : dev'[j] = IF j = i THEN Nothing ELSE dev[j]
  BY DEF UsbInv, UsbTypeOK
<1>5. Listed' = Listed \ {i}
  BY <1>4 DEF Listed
<1>6. /\ active' \in [Infos -> Nat] /\ active'[i] = 0
      /\ \A j \in Infos : j # i => active'[j] = active[j]
  BY DEF UsbInv, UsbTypeOK
<1>7. /\ tx' \in [Infos -> [Ends -> TxStates]] /\ tx'[i] = NoTransfers
      /\ timeouts' \in [Infos -> [Ends -> 0..1]] /\ timeouts'[i] = NoTimeouts
      /\ \A j \in Infos : j # i => tx'[j] = tx[j] /\ timeouts'[j] = timeouts[j]
  <2>1. NoTransfers \in [Ends -> TxStates] /\ NoTimeouts \in [Ends -> 0..1]
    BY DEF NoTransfers, NoTimeouts, TxStates
  <2>2. tx \in [Infos -> [Ends -> TxStates]] /\ timeouts \in [Infos -> [Ends -> 0..1]]
    BY DEF UsbInv, UsbTypeOK, TxStates
  <2> QED BY <2>1, <2>2
<1>8. /\ cfg' \in [Infos -> {"none", "idle", "flying", "lost"}]
      /\ \A j \in Infos : cfg'[j] = IF j = i THEN "none"
                                    ELSE IF j \in Partner(i) \cap due \cap live THEN "flying"
                                    ELSE cfg[j]
  BY DEF UsbInv, UsbTypeOK
<1>9. /\ so' \in [Infos -> Infos \cup {Nothing}]
      /\ \A j \in Infos : so'[j] = IF j \in Partner(i) \cup {i} THEN Nothing ELSE so[j]
  BY DEF UsbInv, UsbTypeOK
<1>10. /\ made' = made \ {i} /\ owns' = owns \ {i}
       /\ objs' \in Seq(Infos)
       /\ Registered' = Registered \ {i}
       /\ \A k, m \in DOMAIN objs' : objs'[k] = objs'[m] => k = m
  <2>1. CASE i \notin owns
    BY <2>1 DEF UsbInv, UsbTypeOK, ObjectsOK, Registered
  <2>2. CASE i \in owns
    <3>1. so[i] = i /\ \E k \in DOMAIN objs : objs[k] = i
      BY <2>2 DEF Stray, Registered, UsbInv, ObjectsOK
    <3>2. objs' = SwapRemove(objs, IndexIn(objs, i)) /\ made' = made \ {i}
      BY <2>2, <3>1
    <3>3. objs \in Seq(Infos) /\ Distinct(objs) /\ i \in Entries(objs)
      BY <3>1 DEF UsbInv, UsbTypeOK, ObjectsOK, Distinct, Entries
    <3>4. objs' \in Seq(Infos) /\ Entries(objs') = Entries(objs) \ {i} /\ Distinct(objs')
      BY <3>2, <3>3, SwapRemoveRange
    <3>5. owns' = owns \ {i}
      OBVIOUS
    <3> QED BY <3>2, <3>4, <3>5 DEF Registered, Entries, Distinct
  <2> QED BY <2>1, <2>2
<1>11. UsbTypeOK'
  <2>1. imu' \in Infos \cup {Nothing} /\ board' \in Infos \cup {Nothing}
    BY DEF UsbInv, UsbTypeOK
  <2>2. stage' \in [Infos -> {"config", "setup"}]
    BY DEF UsbInv, UsbTypeOK
  <2>3. shut' \subseteq Listed' /\ asked' \subseteq Listed' /\ due' \subseteq Listed'
        /\ live' \subseteq Listed' /\ owns' \subseteq Listed'
    BY <1>3, <1>5, <1>2, <1>10 DEF UsbInv, UsbTypeOK
  <2>4. made' \subseteq Infos
    BY <1>10 DEF UsbInv, UsbTypeOK
  <2> QED BY <2>1, <2>2, <2>3, <2>4, <1>4, <1>6, <1>7, <1>8, <1>9, <1>10
        DEF UsbInv, UsbTypeOK, TxStates
<1>12. DeviceOK(i)'
  <2>1. Alloc(tx'[i]) = Alloc(NoTransfers)
    BY <1>7
  <2>2. cfg'[i] = "none" /\ so'[i] = Nothing /\ i \notin due' /\ i \notin asked'
    BY <1>8, <1>9
  <2> QED BY <1>6, <1>7, <2>1, <2>2, AllocNone DEF DeviceOK, Packet, NoTimeouts, NoTransfers, Alloc
<1>13. ASSUME NEW j \in Infos, j # i, j \notin Partner(i) PROVE DeviceOK(j)'
  <2>1. /\ active'[j] = active[j] /\ cfg'[j] = cfg[j] /\ tx'[j] = tx[j]
        /\ timeouts'[j] = timeouts[j] /\ dev'[j] = dev[j] /\ so'[j] = so[j]
    BY <1>4, <1>6, <1>7, <1>8, <1>9, <1>13
  <2>2. (j \in due' <=> j \in due) /\ (j \in asked' <=> j \in asked)
    BY <1>13
  <2>3. j # imu => j # imu'
    BY DevicesAssumption
  <2> QED BY <2>1, <2>2, <2>3, SameDevice DEF UsbInv
<1>14. ASSUME NEW j \in Partner(i) PROVE DeviceOK(j)'
  <2>1. /\ j \in Infos /\ j # i /\ dev[j] \in Boards /\ dev[j] \notin Headsets
        /\ dev[j] # Nothing
    BY <1>2, DevicesAssumption
  <2>2. /\ active'[j] = active[j] /\ tx'[j] = tx[j] /\ timeouts'[j] = timeouts[j]
        /\ dev'[j] = dev[j] /\ j \notin due'
        /\ (j \in asked' => j \in asked \/ active[j] = 0)
    BY <1>4, <1>6, <1>7, <1>14, <2>1
  <2>3. j \in due => cfg[j] = "idle"
    BY <2>1 DEF UsbInv, DeviceOK, Refused
  <2>4. Packet(cfg'[j]) = Packet(cfg[j]) /\ (cfg'[j] # "none" => cfg[j] # "none")
    BY <1>8, <2>1, <2>3 DEF Packet
  <2> HIDE DEF Reap, control, hardware
  <2>5. DeviceOK(j)
    BY <2>1 DEF UsbInv
  <2>6. active'[j] = Cardinality(Alloc(tx'[j])) + Packet(cfg'[j])
    BY <2>2, <2>4, <2>5 DEF DeviceOK, Alloc
  <2> QED BY <2>1, <2>2, <2>4, <2>5, <2>6 DEF DeviceOK, Alloc, NoTransfers, Packet
<1>15. RolesOK'
  BY <1>4, DevicesAssumption DEF UsbInv, RolesOK, UsbTypeOK
<1>16. ASSUME NEW j \in owns' PROVE so'[j] = j /\ dev'[j] \notin Boards
  <2>1. j \in owns /\ j # i /\ so[j] = j /\ dev[j] \notin Boards /\ j \in Infos
    BY <1>10, <1>16 DEF UsbInv, UsbTypeOK, ObjectsOK, Listed
  <2> QED BY <2>1, <1>2, <1>4, <1>9
<1>17. ASSUME NEW j \in Infos, so'[j] # Nothing, j \notin owns'
       PROVE  j = board' /\ imu' \in owns' /\ so'[j] = imu'
  <2>1. j # i /\ j \notin Partner(i) /\ so'[j] = so[j] /\ j \notin owns
    BY <1>9, <1>10, <1>17
  <2>2. j = board /\ imu \in owns /\ so[j] = imu
    BY <2>1, <1>17 DEF UsbInv, ObjectsOK
  <2>3. i # imu
    BY <2>1, <2>2, DevicesAssumption DEF Partner
  <2> QED BY <2>1, <2>2, <2>3, <1>10
<1>18. ObjectsOK'
  <2>1. made' = owns' /\ Registered' \subseteq made' /\ (~error' => Registered' = made')
    BY <1>10 DEF UsbInv, ObjectsOK
  <2> QED BY <1>1, <1>10, <1>16, <1>17, <2>1 DEF ObjectsOK
<1> QED BY <1>11, <1>12, <1>13, <1>14, <1>15, <1>18 DEF UsbInv

LEMMA StartCloseInv == ASSUME UsbInv, StartClose PROVE UsbInv'
<1> USE DEF StartClose, CloseUsbDevices, headset, objects, transfers
<1>1. /\ cfg' \in [Infos -> {"none", "idle", "flying", "lost"}]
      /\ \A j \in Infos : cfg'[j] = IF j \in Listed \cap due \cap live THEN "flying" ELSE cfg[j]
  BY DEF UsbInv, UsbTypeOK
<1>2. UsbTypeOK'
  BY <1>1 DEF UsbInv, UsbTypeOK, Listed, hardware
<1>3. ASSUME NEW j \in Infos PROVE DeviceOK(j)'
  <2>1. j \in Listed \cap due => cfg[j] = "idle"
    BY PacketDue DEF NullPacket
  <2>2. Packet(cfg'[j]) = Packet(cfg[j]) /\ (cfg'[j] # "none" => cfg[j] # "none")
    BY <1>1, <2>1 DEF Packet
  <2>3. dev[j] = Nothing => j \notin Listed
    BY DEF Listed
  <2>4. j \notin due' /\ (j \in asked' => active[j] = 0)
    <3>1. j \in asked => active[j] = 0
      BY DEF UsbInv, DeviceOK
    <3>2. due' = due \ Listed /\ due \subseteq Listed
      BY DEF UsbInv, UsbTypeOK
    <3> QED BY <3>1, <3>2
  <2>5. active'[j] = Cardinality(Alloc(tx'[j])) + Packet(cfg'[j])
    <3>1. active[j] = Cardinality(Alloc(tx[j])) + Packet(cfg[j])
      BY DEF UsbInv, DeviceOK
    <3>2. active' = active /\ tx' = tx
      OBVIOUS
    <3> HIDE DEF StartClose
    <3>3. Alloc(tx'[j]) = Alloc(tx[j])
      BY <3>2 DEF Alloc
    <3> QED BY <2>2, <3>1, <3>2, <3>3
  <2>6. cfg[j] = "none" => cfg'[j] = "none"
    BY <1>1, <2>1
  <2> QED BY <2>2, <2>3, <2>4, <2>5, <2>6 DEF UsbInv, DeviceOK, Alloc, NoTransfers, Packet
<1>4. RolesOK' /\ ObjectsOK'
  BY DEF UsbInv, RolesOK, ObjectsOK, Listed, Registered
<1> QED BY <1>2, <1>3, <1>4 DEF UsbInv

LEMMA EndCloseInv == ASSUME UsbInv, EndClose PROVE UsbInv'
<1> USE DEF EndClose, headset, objects, packets, transfers, ending
<1>1. UsbTypeOK'
  BY DEF UsbInv, UsbTypeOK, Listed, hardware
<1>2. \A j \in Infos : DeviceOK(j)'
  BY SameDevice DEF UsbInv
<1>3. RolesOK' /\ ObjectsOK'
  BY DEF UsbInv, RolesOK, ObjectsOK, Listed, Registered
<1> QED BY <1>1, <1>2, <1>3 DEF UsbInv

LEMMA StepInv == UsbInv /\ [Next]_vars => UsbInv'
<1> SUFFICES ASSUME UsbInv, [Next]_vars PROVE UsbInv'
  OBVIOUS
<1>1. CASE Hardware
  BY <1>1, HardwareInv
<1>2. CASE Add
  BY <1>2, AddInv
<1>3. CASE Close
  BY <1>3, StartCloseInv, EndCloseInv, FailsInv DEF Close, StartCloseNull
<1>4. ASSUME NEW i \in Infos, PollDevice(i) PROVE UsbInv'
  BY <1>4, ConfigPollInv, ReapInv, FailsInv DEF PollDevice, PollFails, PollFaults
<1>5. ASSUME NEW i \in Infos, ConfigTx(i) PROVE UsbInv'
  BY <1>5, ConfigTxInv
<1>6. ASSUME NEW i \in Infos, NEW e \in Ends, Transfer(i, e) PROVE UsbInv'
  BY <1>6, TransfersInv
<1>7. CASE UNCHANGED vars
  <2> USE <1>7 DEF vars, hardware, headset, objects, packets, transfers, ending, control
  <2>1. UsbTypeOK'
    BY DEF UsbInv, UsbTypeOK, Listed
  <2>2. \A j \in Infos : DeviceOK(j)'
    BY SameDevice DEF UsbInv
  <2>3. RolesOK' /\ ObjectsOK'
    BY SameObjects
  <2> QED BY <2>1, <2>2, <2>3 DEF UsbInv
<1> QED BY <1>1, <1>2, <1>3, <1>4, <1>5, <1>6, <1>7 DEF Next

LEMMA UsbInvariant == Spec => []UsbInv
BY InitUsb, StepInv, PTL DEF Spec

-----------------------------------------------------------------------------
(* Results                                                                 *)

\* The types, with them: a transfer never times out twice in a row, so the
\* third timeout that handle_transfer waits for does not come.
THEOREM UsbTyped == Spec => []UsbTypeOK
<1>1. UsbInv => UsbTypeOK
  BY DEF UsbInv
<1> QED BY <1>1, UsbInvariant, PTL

\* active_transfers is exact whatever is plugged in and out, in the middle of
\* a configuration or of the driver's end.
THEOREM CountsExact == Spec => []CountExact
<1>1. UsbInv => CountExact
  BY DEF UsbInv, DeviceOK, CountExact, Outstanding, Alloc, Packet
<1> QED BY <1>1, UsbInvariant, PTL

\* survive_handle_close_request_flag frees no record with a transfer that
\* libusb still has, but one that handle_transfer itself had freed after a
\* failure: no other callback meets freed memory.
THEOREM QuietWhenFreed == Spec => []FreedWhenQuiet
<1>1. ASSUME UsbInv, NEW i \in asked
      PROVE  /\ \A e \in Ends : tx[i][e] = "none"
             /\ cfg[i] \in {"none", "lost"} /\ i \notin due
  <2>1. i \in Infos /\ active[i] = 0 /\ i \notin due
    BY <1>1 DEF UsbInv, UsbTypeOK, DeviceOK, Listed
  <2>2. Cardinality(Alloc(tx[i])) \in Nat
    BY AllocFinite
  <2>3. Packet(cfg[i]) \in {0, 1} /\ Cardinality(Alloc(tx[i])) + Packet(cfg[i]) = 0
    BY <1>1, <2>1 DEF UsbInv, DeviceOK, Packet
  <2>4. Cardinality(Alloc(tx[i])) = 0 /\ Packet(cfg[i]) = 0
    BY <2>2, <2>3
  <2>5. cfg[i] \in {"none", "lost"}
    BY <1>1, <2>1, <2>4 DEF UsbInv, UsbTypeOK, Packet
  <2> QED BY <2>1, <2>4, <2>5, AllocZero
<1>2. ASSUME UsbInv, NEW i \in asked PROVE \A e \in Held(i) : <<i, e>> \in loose
  <2>1. \A e \in Ends : tx[i][e] = "none"
    BY <1>1, <1>2
  <2>2. \A e \in Ends : ~Flying(i, e)
    BY <2>1 DEF Flying
  <2> QED BY <2>2 DEF Held
<1>3. ASSUME UsbInv, NEW i \in asked PROVE \A e \in Ends : tx[i][e] # "idle"
  BY <1>1, <1>3
<1>4. UsbInv => FreedWhenQuiet
  BY <1>1, <1>2, <1>3 DEF FreedWhenQuiet
<1> QED BY <1>4, UsbInvariant, PTL

\* No device is left with a pointer to a destroyed object, nor the context
\* with one, and none is left behind by survive_vive_close.
THEOREM ObjectsStayLive == Spec => []ObjectsLive
<1>1. UsbInv => ObjectsLive
  BY DEF UsbInv, UsbTypeOK, ObjectsOK, ObjectsLive
<1> QED BY <1>1, UsbInvariant, PTL

\* A packet that is due exists, but for a headset that was refused.
THEOREM PacketsAlwaysExist == Spec => []PacketsExist
<1>1. UsbInv => PacketsExist
  BY DEF UsbInv, UsbTypeOK, DeviceOK, Listed, Refused, PacketsExist
<1> QED BY <1>1, UsbInvariant, PTL
=============================================================================
