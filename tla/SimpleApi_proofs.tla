------------------------- MODULE SimpleApi_proofs -------------------------
(***************************************************************************)
(* Proofs about SimpleApi, for every set of objects and every ring size.   *)
(***************************************************************************)
EXTENDS SimpleApi, SequenceTheorems, TLAPS

\* Where the thread is says whether a hook may be in progress and whether
\* next_event may have reported a shutdown.
ThreadInv ==
  /\ thread # "polling" => hook = Idle
  /\ ~running => thread \in {"none", "done"} \/ app = "join"
  /\ result = "Shutdown" => thread \in {"none", "done"}

\* The object whose flag was found set is in the list.
CursorInv == app \in {"clear", "read"} => cursor <= Len(list)

\* The steps that put an event in the ring, and the event each one puts.
Puts(e) ==
  \/ \E o \in Objects : e = Added(o) /\
       (InitObject(o) \/ (\E p \in BOOLEAN : InitLighthouse(o, p))
        \/ Announce(o) \/ LighthouseAdded(o))
  \/ \E o \in Objects : e = [type |-> "Button", object |-> o] /\ ButtonInsert(o)
  \/ \E o \in Objects : e = [type |-> "Config", object |-> o] /\ Config(o)

\* The steps that leave the ring alone.
RingIdle ==
  \/ \E o \in Objects : \/ NewObject(o) \/ Publish(o) \/ CreateExternal(o)
                        \/ CreateLighthouse(o) \/ Mark(o) \/ ButtonMark(o)
  \/ InitDone \/ LeavePoll \/ ThreadEnd \/ StartThread \/ StopThread \/ Joined
  \/ WaitForEvent \/ WaitOver \/ PopNothing \/ ScanPast \/ ScanHit \/ ClearFlag
  \/ ReadPose \/ ScanEnd \/ Close
  \/ UNCHANGED vars

\* Every step puts one event, pops one, or leaves the ring alone.
LEMMA StepKinds ==
  ASSUME [Next]_vars
  PROVE  (\E e \in Events : Puts(e)) \/ PopEvent \/ RingIdle
<1>1. ASSUME NEW o \in Objects
      PROVE  /\ Added(o) \in Events
             /\ [type |-> "Button", object |-> o] \in Events
             /\ [type |-> "Config", object |-> o] \in Events
  BY DEF Added, Events
<1>2. ASSUME NEW o \in Objects,
             InitObject(o) \/ (\E p \in BOOLEAN : InitLighthouse(o, p))
               \/ Announce(o) \/ LighthouseAdded(o)
      PROVE  \E e \in Events : Puts(e)
  BY <1>1, <1>2 DEF Puts
<1>3. ASSUME NEW o \in Objects, ButtonInsert(o) \/ Config(o)
      PROVE  \E e \in Events : Puts(e)
  BY <1>1, <1>3 DEF Puts
<1>4. ASSUME NEW o \in Objects,
             \/ NewObject(o) \/ Publish(o) \/ CreateExternal(o)
             \/ CreateLighthouse(o) \/ Mark(o) \/ ButtonMark(o)
      PROVE  RingIdle
  BY <1>4 DEF RingIdle
<1>5. CASE HookStep
  BY <1>2, <1>3, <1>4, <1>5 DEF HookStep
<1>6. CASE NextEvent
  BY <1>6 DEF NextEvent, RingIdle
<1>7. CASE InitDone \/ LeavePoll \/ ThreadEnd \/ StartThread \/ StopThread \/ Joined
           \/ WaitForEvent \/ WaitOver \/ Close \/ UNCHANGED vars
  BY <1>7 DEF RingIdle
<1> QED BY <1>2, <1>5, <1>6, <1>7 DEF Next

\* A step that puts an event leaves what the application reads unlocked alone
\* and does exactly what insert_into_event_buffer does to the ring.
LEMMA PutsInsert ==
  ASSUME NEW e \in Events, Puts(e)
  PROVE  Insert(e) /\ UNCHANGED <<running, thread, app, cursor, result, taken>>
BY DEF Puts, InitObject, InitLighthouse, Announce, LighthouseAdded, ButtonInsert,
       Config, appVars

\* A step that leaves the ring alone leaves the last popped event alone.
LEMMA IdleKeeps ==
  ASSUME RingIdle
  PROVE  UNCHANGED <<events, nextWrite, cnt, taken>>
BY DEF RingIdle, NewObject, Publish, CreateExternal, CreateLighthouse, Mark,
       ButtonMark, InitDone, LeavePoll, ThreadEnd, StartThread, StopThread, Joined,
       WaitForEvent, WaitOver, PopNothing, ScanPast, ScanHit, ClearFlag, ReadPose,
       ScanEnd, Close, vars, ring, appVars

\* The part of the type invariant that is about the ring.
RingType ==
  /\ events \in [Slots -> Events \cup {None, Invalid}]
  /\ nextWrite \in Slots /\ cnt \in 0 .. RingSize
  /\ taken \in {<<>>} \cup {<<e>> : e \in Events \cup {None, Invalid}}

\* The slots of the kept events are slots of the ring, one for each event, and
\* the next one to write follows the newest.
LEMMA SlotFacts ==
  ASSUME RingType
  PROVE  /\ OldestIndex \in Slots
         /\ \A k \in 0 .. cnt : SlotOf(k) \in Slots
         /\ \A k \in 0 .. cnt - 1 : cnt < RingSize => SlotOf(k) # nextWrite
         /\ \A k \in 1 .. cnt - 1 : SlotOf(k) # OldestIndex
         /\ SlotOf(cnt) = nextWrite
         /\ cnt = RingSize => OldestIndex = nextWrite
         /\ cnt > 0 => SlotOf(0) = OldestIndex
<1>1. /\ RingSize \in Nat /\ RingSize >= 1
      /\ nextWrite \in Nat /\ nextWrite < RingSize
      /\ cnt \in Nat /\ cnt <= RingSize
  BY RingAssumption DEF RingType, Slots
<1>2. /\ OldestIndex \in Nat /\ OldestIndex < RingSize
      /\ \/ OldestIndex = nextWrite - cnt
         \/ nextWrite < cnt /\ OldestIndex = nextWrite + RingSize - cnt
  BY <1>1 DEF OldestIndex
<1>3. ASSUME NEW k \in 0 .. cnt PROVE SlotOf(k) \in Slots
  BY <1>1, <1>2 DEF SlotOf, Slots
<1>4. ASSUME NEW k \in 0 .. cnt - 1, cnt < RingSize PROVE SlotOf(k) # nextWrite
  BY <1>1, <1>2, <1>4 DEF SlotOf
<1>5. ASSUME NEW k \in 1 .. cnt - 1 PROVE SlotOf(k) # OldestIndex
  BY <1>1, <1>2 DEF SlotOf
<1>6. SlotOf(cnt) = nextWrite /\ (cnt > 0 => SlotOf(0) = OldestIndex)
  BY <1>1, <1>2 DEF SlotOf
<1>7. cnt = RingSize => OldestIndex = nextWrite
  BY <1>1, <1>2
<1> QED BY <1>1, <1>2, <1>3, <1>4, <1>5, <1>6, <1>7 DEF Slots

\* Putting an event: the kept slots stay where they are, the new event follows
\* them, and when the ring is full the oldest slot is the one overwritten.
LEMMA PutSlots ==
  ASSUME RingType, NEW e \in Events, Insert(e), UNCHANGED taken
  PROVE  /\ RingType'
         /\ cnt < RingSize =>
              /\ cnt' = cnt + 1
              /\ \A k \in 0 .. cnt : SlotOf(k)' = SlotOf(k)
         /\ cnt = RingSize =>
              /\ cnt' = cnt
              /\ \A k \in 0 .. cnt - 1 : SlotOf(k)' = SlotOf(k + 1)
<1>1. /\ RingSize \in Nat /\ RingSize >= 1
      /\ nextWrite \in Nat /\ nextWrite < RingSize
      /\ cnt \in Nat /\ cnt <= RingSize
  BY RingAssumption DEF RingType, Slots
<1>2. nextWrite' = After(nextWrite) /\ nextWrite' \in Slots
  BY <1>1 DEF Insert, After, Slots
<1>3. events' \in [Slots -> Events \cup {None, Invalid}]
  BY DEF Insert, RingType
<1>4. cnt' = (IF cnt = RingSize THEN cnt ELSE cnt + 1) /\ cnt' \in 0 .. RingSize
  BY <1>1 DEF Insert
<1>5. ASSUME cnt < RingSize, NEW k \in 0 .. cnt PROVE SlotOf(k)' = SlotOf(k)
  BY <1>1, <1>2, <1>4, <1>5 DEF SlotOf, OldestIndex, After
<1>6. ASSUME cnt = RingSize, NEW k \in 0 .. cnt - 1 PROVE SlotOf(k)' = SlotOf(k + 1)
  BY <1>1, <1>2, <1>4, <1>6 DEF SlotOf, OldestIndex, After
<1> QED BY <1>1, <1>2, <1>3, <1>4, <1>5, <1>6 DEF RingType

\* Popping: the oldest slot leaves, the others move one place forward.
LEMMA PopSlots ==
  ASSUME RingType, PopEvent
  PROVE  /\ RingType'
         /\ cnt > 0 /\ cnt' = cnt - 1
         /\ \A k \in 0 .. cnt - 2 : SlotOf(k)' = SlotOf(k + 1)
<1>1. /\ RingSize \in Nat /\ RingSize >= 1
      /\ nextWrite \in Nat /\ nextWrite < RingSize
      /\ cnt \in Nat /\ cnt <= RingSize
      /\ cnt > 0 /\ cnt' = cnt - 1 /\ nextWrite' = nextWrite
  BY RingAssumption DEF RingType, Slots, PopEvent
<1>2. OldestIndex \in Slots
  BY SlotFacts
<1>3. events' \in [Slots -> Events \cup {None, Invalid}]
  BY <1>2 DEF PopEvent, RingType
<1>4. taken' \in {<<>>} \cup {<<e>> : e \in Events \cup {None, Invalid}}
  BY <1>2 DEF PopEvent, RingType
<1>5. ASSUME NEW k \in 0 .. cnt - 2 PROVE SlotOf(k)' = SlotOf(k + 1)
  BY <1>1 DEF SlotOf, OldestIndex
<1>6. RingType'
  BY <1>1, <1>3, <1>4 DEF RingType
<1> QED BY <1>1, <1>5, <1>6

\* The ring stays in its types, and every kept event is a real one.
LEMMA RingStep ==
  ASSUME RingType, PendingValid, [Next]_vars
  PROVE  RingType' /\ PendingValid'
<1>1. ASSUME NEW e \in Events, Puts(e) PROVE RingType' /\ PendingValid'
  <2>1. Insert(e) /\ UNCHANGED taken
    BY <1>1, PutsInsert
  <2>2. RingType'
    BY <2>1, PutSlots
  <2>3. events' = [events EXCEPT ![nextWrite] = e] /\ events'[nextWrite] = e
    BY <2>1 DEF Insert, RingType
  <2>4. cnt \in 0 .. RingSize /\ RingSize \in Nat /\ RingSize >= 1
    BY RingAssumption DEF RingType
  <2>5. ASSUME cnt < RingSize, NEW k \in 0 .. cnt' - 1
        PROVE  events'[SlotOf(k)'] \in Events
    <3>1. k \in 0 .. cnt /\ SlotOf(k)' = SlotOf(k) /\ SlotOf(k) \in Slots
      BY <2>1, <2>4, <2>5, PutSlots, SlotFacts
    <3>2. CASE k = cnt
      BY <2>3, <3>1, <3>2, SlotFacts
    <3>3. CASE k # cnt
      <4>1. k \in 0 .. cnt - 1
        BY <2>4, <3>1, <3>3
      <4>2. SlotOf(k) # nextWrite /\ events[SlotOf(k)] \in Events
        BY <2>5, <4>1, SlotFacts DEF PendingValid
      <4> QED BY <2>3, <3>1, <4>2 DEF RingType
    <3> QED BY <3>2, <3>3
  <2>6. ASSUME cnt = RingSize, NEW k \in 0 .. cnt' - 1
        PROVE  events'[SlotOf(k)'] \in Events
    <3>1. k \in 0 .. cnt - 1 /\ SlotOf(k)' = SlotOf(k + 1) /\ SlotOf(k + 1) \in Slots
      <4>1. k \in 0 .. cnt - 1 /\ k + 1 \in 0 .. cnt
        BY <2>1, <2>4, <2>6, PutSlots
      <4> QED BY <2>1, <2>6, <4>1, PutSlots, SlotFacts
    <3>2. CASE k + 1 = cnt
      BY <2>3, <3>1, <3>2, SlotFacts
    <3>3. CASE k + 1 # cnt
      <4>1. k + 1 \in 1 .. cnt - 1 /\ k + 1 \in 0 .. cnt - 1
        BY <2>4, <3>1, <3>3
      <4>2. SlotOf(k + 1) # nextWrite /\ events[SlotOf(k + 1)] \in Events
        BY <2>6, <4>1, SlotFacts DEF PendingValid
      <4> QED BY <2>3, <3>1, <4>2 DEF RingType
    <3> QED BY <3>2, <3>3
  <2>7. PendingValid'
    <3>1. CASE cnt < RingSize
      BY <2>5, <3>1 DEF PendingValid
    <3>2. CASE cnt = RingSize
      BY <2>6, <3>2 DEF PendingValid
    <3> QED BY <2>4, <3>1, <3>2
  <2> QED BY <2>2, <2>7
<1>2. CASE PopEvent
  <2>1. RingType' /\ cnt > 0 /\ cnt' = cnt - 1 /\ cnt \in Nat
    BY <1>2, PopSlots, RingAssumption DEF RingType
  <2>2. ASSUME NEW k \in 0 .. cnt' - 1 PROVE events'[SlotOf(k)'] \in Events
    <3>1. k \in 0 .. cnt - 2 /\ k + 1 \in 1 .. cnt - 1 /\ k + 1 \in 0 .. cnt
          /\ k + 1 \in 0 .. cnt - 1
      BY <2>1
    <3>2. SlotOf(k)' = SlotOf(k + 1) /\ SlotOf(k + 1) \in Slots
          /\ SlotOf(k + 1) # OldestIndex
      BY <1>2, <3>1, PopSlots, SlotFacts
    <3>3. events[SlotOf(k + 1)] \in Events
      BY <3>1 DEF PendingValid
    <3>4. events' = [events EXCEPT ![OldestIndex] = Invalid]
      BY <1>2 DEF PopEvent
    <3> QED BY <3>2, <3>3, <3>4 DEF RingType
  <2>3. PendingValid'
    BY <2>2 DEF PendingValid
  <2> QED BY <2>1, <2>3
<1>3. CASE RingIdle
  BY <1>3, IdleKeeps DEF RingType, PendingValid, SlotOf, OldestIndex
<1> QED BY <1>1, <1>2, <1>3, StepKinds

\* Initially the ring is empty.
LEMMA RingInit == Init => RingType /\ PendingValid
BY RingAssumption DEF Init, RingType, PendingValid, Slots

\* For every size of the ring, the assertion of pop_from_event_buffer holds:
\* no event still to be read sits in a slot already read or never written.
THEOREM PopsAreValid == Spec => []PendingValid
<1>1. Init => RingType /\ PendingValid
  BY RingInit
<1>2. (RingType /\ PendingValid) /\ [Next]_vars => (RingType /\ PendingValid)'
  BY RingStep
<1> QED BY <1>1, <1>2, PTL DEF Spec

-----------------------------------------------------------------------------
(* The ring implements the bounded queue that drops its oldest event.      *)

\* What a slot of the ring may hold.
Payload == Events \cup {None, Invalid}

\* The abstract queue is a sequence, as long as the ring's count says.
LEMMA QueuedType ==
  ASSUME RingType
  PROVE  /\ cnt \in Nat /\ Queued \in Seq(Payload) /\ Len(Queued) = cnt
         /\ \A k \in 1 .. cnt : Queued[k] = events[SlotOf(k - 1)]
<1>1. cnt \in Nat
  BY RingAssumption DEF RingType
<1>2. ASSUME NEW k \in 1 .. cnt PROVE events[SlotOf(k - 1)] \in Payload
  <2>1. k - 1 \in 0 .. cnt
    BY <1>1
  <2> QED BY <2>1, SlotFacts DEF RingType, Payload
<1> QED BY <1>1, <1>2 DEF Queued

\* An event put when there is room is appended.
LEMMA PutAppends ==
  ASSUME RingType, NEW e \in Events, Insert(e), UNCHANGED taken, cnt < RingSize
  PROVE  Queued' = Append(Queued, e)
<1>1. /\ cnt \in Nat /\ Queued \in Seq(Payload) /\ Len(Queued) = cnt /\ e \in Payload
      /\ \A k \in 1 .. cnt : Queued[k] = events[SlotOf(k - 1)]
  BY QueuedType DEF Payload
<1>2. events' = [events EXCEPT ![nextWrite] = e] /\ events'[nextWrite] = e
  BY DEF Insert, RingType
<1>3. cnt' = cnt + 1 /\ \A k \in 0 .. cnt : SlotOf(k)' = SlotOf(k)
  BY PutSlots
<1>4. Queued' = [k \in 1 .. cnt + 1 |-> events'[SlotOf(k - 1)']]
  BY <1>3 DEF Queued
<1>5. ASSUME NEW k \in 1 .. cnt + 1
      PROVE  events'[SlotOf(k - 1)'] = Append(Queued, e)[k]
  <2>1. k - 1 \in 0 .. cnt /\ SlotOf(k - 1)' = SlotOf(k - 1)
    BY <1>1, <1>3
  <2>2. CASE k = cnt + 1
    <3>1. SlotOf(k - 1) = nextWrite
      BY <1>1, <2>2, SlotFacts
    <3>2. Append(Queued, e)[k] = e
      BY <1>1, <2>2, AppendProperties
    <3> QED BY <1>2, <2>1, <3>1, <3>2
  <2>3. CASE k # cnt + 1
    <3>1. k \in 1 .. cnt /\ k - 1 \in 0 .. cnt - 1
      BY <1>1, <2>3
    <3>2. SlotOf(k - 1) # nextWrite /\ SlotOf(k - 1) \in Slots
      BY <2>1, <3>1, SlotFacts
    <3>3. events'[SlotOf(k - 1)] = Queued[k]
      BY <1>1, <1>2, <3>1, <3>2 DEF RingType
    <3>4. Append(Queued, e)[k] = Queued[k]
      BY <1>1, <3>1, AppendProperties
    <3> QED BY <2>1, <3>3, <3>4
  <2> QED BY <2>2, <2>3
<1>6. Append(Queued, e) \in [1 .. cnt + 1 -> Payload]
  <2>1. Append(Queued, e) \in Seq(Payload) /\ Len(Append(Queued, e)) = cnt + 1
    BY <1>1, AppendProperties
  <2> QED BY <2>1, LenProperties
<1>7. Append(Queued, e) = [k \in 1 .. cnt + 1 |-> Append(Queued, e)[k]]
  BY <1>6
<1> QED BY <1>4, <1>5, <1>7

\* An event put when the ring is full takes the place of the oldest one.
LEMMA PutReplaces ==
  ASSUME RingType, NEW e \in Events, Insert(e), UNCHANGED taken, cnt = RingSize
  PROVE  Queued' = Append(Tail(Queued), e)
<1>1. /\ cnt \in Nat /\ cnt >= 1 /\ Queued \in Seq(Payload) /\ Len(Queued) = cnt
      /\ \A k \in 1 .. cnt : Queued[k] = events[SlotOf(k - 1)]
      /\ e \in Payload
  BY QueuedType, RingAssumption DEF Payload
<1>2. events' = [events EXCEPT ![nextWrite] = e] /\ events'[nextWrite] = e
  BY DEF Insert, RingType
<1>3. cnt' = cnt /\ \A k \in 0 .. cnt - 1 : SlotOf(k)' = SlotOf(k + 1)
  BY PutSlots
<1>4. Queued' = [k \in 1 .. cnt |-> events'[SlotOf(k - 1)']]
  BY <1>3 DEF Queued
<1>a. /\ Tail(Queued) \in Seq(Payload) /\ Len(Tail(Queued)) = cnt - 1
      /\ \A k \in 1 .. cnt - 1 : Tail(Queued)[k] = Queued[k + 1]
  <2>1. Queued # <<>>
    BY <1>1
  <2> QED BY <1>1, <2>1, HeadTailProperties
<1>5. ASSUME NEW k \in 1 .. cnt
      PROVE  events'[SlotOf(k - 1)'] = Append(Tail(Queued), e)[k]
  <2>1. k - 1 \in 0 .. cnt - 1 /\ SlotOf(k - 1)' = SlotOf(k)
    BY <1>1, <1>3
  <2>2. CASE k = cnt
    <3>1. SlotOf(k) = nextWrite
      BY <2>2, SlotFacts
    <3>2. Append(Tail(Queued), e)[k] = e
      BY <1>1, <1>a, <2>2, AppendProperties
    <3> QED BY <1>2, <2>1, <3>1, <3>2
  <2>3. CASE k # cnt
    <3>1. k \in 1 .. cnt - 1 /\ k + 1 \in 1 .. cnt /\ k \in 0 .. cnt /\ (k + 1) - 1 = k
      BY <1>1, <2>3
    <3>2. SlotOf(k) # nextWrite /\ SlotOf(k) \in Slots
      BY <3>1, SlotFacts
    <3>3. events'[SlotOf(k)] = Queued[k + 1]
      BY <1>1, <1>2, <3>1, <3>2 DEF RingType
    <3>4. Append(Tail(Queued), e)[k] = Tail(Queued)[k]
      BY <1>1, <1>a, <3>1, AppendProperties
    <3> QED BY <1>a, <2>1, <3>1, <3>3, <3>4
  <2> QED BY <2>2, <2>3
<1>6. Append(Tail(Queued), e) \in [1 .. cnt -> Payload]
  <2>1. /\ Append(Tail(Queued), e) \in Seq(Payload)
        /\ Len(Append(Tail(Queued), e)) = cnt
    BY <1>1, <1>a, AppendProperties
  <2> QED BY <2>1, LenProperties
<1>7. Append(Tail(Queued), e) = [k \in 1 .. cnt |-> Append(Tail(Queued), e)[k]]
  BY <1>6
<1> QED BY <1>4, <1>5, <1>7

\* Popping an event takes the head.
LEMMA PopTakes ==
  ASSUME RingType, PopEvent
  PROVE  Queue!Take
<1>1. /\ cnt \in Nat /\ cnt > 0 /\ Queued \in Seq(Payload) /\ Len(Queued) = cnt
      /\ \A k \in 1 .. cnt : Queued[k] = events[SlotOf(k - 1)]
  BY QueuedType, PopSlots
<1>2. Queued # <<>> /\ Head(Queued) = events[OldestIndex]
  <2>1. Queued[1] = events[SlotOf(1 - 1)] /\ 1 - 1 = 0
    BY <1>1
  <2> QED BY <1>1, <2>1, SlotFacts
<1>3. cnt' = cnt - 1 /\ \A k \in 0 .. cnt - 2 : SlotOf(k)' = SlotOf(k + 1)
  BY PopSlots
<1>4. Queued' = [k \in 1 .. cnt - 1 |-> events'[SlotOf(k - 1)']]
  BY <1>3 DEF Queued
<1>5. ASSUME NEW k \in 1 .. cnt - 1
      PROVE  events'[SlotOf(k - 1)'] = Tail(Queued)[k]
  <2>1. k - 1 \in 0 .. cnt - 2 /\ (k - 1) + 1 = k /\ k \in 0 .. cnt /\ k + 1 \in 1 .. cnt
        /\ (k + 1) - 1 = k
    BY <1>1
  <2>2. SlotOf(k - 1)' = SlotOf(k) /\ SlotOf(k) \in Slots /\ SlotOf(k) # OldestIndex
    <3>1. SlotOf(k - 1)' = SlotOf((k - 1) + 1)
      BY <1>3, <2>1
    <3> QED BY <2>1, <3>1, SlotFacts
  <2>3. events'[SlotOf(k)] = events[SlotOf(k)]
    BY <2>2 DEF PopEvent, RingType
  <2>4. Tail(Queued)[k] = Queued[k + 1]
    BY <1>1, <1>2, HeadTailProperties
  <2>5. Queued[k + 1] = events[SlotOf(k)]
    BY <1>1, <2>1
  <2> QED BY <2>2, <2>3, <2>4, <2>5
<1>6. Tail(Queued) \in [1 .. cnt - 1 -> Payload]
  <2>1. Tail(Queued) \in Seq(Payload) /\ Len(Tail(Queued)) = cnt - 1
    BY <1>1, <1>2, HeadTailProperties
  <2> QED BY <2>1, LenProperties
<1>7. Tail(Queued) = [k \in 1 .. cnt - 1 |-> Tail(Queued)[k]]
  BY <1>6
<1>8. Queued' = Tail(Queued)
  BY <1>4, <1>5, <1>7
<1> QED BY <1>2, <1>8 DEF Queue!Take, PopEvent

\* Every step is a step of the abstract queue, or leaves it alone.
LEMMA StepRefines ==
  ASSUME RingType, [Next]_vars
  PROVE  [Queue!Next]_(Queue!queueVars)
<1>1. ASSUME NEW e \in Events, Puts(e) PROVE Queue!Put(e)
  <2>1. Insert(e) /\ UNCHANGED taken
    BY <1>1, PutsInsert
  <2>2. Len(Queued) = cnt /\ cnt \in 0 .. RingSize
    BY QueuedType DEF RingType
  <2>3. CASE cnt < RingSize
    BY <2>1, <2>2, <2>3, PutAppends DEF Queue!Put
  <2>4. CASE cnt = RingSize
    <3>1. ~(Len(Queued) < RingSize)
      BY <2>2, <2>4, RingAssumption
    <3> QED BY <2>1, <2>4, <3>1, PutReplaces DEF Queue!Put
  <2> QED BY <2>2, <2>3, <2>4, RingAssumption
<1>2. CASE RingIdle
  <2>1. UNCHANGED <<events, nextWrite, cnt, taken>>
    BY <1>2, IdleKeeps
  <2> QED BY <2>1 DEF Queue!queueVars, Queued, SlotOf, OldestIndex
<1> QED BY <1>1, <1>2, PopTakes, StepKinds DEF Queue!Next

\* For every size of the ring, whatever the hooks and the application do, what
\* next_event hands out is what a bounded drop-oldest queue would hand out.
THEOREM QueueRefinement == Spec => ImplementsQueue
<1>1. Init => Queue!Init
  <2>1. Init => Queued = <<>>
    BY DEF Init, Queued
  <2> QED BY <2>1 DEF Init, Queue!Init
<1>2. RingType /\ [Next]_vars => [Queue!Next]_(Queue!queueVars)
  BY StepRefines
<1>3. Init => RingType /\ PendingValid
  BY RingInit
<1>4. (RingType /\ PendingValid) /\ [Next]_vars => (RingType /\ PendingValid)'
  BY RingStep
<1> QED BY <1>1, <1>2, <1>3, <1>4, PTL DEF Spec, ImplementsQueue, Queue!Spec
-----------------------------------------------------------------------------
(* The mutex and the has_update flags.                                     *)

\* The part of the type invariant that is about the hooks and the flags.
HookType ==
  /\ list \in Seq(Objects)
  /\ flag \in [Objects -> BOOLEAN] /\ fresh \in [Objects -> BOOLEAN]
  /\ hook \in {Idle} \cup
        ({"announce", "mark", "create", "added", "button"} \X Objects)
  /\ cursor \in Nat \ {0}

\* The inductive invariant of the flags: the list's cursor is a position of the
\* list while the application handles the object it found there.
FlagInv == HookType /\ MutexBalanced /\ CursorInv /\ NoUpdateLost

\* The first component of a hook in progress is its step.
LEMMA AtFacts ==
  ASSUME NEW step, NEW o
  PROVE  At(step, o)[1] = step /\ At(step, o)[2] = o /\ At(step, o) # Idle
BY DEF At, Idle

\* Initially no hook runs and no data is newer than what was read.
LEMMA FlagInit == Init => FlagInv
<1> SUFFICES ASSUME Init PROVE FlagInv
  OBVIOUS
<1>1. HookType
  BY DEF Init, HookType
<1>2. MutexBalanced /\ CursorInv /\ NoUpdateLost
  BY DEF Init, MutexBalanced, CursorInv, NoUpdateLost
<1> QED BY <1>1, <1>2 DEF FlagInv

\* Appending an object moves no object of the list.
LEMMA ListGrows ==
  ASSUME HookType, CursorInv, NEW o \in Objects, list' = Append(list, o),
         UNCHANGED <<app, cursor>>
  PROVE  /\ list' \in Seq(Objects)
         /\ app \in {"clear", "read"} =>
              cursor <= Len(list') /\ list'[cursor'] = list[cursor]
<1>1. /\ list \in Seq(Objects) /\ cursor \in Nat \ {0} /\ Len(list) \in Nat
  BY DEF HookType
<1>2. /\ list' \in Seq(Objects) /\ Len(list') = Len(list) + 1
      /\ \A i \in 1 .. Len(list) : list'[i] = list[i]
  BY <1>1, AppendProperties
<1>3. ASSUME app \in {"clear", "read"} PROVE cursor \in 1 .. Len(list)
  BY <1>1, <1>3 DEF CursorInv
<1> QED BY <1>1, <1>2, <1>3

\* No step of the hooks breaks the invariant.
LEMMA HookKeepsFlags ==
  ASSUME FlagInv, NEW o \in Objects,
         \/ InitObject(o) \/ \E p \in BOOLEAN : InitLighthouse(o, p)
         \/ NewObject(o) \/ Announce(o)
         \/ Publish(o) \/ CreateExternal(o) \/ CreateLighthouse(o)
         \/ LighthouseAdded(o) \/ Mark(o)
         \/ ButtonMark(o) \/ ButtonInsert(o) \/ Config(o)
  PROVE  FlagInv'
<1> USE DEF At, Idle
<1>a. HookType /\ MutexBalanced /\ CursorInv /\ NoUpdateLost
  BY DEF FlagInv
<1>1. CASE InitObject(o)
  <2>1. UNCHANGED <<flag, fresh, depth, hook, app, cursor>> /\ list' = Append(list, o)
    BY <1>1 DEF InitObject, appVars
  <2> QED BY <1>a, <2>1, ListGrows
          DEF FlagInv, HookType, MutexBalanced, CursorInv, NoUpdateLost
<1>2. ASSUME NEW p \in BOOLEAN, InitLighthouse(o, p) PROVE FlagInv'
  <2>1. /\ UNCHANGED <<depth, hook, app, cursor>> /\ list' = Append(list, o)
        /\ flag' = [flag EXCEPT ![o] = p] /\ fresh' = [fresh EXCEPT ![o] = p]
    BY <1>2 DEF InitLighthouse, appVars
  <2> QED BY <1>a, <2>1, ListGrows
          DEF FlagInv, HookType, MutexBalanced, CursorInv, NoUpdateLost
<1>3. CASE NewObject(o)
  <2>1. /\ UNCHANGED <<flag, fresh, depth, app, cursor>> /\ list' = Append(list, o)
        /\ hook = Idle /\ hook' = At("announce", o)
    BY <1>3 DEF NewObject, appVars
  <2> QED BY <1>a, <2>1, ListGrows
          DEF FlagInv, HookType, MutexBalanced, CursorInv, NoUpdateLost
<1>4. CASE Announce(o)
  <2>1. /\ UNCHANGED <<list, flag, fresh, depth, app, cursor>>
        /\ hook = At("announce", o) /\ hook' = Idle
    BY <1>4 DEF Announce, appVars, EndHook
  <2> QED BY <1>a, <2>1
          DEF FlagInv, HookType, MutexBalanced, CursorInv, NoUpdateLost
<1>5. CASE Publish(o)
  <2>1. /\ UNCHANGED <<list, flag, app, cursor>>
        /\ hook = Idle /\ hook' \in {At("mark", o), At("create", o)}
        /\ depth' = depth + 1 /\ fresh' = [fresh EXCEPT ![o] = TRUE]
    BY <1>5 DEF Publish, appVars, Lock
  <2> QED BY <1>a, <2>1
          DEF FlagInv, HookType, MutexBalanced, CursorInv, NoUpdateLost
<1>6. CASE CreateExternal(o)
  <2>1. /\ UNCHANGED <<flag, fresh, depth, app, cursor>> /\ list' = Append(list, o)
        /\ hook = At("create", o) /\ hook' = At("mark", o)
    BY <1>6 DEF CreateExternal, appVars
  <2> QED BY <1>a, <2>1, ListGrows
          DEF FlagInv, HookType, MutexBalanced, CursorInv, NoUpdateLost
<1>7. CASE CreateLighthouse(o)
  <2>1. /\ UNCHANGED <<fresh, app, cursor>> /\ list' = Append(list, o)
        /\ hook = At("create", o) /\ hook' = At("added", o)
        /\ depth' = depth + 1
        /\ \E p \in BOOLEAN : flag' = [flag EXCEPT ![o] = p]
    BY <1>7 DEF CreateLighthouse, appVars, Lock
  <2> QED BY <1>a, <2>1, ListGrows
          DEF FlagInv, HookType, MutexBalanced, CursorInv, NoUpdateLost
<1>8. CASE LighthouseAdded(o)
  <2>1. /\ UNCHANGED <<list, flag, fresh, app, cursor>>
        /\ hook = At("added", o) /\ hook' = At("mark", o) /\ depth' = depth - 1
    BY <1>8 DEF LighthouseAdded, appVars, Unlock
  <2> QED BY <1>a, <2>1
          DEF FlagInv, HookType, MutexBalanced, CursorInv, NoUpdateLost
<1>9. CASE Mark(o)
  <2>1. /\ UNCHANGED <<list, fresh, app, cursor>> /\ depth' = depth - 1
        /\ hook = At("mark", o) /\ hook' = Idle /\ flag' = [flag EXCEPT ![o] = TRUE]
    BY <1>9 DEF Mark, appVars, Unlock, EndHook
  <2> QED BY <1>a, <2>1
          DEF FlagInv, HookType, MutexBalanced, CursorInv, NoUpdateLost
<1>10. CASE ButtonMark(o)
  <2>1. /\ UNCHANGED <<list, fresh, app, cursor>> /\ depth' = depth + 1
        /\ hook = Idle /\ hook' = At("button", o) /\ flag' = [flag EXCEPT ![o] = TRUE]
    BY <1>10 DEF ButtonMark, appVars, Lock
  <2> QED BY <1>a, <2>1
          DEF FlagInv, HookType, MutexBalanced, CursorInv, NoUpdateLost
<1>11. CASE ButtonInsert(o)
  <2>1. /\ UNCHANGED <<list, flag, fresh, app, cursor>> /\ depth' = depth - 1
        /\ hook = At("button", o) /\ hook' = Idle
    BY <1>11 DEF ButtonInsert, appVars, Unlock, EndHook
  <2> QED BY <1>a, <2>1
          DEF FlagInv, HookType, MutexBalanced, CursorInv, NoUpdateLost
<1>12. CASE Config(o)
  <2>1. UNCHANGED <<list, flag, fresh, depth, hook, app, cursor>>
    BY <1>12 DEF Config, appVars
  <2> QED BY <1>a, <2>1
          DEF FlagInv, HookType, MutexBalanced, CursorInv, NoUpdateLost
<1> QED BY <1>1, <1>2, <1>3, <1>4, <1>5, <1>6, <1>7, <1>8, <1>9, <1>10, <1>11, <1>12

\* No step of the application or of the thread's own breaks it either.
LEMMA AppKeepsFlags ==
  ASSUME FlagInv,
         \/ InitDone \/ LeavePoll \/ ThreadEnd \/ StartThread \/ StopThread
         \/ Joined \/ WaitForEvent \/ WaitOver \/ NextEvent \/ Close
         \/ UNCHANGED vars
  PROVE  FlagInv'
<1>a. HookType /\ MutexBalanced /\ CursorInv /\ NoUpdateLost
  BY DEF FlagInv
<1>b. ASSUME UNCHANGED <<list, flag, fresh, depth, hook>>,
             cursor' \in Nat \ {0}, app' \notin {"clear", "read"},
             app \notin {"clear", "read"}
      PROVE  FlagInv'
  BY <1>a, <1>b DEF FlagInv, HookType, MutexBalanced, CursorInv, NoUpdateLost
<1>c. cursor \in Nat \ {0} /\ cursor + 1 \in Nat \ {0} /\ 1 \in Nat \ {0}
  BY <1>a DEF HookType
<1>1. CASE InitDone \/ StopThread \/ Joined \/ WaitForEvent \/ WaitOver \/ Close
  BY <1>1, <1>b, <1>c
     DEF InitDone, StopThread, Joined, WaitForEvent, WaitOver, Close
<1>2. CASE LeavePoll \/ ThreadEnd \/ StartThread \/ UNCHANGED vars
  <2>1. UNCHANGED <<list, flag, fresh, depth, hook, app, cursor>>
    BY <1>2 DEF LeavePoll, ThreadEnd, StartThread, vars, appVars
  <2> QED BY <1>a, <2>1
          DEF FlagInv, HookType, MutexBalanced, CursorInv, NoUpdateLost
<1>3. CASE PopEvent \/ PopNothing \/ ScanPast \/ ScanEnd
  BY <1>3, <1>b, <1>c DEF PopEvent, PopNothing, ScanPast, ScanEnd, Scanning
<1>4. CASE ScanHit
  <2>1. /\ UNCHANGED <<list, flag, fresh, depth, hook, cursor>>
        /\ app \notin {"clear", "read"} /\ app' = "clear" /\ cursor <= Len(list)
    BY <1>4 DEF ScanHit, Scanning
  <2> QED BY <1>a, <2>1
          DEF FlagInv, HookType, MutexBalanced, CursorInv, NoUpdateLost
<1>5. CASE ClearFlag
  <2>1. /\ UNCHANGED <<list, fresh, depth, hook, cursor>>
        /\ app = "clear" /\ app' = "read"
        /\ flag' = [flag EXCEPT ![list[cursor]] = FALSE]
    BY <1>5 DEF ClearFlag
  <2> QED BY <1>a, <2>1
          DEF FlagInv, HookType, MutexBalanced, CursorInv, NoUpdateLost
<1>6. CASE ReadPose
  <2>1. /\ UNCHANGED <<list, flag, depth, hook>> /\ cursor' = 1
        /\ app = "read" /\ app' = "idle"
        /\ fresh' = [fresh EXCEPT ![list[cursor]] = FALSE]
    BY <1>6 DEF ReadPose
  <2> QED BY <1>a, <2>1
          DEF FlagInv, HookType, MutexBalanced, CursorInv, NoUpdateLost
<1> QED BY <1>1, <1>2, <1>3, <1>4, <1>5, <1>6 DEF NextEvent

\* No step breaks the invariant of the flags.
LEMMA FlagStep == FlagInv /\ [Next]_vars => FlagInv'
BY HookKeepsFlags, AppKeepsFlags DEF Next, HookStep

\* Whatever the objects, no update is lost to the unlocked use of has_update.
THEOREM UpdatesSurvive == Spec => []NoUpdateLost
<1>1. FlagInv => NoUpdateLost
  BY DEF FlagInv
<1> QED BY <1>1, FlagInit, FlagStep, PTL DEF Spec

\* The hooks give back every level of poll_mutex they take.
THEOREM MutexGivenBack == Spec => []MutexBalanced
<1>1. FlagInv => MutexBalanced
  BY DEF FlagInv
<1> QED BY <1>1, FlagInit, FlagStep, PTL DEF Spec
-----------------------------------------------------------------------------
(* Shutdown.                                                               *)

\* No step of the thread or of the application breaks the thread's invariant.
LEMMA ThreadStep == ThreadInv /\ [Next]_vars => ThreadInv'
<1> SUFFICES ASSUME ThreadInv, [Next]_vars PROVE ThreadInv'
  OBVIOUS
<1> USE DEF ThreadInv
<1>1. ASSUME NEW o \in Objects,
             InitObject(o) \/ (\E p \in BOOLEAN : InitLighthouse(o, p)) PROVE ThreadInv'
  BY <1>1 DEF InitObject, InitLighthouse, appVars
<1>2. ASSUME NEW o \in Objects,
             NewObject(o) \/ Publish(o) \/ ButtonMark(o) \/ Config(o) PROVE ThreadInv'
  BY <1>2 DEF NewObject, Publish, ButtonMark, Config, appVars, Polling
<1>3. ASSUME NEW o \in Objects,
             \/ Announce(o) \/ CreateExternal(o) \/ CreateLighthouse(o)
             \/ LighthouseAdded(o) \/ Mark(o) \/ ButtonInsert(o)
      PROVE ThreadInv'
  BY <1>3 DEF Announce, CreateExternal, CreateLighthouse, LighthouseAdded, Mark,
              ButtonInsert, appVars, At, Idle, EndHook
<1>4. CASE InitDone \/ LeavePoll \/ ThreadEnd \/ StartThread \/ StopThread \/ Joined
  BY <1>4 DEF InitDone, LeavePoll, ThreadEnd, StartThread, StopThread, Joined,
              appVars, Polling
<1>5. CASE WaitForEvent \/ WaitOver \/ Close
  BY <1>5 DEF WaitForEvent, WaitOver, Close
<1>6. CASE NextEvent
  BY <1>6 DEF NextEvent, PopEvent, PopNothing, ScanPast, ScanHit, ClearFlag,
              ReadPose, ScanEnd, Scanning
<1>7. CASE UNCHANGED vars
  BY <1>7 DEF vars, appVars
<1> QED BY <1>1, <1>2, <1>3, <1>4, <1>5, <1>6, <1>7 DEF Next, HookStep

\* A shutdown is reported only when the thread and its hooks have ended.
THEOREM ShutdownsAreReal == Spec => []ShutdownAfterThread
<1>1. Init => ThreadInv
  BY DEF Init, ThreadInv
<1>2. ThreadInv => ShutdownAfterThread
  BY DEF ThreadInv, ShutdownAfterThread
<1> QED BY <1>1, <1>2, ThreadStep, PTL DEF Spec
-----------------------------------------------------------------------------
(* Types.                                                                  *)

\* The part of the type invariant that is about the two threads.
ControlType ==
  /\ running \in BOOLEAN
  /\ thread \in {"none", "polling", "leaving", "done"}
  /\ app \in {"init", "idle", "waiting", "waited", "scan", "waitscan", "clear",
              "read", "join", "closed"}
  /\ result \in {"None", "NoneAfterWait", "Event", "Update", "Shutdown"}

\* Every step keeps both threads at one of their places.
LEMMA ControlStep == ControlType /\ [Next]_vars => ControlType'
<1> SUFFICES ASSUME ControlType, [Next]_vars PROVE ControlType'
  OBVIOUS
<1> USE DEF ControlType
<1>1. ASSUME NEW o \in Objects,
             InitObject(o) \/ (\E p \in BOOLEAN : InitLighthouse(o, p)) PROVE ControlType'
  BY <1>1 DEF InitObject, InitLighthouse, appVars
<1>2. ASSUME NEW o \in Objects,
             \/ NewObject(o) \/ Announce(o) \/ Publish(o) \/ CreateExternal(o)
             \/ CreateLighthouse(o) \/ LighthouseAdded(o) \/ Mark(o)
             \/ ButtonMark(o) \/ ButtonInsert(o) \/ Config(o)
      PROVE ControlType'
  BY <1>2 DEF NewObject, Announce, Publish, CreateExternal, CreateLighthouse,
              LighthouseAdded, Mark, ButtonMark, ButtonInsert, Config, appVars
<1>3. CASE InitDone \/ LeavePoll \/ ThreadEnd \/ StartThread \/ StopThread \/ Joined
  BY <1>3 DEF InitDone, LeavePoll, ThreadEnd, StartThread, StopThread, Joined, appVars
<1>4. CASE WaitForEvent \/ WaitOver \/ Close \/ UNCHANGED vars
  BY <1>4 DEF WaitForEvent, WaitOver, Close, vars, appVars
<1>5. CASE NextEvent
  BY <1>5 DEF NextEvent, PopEvent, PopNothing, ScanPast, ScanHit, ClearFlag,
              ReadPose, ScanEnd
<1> QED BY <1>1, <1>2, <1>3, <1>4, <1>5 DEF Next, HookStep

\* Types, with the levels of the mutex bounded by the balance of the hooks.
THEOREM TypeCorrect == Spec => []TypeOK
<1>1. Init => ControlType
  BY DEF Init, ControlType
<1>2. (RingType /\ PendingValid) /\ [Next]_vars => (RingType /\ PendingValid)'
  BY RingStep
<1>3. Init => RingType /\ PendingValid
  BY RingInit
<1>4. RingType /\ FlagInv /\ ControlType => TypeOK
  <2> SUFFICES ASSUME RingType, FlagInv, ControlType PROVE TypeOK
    OBVIOUS
  <2>1. depth \in 0 .. 2
    BY DEF FlagInv, MutexBalanced
  <2> QED BY <2>1 DEF RingType, FlagInv, HookType, ControlType, TypeOK
<1> QED BY <1>1, <1>2, <1>3, <1>4, ControlStep, FlagInit, FlagStep, PTL DEF Spec
=============================================================================
