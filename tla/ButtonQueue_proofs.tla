------------------------ MODULE ButtonQueue_proofs ------------------------
(***************************************************************************)
(* Proofs about ButtonQueue, for every number of devices, buttons, axes    *)
(* and ring slots.                                                         *)
(***************************************************************************)
EXTENDS ButtonQueue, SequenceTheorems, TLAPS

\* What the main thread's place says of the context's state and of the lock.
PhaseInv ==
  /\ state \in {"running", "closing"}
  /\ mpc \in {"poll", "sleep"} => state = "running"
  /\ mpc \in {"signal", "join", "drivers", "done"} => state = "closing"
  /\ ~semLive => state = "closing" /\ spc \in {"exited", "died"}
  /\ ~semLive => mpc \notin {"signal", "join"}
  /\ mpc = "drivers" => ~semLive
  /\ state = "closing" /\ mpc = "report" => ~semLive
  /\ lock = "servicer" <=> spc = "hook"
  /\ lock = "main" <=> mpc # "sleep"

\* The entry being served lies between the indices.
ServedInWindow == spc \in {"lock", "hook", "advance"} => nextRead # nextWrite

\* A ring that was overrun counts as empty.
OverrunEmpty == mpc = "overrun" => nextWrite = 0 /\ nextRead \in {0, QLen}

RingInv ==
  /\ WindowPopulated /\ SemaphoreCountsEvents /\ ServicerSurvives
  /\ ServedInWindow /\ OverrunEmpty

\* The inductive invariant: the ring's conditions need the phases, since the
\* semaphore's count depends on whether survive_close has posted its wake-up.
IInv == TypeOK /\ PhaseInv /\ RingInv

\* The index after a slot is a slot, and another one.
LEMMA AfterSlot ==
  ASSUME NEW s \in Slots
  PROVE  After(s) \in Slots /\ After(s) # s
BY QueueAssumption DEF After, Slots

\* A device event made of a report is an event.
LEMMA NewEventType ==
  ASSUME TypeOK, mpc = "report", NEW i \in Items
  PROVE  NewEvent(i) \in Events
<1>1. report \in Objects \X Reports
  BY DEF TypeOK
<1>2. report[1] \in Objects /\ report[2][i] \in Values
  BY <1>1 DEF Reports
<1> QED BY <1>2 DEF NewEvent, Events

\* The initial state is type correct.
LEMMA InitTyped == Init => TypeOK
<1> SUFFICES ASSUME Init PROVE TypeOK
  OBVIOUS
<1>1. 0 \in Slots /\ 0 \in Values /\ 0 \in 0 .. 2 * NButtons + NAxes /\ 0 \in 0 .. QLen
  BY QueueAssumption DEF Slots, Values
<1>2. entry \in [Slots -> Entries]
  BY DEF Init, Blank, Entries
<1>3. known \in [Objects -> Reports]
  BY <1>1 DEF Init, Reports
<1>4. nextRead \in (IF spc = "wrap" THEN {QLen} ELSE Slots)
  BY <1>1 DEF Init
<1>5. out \in Seq(Events \cup {<<>>})
  BY DEF Init
<1>6. report \in {<<>>} \cup (Objects \X Reports) /\ mpc # "report"
  BY DEF Init
<1> QED BY <1>1, <1>2, <1>3, <1>4, <1>5, <1>6 DEF Init, TypeOK

\* No step breaks the type invariant.
LEMMA StepTyped ==
  ASSUME TypeOK, [Next]_vars
  PROVE  TypeOK'
<1> USE QueueAssumption
<1>0. Blank \in Entries
  BY DEF Blank, Entries
<1>a. nextRead \in Slots \/ spc = "wrap"
  BY DEF TypeOK
<1>b. ASSUME NEW i \in Items PROVE i + 1 \in 0 .. 2 * NButtons + NAxes
  BY DEF Items
<1>1. ASSUME NEW so \in Objects, NEW r \in Reports, BeginReport(so, r) PROVE TypeOK'
  <2>1. entry' \in [Slots -> Entries]
    BY <1>0, <1>1 DEF TypeOK, BeginReport
  <2> QED BY <1>1, <2>1 DEF TypeOK, BeginReport
<1>2. ASSUME NEW i \in Items, PostAccepted(i) PROVE TypeOK'
  <2>1. mpc = "report" /\ report \in Objects \X Reports
    BY <1>2 DEF TypeOK, PostAccepted, NextItem
  <2>2. [populated |-> TRUE, event |-> NewEvent(i)] \in Entries
    BY <2>1, NewEventType DEF Entries
  <2>3. entry' \in [Slots -> Entries]
    BY <1>0, <1>2, <2>2, AfterSlot DEF TypeOK, PostAccepted
  <2>4. known' \in [Objects -> Reports]
    BY <1>2, <2>1 DEF TypeOK, PostAccepted, Remember, Reports
  <2>5. nextWrite' \in Slots
    BY <1>2, AfterSlot DEF TypeOK, PostAccepted
  <2>6. pos' \in 0 .. 2 * NButtons + NAxes /\ sem' \in Nat
    BY <1>2, <1>b DEF TypeOK, PostAccepted
  <2>7. UNCHANGED <<state, lock, nextRead, semLive, spc, mpc, report, entryOk, out>>
    BY <1>2 DEF PostAccepted
  <2> QED BY <2>3, <2>4, <2>5, <2>6, <2>7 DEF TypeOK
<1>3. ASSUME NEW i \in Items, PostFull(i) PROVE TypeOK'
  <2>1. mpc = "report" /\ report \in Objects \X Reports
    BY <1>3 DEF TypeOK, PostFull, NextItem
  <2>2. entry' \in [Slots -> Entries]
    BY <1>0, <1>3 DEF TypeOK, PostFull
  <2>3. known' \in [Objects -> Reports]
    BY <1>3, <2>1 DEF TypeOK, PostFull, Remember, Reports
  <2> QED BY <1>3, <1>b, <2>2, <2>3 DEF TypeOK, PostFull
<1>4. ASSUME NEW i \in Items, PostAfterClose(i) PROVE TypeOK'
  BY <1>4, <1>b DEF TypeOK, PostAfterClose, ring
<1>5. ASSUME NEW i \in Items, PostThroughNull(i) PROVE TypeOK'
  BY <1>5 DEF TypeOK, PostThroughNull, NextItem, ring
<1>5a. ASSUME NEW i \in Items, PostOverrun(i) PROVE TypeOK'
  <2>1. mpc = "report" /\ report \in Objects \X Reports
    BY <1>5a DEF TypeOK, PostOverrun, NextItem
  <2>2. [populated |-> TRUE, event |-> NewEvent(i)] \in Entries
    BY <2>1, NewEventType DEF Entries
  <2>3. entry' \in [Slots -> Entries]
    BY <1>0, <1>5a, <2>2, AfterSlot DEF TypeOK, PostOverrun
  <2>4. known' \in [Objects -> Reports]
    BY <1>5a, <2>1 DEF TypeOK, PostOverrun, Remember, Reports
  <2>5. nextWrite' \in Slots
    BY <1>5a, AfterSlot DEF TypeOK, PostOverrun
  <2>6. pos' \in 0 .. 2 * NButtons + NAxes /\ sem' \in Nat /\ mpc' = "overrun"
    BY <1>5a, <1>b DEF TypeOK, PostOverrun
  <2>7. UNCHANGED <<state, lock, nextRead, semLive, spc, report, entryOk, out>>
    BY <1>5a DEF PostOverrun
  <2> QED BY <2>3, <2>4, <2>5, <2>6, <2>7 DEF TypeOK
<1>6. CASE EndReport
  <2>1. mpc' \in {"poll", "drivers"} /\ 0 \in 0 .. 2 * NButtons + NAxes
    BY <1>6 DEF EndReport
  <2> QED BY <1>6, <2>1 DEF TypeOK, EndReport, ring
<1>7. CASE PollRelease
  BY <1>7 DEF TypeOK, PollRelease, ring
<1>8. CASE PollReacquire
  BY <1>8 DEF TypeOK, PollReacquire, ring
<1>9. CASE CloseBegin
  BY <1>9 DEF TypeOK, CloseBegin, ring
<1>10. CASE CloseSignal
  BY <1>10 DEF TypeOK, CloseSignal
<1>11. CASE CloseJoined
  BY <1>11 DEF TypeOK, CloseJoined
<1>12. CASE CloseDone
  BY <1>12 DEF TypeOK, CloseDone, ring
<1>13. CASE ServeWait
  BY <1>13 DEF TypeOK, ServeWait, mainVars
<1>14. CASE ServeStop \/ ServeUnpopulated \/ ServeEntry
  BY <1>14 DEF TypeOK, ServeStop, ServeUnpopulated, ServeEntry, ring, mainVars
<1>15. CASE ServeLock
  BY <1>15 DEF TypeOK, ServeLock, ring, mainVars
<1>16. CASE ServeHook
  <2>1. entry[nextRead].event \in Events \cup {<<>>}
    BY <1>16, <1>a DEF TypeOK, Entries, ServeHook
  <2>2. out' \in Seq(Events \cup {<<>>})
    BY <1>16, <2>1 DEF ServeHook
  <2> QED BY <1>16, <2>2 DEF TypeOK, ServeHook, ring, mainVars
<1>17. CASE ServeAdvance
  BY <1>17, <1>a, AfterSlot DEF TypeOK, ServeAdvance, mainVars
<1>18. CASE ServeAdvancePastEnd
  <2>1. nextRead' = QLen
    BY <1>18, <1>a DEF ServeAdvancePastEnd, Slots
  <2> QED BY <1>18, <2>1 DEF TypeOK, ServeAdvancePastEnd, mainVars
<1>19. CASE ServeWrap
  <2>1. 0 \in Slots
    BY DEF Slots
  <2> QED BY <1>19, <2>1 DEF TypeOK, ServeWrap, mainVars
<1>20. CASE UNCHANGED vars
  BY <1>20 DEF TypeOK, vars, ring, mainVars
<1> QED
  BY <1>1, <1>2, <1>3, <1>4, <1>5, <1>5a, <1>6, <1>7, <1>8, <1>9, <1>10, <1>11,
     <1>12, <1>13, <1>14, <1>15, <1>16, <1>17, <1>18, <1>19, <1>20
     DEF Next, Post, Serve

\* The lock and the context's state follow the main thread's place.
LEMMA StepPhase ==
  ASSUME PhaseInv, [Next]_vars
  PROVE  PhaseInv'
<1>1. ASSUME NEW so \in Objects, NEW r \in Reports, BeginReport(so, r) PROVE PhaseInv'
  BY <1>1 DEF PhaseInv, BeginReport
<1>2. ASSUME NEW i \in Items,
             \/ PostAccepted(i) \/ PostOverrun(i) \/ PostFull(i)
             \/ PostAfterClose(i) \/ PostThroughNull(i)
      PROVE PhaseInv'
  BY <1>2 DEF PhaseInv, PostAccepted, PostOverrun, PostFull, PostAfterClose,
              PostThroughNull, NextItem, ring
<1>3. CASE EndReport
  BY <1>3 DEF PhaseInv, EndReport, ring
<1>4. CASE PollRelease \/ PollReacquire \/ CloseBegin \/ CloseSignal \/ CloseJoined \/ CloseDone
  BY <1>4 DEF PhaseInv, PollRelease, PollReacquire, CloseBegin, CloseSignal,
              CloseJoined, CloseDone, ring
<1>5. CASE Serve
  BY <1>5 DEF PhaseInv, Serve, ServeWait, ServeStop, ServeUnpopulated, ServeEntry,
              ServeLock, ServeHook, ServeAdvance, ServeAdvancePastEnd, ServeWrap, Alive,
              ring, mainVars
<1>6. CASE UNCHANGED vars
  BY <1>6 DEF PhaseInv, vars, ring, mainVars
<1> QED
  BY <1>1, <1>2, <1>3, <1>4, <1>5, <1>6 DEF Next, Post

\* Steps that leave the ring, and the thread's claim on it, as they were.
LEMMA RingUnchanged ==
  ASSUME RingInv, UNCHANGED ring, UNCHANGED spc,
         mpc' = "join" <=> mpc = "join",
         mpc' = "overrun" <=> mpc = "overrun"
  PROVE  RingInv'
BY DEF RingInv, WindowPopulated, SemaphoreCountsEvents, ServicerSurvives, ServedInWindow,
       OverrunEmpty, ring, InWindow, EventCount, Serving

\* No step of either thread breaks the ring's invariant.
LEMMA StepRing ==
  ASSUME TypeOK, PhaseInv, RingInv, [Next]_vars
  PROVE  RingInv'
<1> USE QueueAssumption
<1>a. /\ nextRead \in 0 .. QLen /\ nextWrite \in Slots /\ sem \in Nat
      /\ entry \in [Slots -> Entries]
      /\ nextRead = QLen <=> spc = "wrap"
  BY DEF TypeOK, Slots
<1> USE <1>a DEF RingInv, ServedInWindow, OverrunEmpty
<1>1. ASSUME NEW so \in Objects, NEW r \in Reports, BeginReport(so, r) PROVE RingInv'
  <2>1. WindowPopulated'
    BY <1>1 DEF BeginReport, WindowPopulated, InWindow, Blank, Slots
  <2> QED BY <1>1, <2>1 DEF BeginReport, SemaphoreCountsEvents, ServicerSurvives, EventCount,
                        Serving
<1>2. ASSUME NEW i \in Items, PostAccepted(i) PROVE RingInv'
  <2>0. After(nextWrite) \in Slots /\ After(nextWrite) # nextWrite
    BY AfterSlot
  <2>1. WindowPopulated'
    <3>1. ASSUME NEW s \in Slots, InWindow(s)'
          PROVE  s # After(nextWrite) /\ (s = nextWrite \/ InWindow(s))
      BY <1>2, <3>1 DEF PostAccepted, InWindow, Slots, After, Full, Overruns
    <3>2. entry'[nextWrite].populated /\ ~entry'[After(nextWrite)].populated
      BY <1>2, <2>0 DEF PostAccepted, Blank
    <3>3. \A s \in Slots : s # nextWrite /\ s # After(nextWrite) => entry'[s] = entry[s]
      BY <1>2, <2>0 DEF PostAccepted
    <3> QED BY <1>2, <2>0, <3>1, <3>2, <3>3 DEF PostAccepted, WindowPopulated
  <2>2. EventCount' = EventCount + 1
    BY <1>2 DEF PostAccepted, EventCount, Slots, After, Full, Overruns
  <2>3. EventCount \in Int
    BY DEF EventCount, Slots
  <2>4. nextRead # nextWrite'
    BY <1>2 DEF PostAccepted, Full
  <2> QED BY <1>2, <2>1, <2>2, <2>3, <2>4 DEF PostAccepted, NextItem, SemaphoreCountsEvents,
                                     ServicerSurvives, Serving
<1>3. ASSUME NEW i \in Items, PostFull(i) PROVE RingInv'
  <2>1. WindowPopulated'
    BY <1>3 DEF PostFull, WindowPopulated, InWindow, Blank, Slots
  <2> QED BY <1>3, <2>1 DEF PostFull, SemaphoreCountsEvents, ServicerSurvives, EventCount,
                        Serving
<1>4. ASSUME NEW i \in Items, PostAfterClose(i) \/ PostThroughNull(i)
      PROVE RingInv'
  BY <1>4, RingUnchanged DEF PostAfterClose, PostThroughNull, NextItem
<1>4a. ASSUME NEW i \in Items, PostOverrun(i) PROVE RingInv'
  <2>1. nextRead' = QLen /\ nextWrite' = 0 /\ mpc' = "overrun" /\ spc' = "wrap"
    BY <1>4a DEF PostOverrun, Overruns
  <2>2. ~entry'[0].populated
    BY <1>4a, <2>1 DEF PostOverrun, Overruns, Blank, Slots
  <2> QED BY <2>1, <2>2 DEF WindowPopulated, InWindow, SemaphoreCountsEvents,
                            ServicerSurvives, Slots
<1>5. CASE EndReport
  BY <1>5, RingUnchanged DEF EndReport
<1>6. CASE PollRelease \/ PollReacquire \/ CloseBegin \/ CloseDone
  BY <1>6, RingUnchanged DEF PollRelease, PollReacquire, CloseBegin, CloseDone
<1>7. CASE CloseSignal
  BY <1>7 DEF CloseSignal, WindowPopulated, SemaphoreCountsEvents, ServicerSurvives,
              EventCount, InWindow, Serving, Slots
<1>8. CASE CloseJoined
  BY <1>8 DEF CloseJoined, WindowPopulated, SemaphoreCountsEvents, ServicerSurvives,
              InWindow, Serving
<1>9. CASE ServeWait
  BY <1>9 DEF ServeWait, mainVars, WindowPopulated, SemaphoreCountsEvents,
              ServicerSurvives, EventCount, InWindow, Serving, PhaseInv, Slots
<1>10. CASE ServeStop
  BY <1>10 DEF ServeStop, ring, mainVars, WindowPopulated, SemaphoreCountsEvents,
               ServicerSurvives, EventCount, InWindow, Serving
<1>11. CASE ServeUnpopulated
  \* Only after an overrun: the thread holds a token, so the window is not empty.
  <2>0. CASE mpc = "overrun"
    BY <1>11, <2>0 DEF ServeUnpopulated, ring, mainVars, WindowPopulated, InWindow,
                       SemaphoreCountsEvents, ServicerSurvives
  <2> SUFFICES ASSUME mpc # "overrun" PROVE FALSE
    BY <2>0
  <2>1. semLive /\ mpc # "join" /\ Serving /\ spc \notin {"exited", "died"}
    BY <1>11 DEF ServeUnpopulated, PhaseInv, Serving
  <2>2. EventCount >= 1
    BY <2>1 DEF SemaphoreCountsEvents, EventCount, Slots
  <2>3. InWindow(nextRead)
    BY <2>2 DEF InWindow, EventCount, Slots
  <2>4. nextRead \in Slots
    BY <1>11 DEF ServeUnpopulated, Slots
  <2> QED BY <1>11, <2>3, <2>4 DEF ServeUnpopulated, WindowPopulated
<1>12a. CASE ServeEntry
  <2>1. nextRead # nextWrite
    BY <1>12a DEF ServeEntry, WindowPopulated
  <2> QED BY <1>12a, <2>1 DEF ServeEntry, ring, mainVars, WindowPopulated, Slots,
                 SemaphoreCountsEvents, ServicerSurvives, EventCount, InWindow, Serving
<1>12. CASE ServeLock \/ ServeHook
  BY <1>12 DEF ServeLock, ServeHook, ring, mainVars, WindowPopulated,
               SemaphoreCountsEvents, ServicerSurvives, EventCount, InWindow, Serving
<1>13. CASE ServeAdvance
  <2>1. nextRead # nextWrite
    BY <1>13 DEF ServeAdvance, ServedInWindow
  <2>2. EventCount' = EventCount - 1
    BY <1>13, <2>1 DEF ServeAdvance, EventCount, After, Slots
  <2>3. WindowPopulated'
    BY <1>13, <2>1 DEF ServeAdvance, WindowPopulated, InWindow, After, Slots
  <2>4. EventCount \in Int
    BY DEF EventCount, Slots
  <2> QED BY <1>13, <2>2, <2>3, <2>4 DEF ServeAdvance, mainVars, SemaphoreCountsEvents,
                                 ServicerSurvives, Serving
<1>14. CASE ServeAdvancePastEnd
  <2>1. nextRead # nextWrite /\ nextRead = QLen - 1 /\ nextRead' = QLen
    BY <1>14 DEF ServeAdvancePastEnd, ServedInWindow
  <2>2. EventCount' = EventCount - 1
    BY <1>14, <2>1 DEF ServeAdvancePastEnd, EventCount, Slots
  <2>3. WindowPopulated'
    BY <1>14, <2>1 DEF ServeAdvancePastEnd, WindowPopulated, InWindow, Slots
  <2>4. EventCount \in Int
    BY DEF EventCount, Slots
  <2> QED BY <1>14, <2>2, <2>3, <2>4 DEF ServeAdvancePastEnd, mainVars,
                             SemaphoreCountsEvents, ServicerSurvives, Serving
<1>15. CASE ServeWrap
  <2>1. EventCount' = EventCount
    BY <1>15 DEF ServeWrap, EventCount, Slots
  <2>2. WindowPopulated'
    BY <1>15 DEF ServeWrap, WindowPopulated, InWindow, Slots
  <2> QED BY <1>15, <2>1, <2>2 DEF ServeWrap, mainVars, SemaphoreCountsEvents,
                                   ServicerSurvives, Serving
<1>16. CASE UNCHANGED vars
  BY <1>16, RingUnchanged DEF vars, mainVars
<1> QED
  BY <1>1, <1>2, <1>3, <1>4, <1>4a, <1>5, <1>6, <1>7, <1>8, <1>9, <1>10, <1>11,
     <1>12, <1>12a, <1>13, <1>14, <1>15, <1>16 DEF Next, Post, Serve

\* The initial ring is empty, and its semaphore is zero.
LEMMA InitIInv == Init => IInv
<1> SUFFICES ASSUME Init PROVE IInv
  OBVIOUS
<1>1. TypeOK
  BY InitTyped
<1>2. PhaseInv
  BY DEF Init, PhaseInv
<1>3. RingInv
  BY QueueAssumption DEF Init, RingInv, WindowPopulated, SemaphoreCountsEvents,
     ServicerSurvives, ServedInWindow, OverrunEmpty, InWindow, EventCount, Serving, Blank, Slots
<1> QED BY <1>1, <1>2, <1>3 DEF IInv

\* The conjunction of the typing, the phases and the ring is inductive.
THEOREM Invariance == Spec => []IInv
<1>1. IInv /\ [Next]_vars => IInv'
  BY StepTyped, StepPhase, StepRing DEF IInv
<1> QED BY InitIInv, <1>1, PTL DEF Spec

\* Every variable keeps its type (ButtonQueue of survive.h, ctx->state, the
\* masks of a device), whether the read index wraps in one store or in two.
THEOREM TypeCorrect == Spec => []TypeOK
<1>1. IInv => TypeOK
  BY DEF IInv
<1> QED BY Invariance, <1>1, PTL

\* The slots between the indices of the ring are posted events and the slot
\* written next is none of them, whatever the two threads do.
THEOREM WindowSafe == Spec => []WindowPopulated
<1>1. IInv => WindowPopulated
  BY DEF IInv, RingInv
<1> QED BY Invariance, <1>1, PTL

\* Until an overrun the semaphore counts the events of the ring (OGUnlockSema after each post
\* against OGLockSema before each serve).
THEOREM SemaphoreSafe == Spec => []SemaphoreCountsEvents
<1>1. IInv => SemaphoreCountsEvents
  BY DEF IInv, RingInv
<1> QED BY Invariance, <1>1, PTL

\* The "should never happen" of button_servicer happens after an overrun only.
THEOREM ServicerNeverDies == Spec => []ServicerSurvives
<1>1. IInv => ServicerSurvives
  BY DEF IInv, RingInv
<1> QED BY Invariance, <1>1, PTL

\* The hook never runs while a handler or survive_close runs: both hold the
\* context lock.  This needs nothing of the ring.
THEOREM HookExclusion == Spec => []HookExcludesHandlers
<1>1. Init => PhaseInv
  BY DEF Init, PhaseInv
<1>2. PhaseInv /\ [Next]_vars => PhaseInv'
  BY StepPhase
<1>3. PhaseInv => HookExcludesHandlers
  BY DEF PhaseInv, HookExcludesHandlers
<1> QED BY <1>1, <1>2, <1>3, PTL DEF Spec
-----------------------------------------------------------------------------
(* The ring implements the bounded queue.                                  *)

\* The slot of the k-th queued event, and how many there are.
First   == IF Delivered \/ nextRead = QLen THEN After(nextRead) ELSE nextRead
Number  == IF Delivered THEN EventCount - 1 ELSE EventCount
SlotOf(k) == IF First + k >= QLen THEN First + k - QLen ELSE First + k

\* Queued, with its local definitions named.
LEMMA QueuedIs == Queued = [k \in 1 .. Number |-> entry[SlotOf(k - 1)].event]
BY DEF Queued, First, Number, SlotOf

\* The queued events lie between the indices, and there is at most one less
\* than the ring has slots.
LEMMA QueuedSlots ==
  ASSUME IInv
  PROVE  /\ First \in Slots
         /\ Number \in 0 .. QLen - 1
         /\ \A k \in 0 .. Number - 1 : SlotOf(k) \in Slots /\ InWindow(SlotOf(k))
         /\ SlotOf(Number) = nextWrite
<1> USE QueueAssumption
<1>1. nextRead \in 0 .. QLen /\ nextWrite \in Slots
  BY DEF IInv, TypeOK, Slots
<1>2. Delivered => nextRead # nextWrite /\ nextRead # QLen
  BY DEF IInv, TypeOK, RingInv, ServedInWindow, Delivered, Slots
<1>3. CASE Delivered
  BY <1>1, <1>2, <1>3 DEF First, Number, SlotOf, EventCount, InWindow, After, Slots
<1>4. CASE ~Delivered
  BY <1>1, <1>4 DEF First, Number, SlotOf, EventCount, InWindow, After, Slots
<1> QED BY <1>3, <1>4

\* What an entry of the ring may hold.
Payload == Events \cup {<<>>}

\* The abstract queue is a sequence of payloads as long as the ring is filled.
LEMMA QueuedType ==
  ASSUME IInv
  PROVE  Queued \in Seq(Payload) /\ Len(Queued) = Number
<1>1. Number \in Nat
  BY QueueAssumption, QueuedSlots
<1>2. ASSUME NEW k \in 1 .. Number PROVE entry[SlotOf(k - 1)].event \in Payload
  <2>1. SlotOf(k - 1) \in Slots
    BY <1>1, QueuedSlots
  <2> QED BY <2>1 DEF IInv, TypeOK, Entries, Payload
<1> QED BY <1>1, <1>2, QueuedIs

\* A step that leaves the queued slots and the two indices alone leaves the
\* abstract queue alone.
LEMMA QueueKept ==
  ASSUME IInv, First' = First, Number' = Number,
         \A s \in Slots : InWindow(s) => entry'[s].event = entry[s].event
  PROVE  Queued' = Queued
<1>1. ASSUME NEW k \in 1 .. Number
      PROVE  entry'[SlotOf(k - 1)].event = entry[SlotOf(k - 1)].event
  <2>1. k - 1 \in 0 .. Number - 1
    BY QueuedSlots
  <2> QED BY <2>1, QueuedSlots
<1>2. Queued' = [k \in 1 .. Number' |-> entry'[SlotOf(k - 1)].event]
  BY DEF Queued, First, Number, SlotOf
<1> QED BY <1>1, <1>2, QueuedIs

\* An accepted post appends its event to the abstract queue, which had room.
LEMMA PostSends ==
  ASSUME IInv, NEW i \in Items, PostAccepted(i)
  PROVE  Fifo!Send(NewEvent(i))
<1> USE QueueAssumption
<1>1. /\ nextRead \in 0 .. QLen /\ nextWrite \in Slots
      /\ entry \in [Slots -> Entries]
      /\ After(nextWrite) \in Slots /\ After(nextWrite) # nextWrite
      /\ ~InWindow(nextWrite)
  BY AfterSlot DEF IInv, TypeOK, InWindow, Slots
<1>2. EventCount' = EventCount + 1 /\ EventCount \in Nat /\ EventCount + 1 < QLen
  BY <1>1, PostAccepted(i) DEF PostAccepted, EventCount, Slots, After, Full, Overruns
<1>3. First' = First /\ Number' = Number + 1 /\ Number < QLen - 1
  BY <1>1, <1>2, QueuedSlots DEF First, Number, PostAccepted, Delivered, After
<1>4. Number \in Nat /\ SlotOf(Number) = nextWrite
  BY QueuedSlots
<1>5. Queued \in Seq(Payload) /\ Len(Queued) = Number /\ NewEvent(i) \in Payload
  BY QueuedType, NewEventType DEF IInv, PostAccepted, NextItem, Payload
<1>6. Queued' = [k \in 1 .. Number + 1 |-> entry'[SlotOf(k - 1)].event]
  BY <1>3 DEF Queued, First, Number, SlotOf
<1>7. ASSUME NEW k \in 1 .. Number
      PROVE  entry'[SlotOf(k - 1)].event = Queued[k]
  <2>1. k - 1 \in 0 .. Number - 1
    BY <1>4
  <2>2. SlotOf(k - 1) \in Slots /\ InWindow(SlotOf(k - 1))
    BY <2>1, QueuedSlots
  <2>3. SlotOf(k - 1) # nextWrite
    BY <2>2, <1>1
  <2>4. SlotOf(k - 1) # After(nextWrite)
    BY <2>2, <1>1 DEF PostAccepted, Full, Overruns, After, InWindow, Slots
  <2>5. entry'[SlotOf(k - 1)] = entry[SlotOf(k - 1)]
    BY <2>2, <2>3, <2>4, <1>1 DEF PostAccepted
  <2>6. Queued[k] = entry[SlotOf(k - 1)].event
    BY QueuedIs
  <2> QED BY <2>5, <2>6
<1>8. entry'[SlotOf((Number + 1) - 1)].event = NewEvent(i)
  <2>1. entry'[nextWrite] = [populated |-> TRUE, event |-> NewEvent(i)]
    BY <1>1 DEF PostAccepted
  <2> QED BY <2>1, <1>4
<1>9. \A k \in 1 .. Number + 1 :
        entry'[SlotOf(k - 1)].event = Append(Queued, NewEvent(i))[k]
  <2>1. ASSUME NEW k \in 1 .. Number + 1
        PROVE  entry'[SlotOf(k - 1)].event = Append(Queued, NewEvent(i))[k]
    <3>1. CASE k = Number + 1
      BY <3>1, <1>5, <1>8, AppendProperties
    <3>2. CASE k # Number + 1
      BY <3>2, <1>4, <1>5, <1>7, AppendProperties
    <3> QED BY <3>1, <3>2
  <2> QED BY <2>1
<1>10. Queued' = Append(Queued, NewEvent(i))
  <2>1. Append(Queued, NewEvent(i)) \in Seq(Payload)
        /\ Len(Append(Queued, NewEvent(i))) = Number + 1
    BY <1>5, AppendProperties
  <2>2. Append(Queued, NewEvent(i)) \in [1 .. Number + 1 -> Payload]
    BY <2>1, LenProperties
  <2>3. Append(Queued, NewEvent(i))
          = [k \in 1 .. Number + 1 |-> Append(Queued, NewEvent(i))[k]]
    BY <2>2
  <2> QED BY <2>3, <1>6, <1>9
<1> QED BY <1>3, <1>5, <1>10 DEF Fifo!Send, PostAccepted

\* Handing an event to the hook takes the head of the abstract queue.
LEMMA HookDelivers ==
  ASSUME IInv, ServeHook
  PROVE  Fifo!Deliver
<1> USE QueueAssumption
<1>1. /\ nextRead \in Slots /\ nextWrite \in Slots
      /\ nextRead # nextWrite /\ ~Delivered
  BY DEF IInv, TypeOK, RingInv, ServedInWindow, Delivered, ServeHook, Slots
<1>2. Number \in 1 .. QLen - 1 /\ First = nextRead
  BY <1>1 DEF Number, First, EventCount, Slots
<1>3. First' = After(nextRead) /\ Number' = Number - 1
  BY <1>1 DEF First, Number, Delivered, EventCount, After, ServeHook, ring
<1>4. Queued \in Seq(Payload) /\ Len(Queued) = Number
  BY QueuedType
<1>5. Queued # <<>> /\ Head(Queued) = entry[nextRead].event
  <2>1. Queued[1] = entry[SlotOf(0)].event
    BY <1>2, QueuedIs
  <2>2. SlotOf(0) = nextRead
    BY <1>1, <1>2 DEF SlotOf, Slots
  <2> QED BY <1>2, <1>4, <2>1, <2>2
<1>6. Queued' = [k \in 1 .. Number - 1 |-> entry[SlotOf(k - 1)'].event]
  <2>1. Queued' = [k \in 1 .. Number' |-> entry'[SlotOf(k - 1)'].event]
    BY DEF Queued, First, Number, SlotOf
  <2> QED BY <1>3, <2>1 DEF ServeHook, ring
<1>7. ASSUME NEW k \in 1 .. Number - 1
      PROVE  SlotOf(k - 1)' = SlotOf(k)
  BY <1>1, <1>2, <1>3 DEF SlotOf, After, Slots
<1>8. \A k \in 1 .. Number - 1 : entry[SlotOf(k - 1)'].event = Tail(Queued)[k]
  <2>1. ASSUME NEW k \in 1 .. Number - 1
        PROVE  entry[SlotOf(k - 1)'].event = Tail(Queued)[k]
    <3>1. Tail(Queued)[k] = Queued[k + 1]
      BY <1>2, <1>4, <1>5, HeadTailProperties
    <3>2. Queued[k + 1] = entry[SlotOf(k)].event
      BY <1>2, QueuedIs
    <3> QED BY <3>1, <3>2, <1>7
  <2> QED BY <2>1
<1>9. Queued' = Tail(Queued)
  <2>1. Tail(Queued) \in Seq(Payload) /\ Len(Tail(Queued)) = Number - 1
    BY <1>4, <1>5, HeadTailProperties
  <2>2. Tail(Queued) \in [1 .. Number - 1 -> Payload]
    BY <2>1, LenProperties
  <2>3. Tail(Queued) = [k \in 1 .. Number - 1 |-> Tail(Queued)[k]]
    BY <2>2
  <2> QED BY <2>3, <1>6, <1>8
<1> QED BY <1>5, <1>9 DEF Fifo!Deliver, ServeHook

\* Every step of the two threads is a step of the bounded queue or none.
LEMMA StepRefines ==
  ASSUME IInv, [Next]_vars
  PROVE  [Fifo!Next]_(Fifo!fifoVars)
<1> USE QueueAssumption
<1>a. /\ nextRead \in 0 .. QLen /\ nextWrite \in Slots /\ entry \in [Slots -> Entries]
      /\ nextRead = QLen <=> spc = "wrap"
  BY DEF IInv, TypeOK, Slots
<1>b. ASSUME UNCHANGED <<nextRead, nextWrite, out>>, Delivered' = Delivered,
             \A s \in Slots : InWindow(s) => entry'[s].event = entry[s].event
      PROVE  UNCHANGED Fifo!fifoVars
  <2>1. First' = First /\ Number' = Number
    BY <1>b DEF First, Number, EventCount, After
  <2> QED BY <1>b, <2>1, QueueKept DEF Fifo!fifoVars
<1>c. ~InWindow(nextWrite)
  BY <1>a DEF InWindow, Slots
<1>1. ASSUME NEW so \in Objects, NEW r \in Reports, BeginReport(so, r)
      PROVE UNCHANGED Fifo!fifoVars
  BY <1>1, <1>a, <1>b, <1>c DEF BeginReport, Delivered
<1>2. ASSUME NEW i \in Items, PostAccepted(i) PROVE Fifo!Next
  <2>1. NewEvent(i) \in Events
    BY <1>2, NewEventType DEF IInv, PostAccepted, NextItem
  <2> QED BY <1>2, <2>1, PostSends DEF Fifo!Next
<1>3. ASSUME NEW i \in Items, PostFull(i) PROVE UNCHANGED Fifo!fifoVars
  BY <1>3, <1>a, <1>b, <1>c DEF PostFull, Delivered
<1>4. ASSUME NEW i \in Items, PostAfterClose(i) \/ PostThroughNull(i)
      PROVE UNCHANGED Fifo!fifoVars
  BY <1>4, <1>b DEF PostAfterClose, PostThroughNull, ring, Delivered
<1>4a. ASSUME NEW i \in Items, PostOverrun(i) PROVE Fifo!Next
  <2>1. ~Delivered /\ nextRead = QLen /\ nextWrite = QLen - 1
    BY <1>4a, <1>a DEF PostOverrun, Overruns, After, Slots, Delivered
  <2>2. Number = QLen - 1
    BY <2>1 DEF Number, EventCount
  <2>3. Number' = 0
    BY <1>4a, <2>1 DEF PostOverrun, Overruns, Number, EventCount, Delivered
  <2>4. Queued' = [k \in 1 .. Number' |-> entry'[SlotOf(k - 1)'].event]
    BY DEF Queued, First, Number, SlotOf
  <2>5. Queued' = <<>>
    BY <2>3, <2>4
  <2>6. Len(Queued) = QLen - 1
    BY <2>2, QueuedType
  <2> QED BY <1>4a, <2>5, <2>6 DEF Fifo!Next, Fifo!Overrun, PostOverrun
<1>5. CASE EndReport
  BY <1>5, <1>b DEF EndReport, ring, Delivered
<1>6. CASE PollRelease \/ PollReacquire \/ CloseBegin \/ CloseSignal \/ CloseJoined \/ CloseDone
  BY <1>6, <1>b DEF PollRelease, PollReacquire, CloseBegin, CloseSignal, CloseJoined,
                    CloseDone, ring, Delivered
<1>7. CASE ServeWait \/ ServeStop \/ ServeUnpopulated \/ ServeEntry \/ ServeLock
  BY <1>7, <1>b DEF ServeWait, ServeStop, ServeUnpopulated, ServeEntry, ServeLock,
                    ring, Delivered
<1>8. CASE ServeHook
  BY <1>8, HookDelivers DEF Fifo!Next
<1>9. CASE ServeAdvance
  <2>1. nextRead # nextWrite
    BY <1>9 DEF ServeAdvance, IInv, RingInv, ServedInWindow
  <2>2. First' = First /\ Number' = Number
    BY <1>9, <1>a, <2>1 DEF ServeAdvance, First, Number, Delivered, EventCount, After, Slots
  <2> QED BY <1>9, <2>2, QueueKept DEF ServeAdvance, Fifo!fifoVars
<1>10. CASE ServeAdvancePastEnd
  <2>1. nextRead # nextWrite /\ nextRead = QLen - 1 /\ nextRead' = QLen
    BY <1>10, <1>a DEF ServeAdvancePastEnd, IInv, RingInv, ServedInWindow
  <2>2. First' = First /\ Number' = Number
    BY <1>10, <1>a, <2>1
       DEF ServeAdvancePastEnd, First, Number, Delivered, EventCount, After, Slots
  <2> QED BY <1>10, <2>2, QueueKept DEF ServeAdvancePastEnd, Fifo!fifoVars
<1>10a. CASE ServeWrap
  <2>1. First' = First /\ Number' = Number
    BY <1>10a, <1>a DEF ServeWrap, First, Number, Delivered, EventCount, After, Slots
  <2> QED BY <1>10a, <2>1, QueueKept DEF ServeWrap, Fifo!fifoVars
<1>11. CASE UNCHANGED vars
  BY <1>11, <1>b DEF vars, ring, Delivered
<1> QED
  BY <1>1, <1>2, <1>3, <1>4, <1>4a, <1>5, <1>6, <1>7, <1>8, <1>9, <1>10, <1>10a, <1>11
     DEF Next, Post, Serve

\* The ring and the threads around it implement the bounded queue: an event
\* accepted by incrementAndPostButtonQueue reaches the button hook at most once,
\* and in its turn, and is only lost when the ring is overrun.
THEOREM QueueRefinement == Spec => ImplementsFifo
<1>1. Init => Fifo!Init
  <2> SUFFICES ASSUME Init PROVE Fifo!Init
    OBVIOUS
  <2>1. Number = 0
    BY DEF Init, Number, Delivered, EventCount
  <2>2. Queued = <<>>
    BY <2>1, QueuedIs
  <2> QED BY <2>2 DEF Init, Fifo!Init
<1>2. IInv /\ [Next]_vars => [Fifo!Next]_(Fifo!fifoVars)
  BY StepRefines
<1> QED BY Invariance, <1>1, <1>2, PTL DEF Spec, ImplementsFifo, Fifo!Spec
===========================================================================
