---------------------------- MODULE ButtonQueue ----------------------------
(***************************************************************************)
(* The input-event path of libsurvive: registerButtonEvent (driver_vive.c) *)
(* turns a device report into button, touch and axis events and posts them *)
(* in a ring of BUTTON_QUEUE_MAX_LEN entries; the button service thread    *)
(* (survive.c) takes them out and calls the button hook.                   *)
(*                                                                         *)
(* Two threads are modelled.  The "main" one stands for whoever runs a     *)
(* packet handler: every handler runs with the context lock held, so at    *)
(* most one runs at a time.  It polls, sleeps with the lock released, and  *)
(* may close the context.  The other one is the button service thread.     *)
(* They share the ring without any lock but the count of a semaphore.      *)
(*                                                                         *)
(* An item is one button, one touch bit or one axis of a device, in the    *)
(* order registerButtonEvent looks at them; a report gives a value for     *)
(* every item (a section whose "valid" flag is off repeats what is known). *)
(***************************************************************************)
EXTENDS Integers, Sequences

CONSTANTS
  Objects,     \* the devices
  NButtons,    \* button ids 0 .. NButtons-1, and as many touch ids
  NAxes,       \* raw axes, looked at after the buttons and the touches
  AxisMax,     \* axis values are 0 .. AxisMax
  QLen         \* BUTTON_QUEUE_MAX_LEN

ASSUME QueueAssumption ==
  /\ QLen \in Nat /\ QLen >= 2
  /\ NButtons \in Nat /\ NAxes \in Nat
  /\ AxisMax \in Nat /\ AxisMax >= 1

Slots   == 0 .. QLen - 1
Items   == 0 .. 2 * NButtons + NAxes - 1
Values  == 0 .. AxisMax
Reports == [Items -> Values]
Events  == [so : Objects, item : Items, val : Values]
Blank   == [populated |-> FALSE, event |-> <<>>]
Entries == [populated : BOOLEAN, event : {<<>>} \cup Events]

VARIABLES
  state,      \* ctx->state
  lock,       \* who holds the context lock: "main", "servicer" or "free"
  entry,      \* ctx->buttonQueue.entry
  nextRead,   \* ctx->buttonQueue.nextReadIndex
  nextWrite,  \* ctx->buttonQueue.nextWriteIndex
  sem,        \* the count of buttonservicesem
  semLive,    \* buttonservicesem is not null
  spc,        \* where the button service thread is
  mpc,        \* where the main thread is
  known,      \* so->buttonmask, so->touchmask and so->axis of each device
  report,     \* the report registerButtonEvent is working on, with its device
  pos,        \* the next item of it to look at
  entryOk,    \* its local "entry" pointer is not null
  out         \* the last event handed to the button hook

ring      == <<entry, nextRead, nextWrite, sem, semLive>>
mainVars  == <<mpc, known, report, pos, entryOk>>
vars      == <<state, lock, ring, spc, mainVars, out>>

IsAxis(i) == i >= 2 * NButtons
ButtonId(i) == IF i < NButtons THEN i ELSE i - NButtons

\* The index after i, as both indices are advanced.
After(i) == IF i + 1 >= QLen THEN 0 ELSE i + 1

\* Mutant of Full: the test is missing.
FullNever == FALSE

Full == After(nextWrite) = nextRead

\* The ring is full and the test does not see it: the service thread's index
\* stands past the end of the ring, between the two stores of its wrap.
Overruns == nextRead = QLen /\ After(nextWrite) = 0

\* registerButtonOnOff compares with a copy of the mask in a uint8_t, so a
\* button beyond the eighth always compares as released.
Current(so, i) ==
  IF ~IsAxis(i) /\ ButtonId(i) >= 8 THEN 0 ELSE known[so][i]

\* A button may only be pressed or released: its value is 0 or 1.
Legal(r) == \A i \in Items : ~IsAxis(i) => r[i] <= 1

Init ==
  /\ state = "running" /\ lock = "main"
  /\ entry = [s \in Slots |-> Blank]
  /\ nextRead = 0 /\ nextWrite = 0
  /\ sem = 0 /\ semLive = TRUE
  /\ spc = "wait" /\ mpc = "poll"
  /\ known = [so \in Objects |-> [i \in Items |-> 0]]
  /\ report = <<>> /\ pos = 0 /\ entryOk = FALSE
  /\ out = <<>>
-----------------------------------------------------------------------------
(* The main thread: a report being turned into events.                     *)

\* registerButtonEvent starts by preparing the entry at nextWriteIndex.
\* While the drivers are being closed their threads may still run handlers.
BeginReport(so, r) ==
  /\ mpc \in {"poll", "drivers"}
  /\ Legal(r)
  /\ entry' = [entry EXCEPT ![nextWrite] = Blank]
  /\ report' = <<so, r>>
  /\ pos' = 0 /\ entryOk' = TRUE /\ mpc' = "report"
  /\ UNCHANGED <<state, lock, nextRead, nextWrite, sem, semLive, spc, known, out>>

\* The items the handler acts on: those that changed.  The button loop skips
\* an item when its entry is null, the axis branches do not look.
Acts(i) ==
  /\ report[2][i] # Current(report[1], i)
  /\ IsAxis(i) \/ entryOk

NextItem(i) ==
  /\ mpc = "report" /\ i >= pos /\ Acts(i)
  /\ \A k \in Items : k >= pos /\ k < i => ~Acts(k)

NewEvent(i) == [so |-> report[1], item |-> i, val |-> report[2][i]]

Remember(i) == known' = [known EXCEPT ![report[1]][i] = report[2][i]]

\* incrementAndPostButtonQueue: there is room.
PostAccepted(i) ==
  /\ NextItem(i) /\ entryOk /\ semLive /\ ~Full /\ ~Overruns
  /\ Remember(i)
  /\ entry' = [entry EXCEPT ![nextWrite] = [populated |-> TRUE, event |-> NewEvent(i)],
                            ![After(nextWrite)] = Blank]
  /\ nextWrite' = After(nextWrite)
  /\ sem' = sem + 1
  /\ pos' = i + 1
  /\ UNCHANGED <<state, lock, nextRead, semLive, spc, mpc, report, entryOk, out>>

\* The post overruns the oldest event, and the ring counts as empty with as
\* many wake-ups posted as it has slots.  The main thread is followed no
\* further: the semaphore would count more and more.
PostOverrun(i) ==
  /\ NextItem(i) /\ entryOk /\ semLive /\ Overruns
  /\ Remember(i)
  /\ entry' = [entry EXCEPT ![nextWrite] = [populated |-> TRUE, event |-> NewEvent(i)],
                            ![After(nextWrite)] = Blank]
  /\ nextWrite' = After(nextWrite)
  /\ sem' = sem + 1
  /\ pos' = i + 1 /\ mpc' = "overrun"
  /\ UNCHANGED <<state, lock, nextRead, semLive, spc, report, entryOk, out>>

\* Mutant of PostFull: the semaphore is posted though nothing was queued.
PostFullSignals(i) ==
  /\ NextItem(i) /\ entryOk /\ semLive /\ Full
  /\ Remember(i)
  /\ entry' = [entry EXCEPT ![nextWrite] = Blank]
  /\ sem' = sem + 1
  /\ entryOk' = FALSE
  /\ pos' = i + 1
  /\ UNCHANGED <<state, lock, nextRead, nextWrite, semLive, spc, mpc, report, out>>

\* incrementAndPostButtonQueue: the masks are already updated when the queue
\* is found full; the caller gets a null entry.
PostFull(i) ==
  /\ NextItem(i) /\ entryOk /\ semLive /\ Full
  /\ Remember(i)
  /\ entry' = [entry EXCEPT ![nextWrite] = Blank]
  /\ entryOk' = FALSE
  /\ pos' = i + 1
  /\ UNCHANGED <<state, lock, nextRead, nextWrite, sem, semLive, spc, mpc, report, out>>

\* incrementAndPostButtonQueue once survive_close has dropped the semaphore.
PostAfterClose(i) ==
  /\ NextItem(i) /\ entryOk /\ ~semLive
  /\ entryOk' = FALSE
  /\ pos' = i + 1
  /\ UNCHANGED <<state, lock, ring, spc, mpc, known, report, out>>

\* An axis branch writes entry->eventType through a null entry.
PostThroughNull(i) ==
  /\ NextItem(i) /\ ~entryOk
  /\ mpc' = "crashed"
  /\ UNCHANGED <<state, lock, ring, spc, known, report, pos, entryOk, out>>

EndReport ==
  /\ mpc = "report"
  /\ \A i \in Items : i >= pos => ~Acts(i)
  /\ mpc' = IF state = "running" THEN "poll" ELSE "drivers"
  /\ report' = <<>> /\ pos' = 0 /\ entryOk' = FALSE
  /\ UNCHANGED <<state, lock, ring, spc, known, out>>

Post == \E i \in Items :
          \/ PostAccepted(i) \/ PostOverrun(i) \/ PostFull(i)
          \/ PostAfterClose(i) \/ PostThroughNull(i)
-----------------------------------------------------------------------------
(* The main thread: survive_poll's release of the lock, and survive_close. *)

PollRelease ==
  /\ mpc = "poll"
  /\ lock' = "free" /\ mpc' = "sleep"
  /\ UNCHANGED <<state, ring, spc, known, report, pos, entryOk, out>>

\* Mutant of PollReacquire: the poller does not wait for the lock.
PollReacquireBarging ==
  /\ mpc = "sleep"
  /\ lock' = "main" /\ mpc' = "poll"
  /\ UNCHANGED <<state, ring, spc, known, report, pos, entryOk, out>>

PollReacquire ==
  /\ mpc = "sleep" /\ lock = "free"
  /\ lock' = "main" /\ mpc' = "poll"
  /\ UNCHANGED <<state, ring, spc, known, report, pos, entryOk, out>>

CloseBegin ==
  /\ mpc = "poll"
  /\ state' = "closing" /\ mpc' = "signal"
  /\ UNCHANGED <<lock, ring, spc, known, report, pos, entryOk, out>>

CloseSignal ==
  /\ mpc = "signal"
  /\ sem' = sem + 1 /\ mpc' = "join"
  /\ UNCHANGED <<state, lock, entry, nextRead, nextWrite, semLive, spc,
                 known, report, pos, entryOk, out>>

CloseJoined ==
  /\ mpc = "join" /\ spc \in {"exited", "died"}
  /\ sem' = 0 /\ semLive' = FALSE /\ mpc' = "drivers"
  /\ UNCHANGED <<state, lock, entry, nextRead, nextWrite, spc,
                 known, report, pos, entryOk, out>>

CloseDone ==
  /\ mpc = "drivers"
  /\ mpc' = "done"
  /\ UNCHANGED <<state, lock, ring, spc, known, report, pos, entryOk, out>>
-----------------------------------------------------------------------------
(* button_servicer.                                                        *)

Alive == mpc # "crashed"

ServeWait ==
  /\ Alive /\ spc = "wait" /\ sem > 0
  /\ sem' = sem - 1 /\ spc' = "check"
  /\ UNCHANGED <<state, lock, entry, nextRead, nextWrite, semLive, mainVars, out>>

ServeStop ==
  /\ Alive /\ spc = "check" /\ state # "running"
  /\ spc' = "exited"
  /\ UNCHANGED <<state, lock, ring, mainVars, out>>

\* "should never happen": the thread returns and no event is served again.
ServeUnpopulated ==
  /\ Alive /\ spc = "check" /\ state = "running"
  /\ ~entry[nextRead].populated
  /\ spc' = "died"
  /\ UNCHANGED <<state, lock, ring, mainVars, out>>

ServeEntry ==
  /\ Alive /\ spc = "check" /\ state = "running"
  /\ entry[nextRead].populated
  /\ spc' = "lock"
  /\ UNCHANGED <<state, lock, ring, mainVars, out>>

ServeLock ==
  /\ Alive /\ spc = "lock" /\ lock = "free"
  /\ lock' = "servicer" /\ spc' = "hook"
  /\ UNCHANGED <<state, ring, mainVars, out>>

\* Mutant of ServeHook: the entry is looked up after the index has moved on.
ServeHookLate ==
  /\ Alive /\ spc = "hook"
  /\ out' = <<entry[After(nextRead)].event>>
  /\ lock' = "free" /\ spc' = "advance"
  /\ UNCHANGED <<state, ring, mainVars>>

\* Mutant of ServeHook: the lock is not released after the hook.
ServeHookKeepsLock ==
  /\ Alive /\ spc = "hook"
  /\ out' = <<entry[nextRead].event>>
  /\ spc' = "advance"
  /\ UNCHANGED <<state, lock, ring, mainVars>>

ServeHook ==
  /\ Alive /\ spc = "hook"
  /\ out' = <<entry[nextRead].event>>
  /\ lock' = "free" /\ spc' = "advance"
  /\ UNCHANGED <<state, ring, mainVars>>

\* nextReadIndex++ and the test for the end of the ring: the index is written
\* without a lock, and a build may do so in one store or, at the end, in two.
ServeAdvance ==
  /\ Alive /\ spc = "advance"
  /\ nextRead' = After(nextRead) /\ spc' = "wait"
  /\ UNCHANGED <<state, lock, entry, nextWrite, sem, semLive, mainVars, out>>

ServeAdvancePastEnd ==
  /\ Alive /\ spc = "advance" /\ nextRead + 1 >= QLen
  /\ nextRead' = nextRead + 1 /\ spc' = "wrap"
  /\ UNCHANGED <<state, lock, entry, nextWrite, sem, semLive, mainVars, out>>

ServeWrap ==
  /\ Alive /\ spc = "wrap"
  /\ nextRead' = 0 /\ spc' = "wait"
  /\ UNCHANGED <<state, lock, entry, nextWrite, sem, semLive, mainVars, out>>

Serve == \/ ServeWait \/ ServeStop \/ ServeUnpopulated \/ ServeEntry
         \/ ServeLock \/ ServeHook
         \/ ServeAdvance \/ ServeAdvancePastEnd \/ ServeWrap
-----------------------------------------------------------------------------
Next ==
  \/ \E so \in Objects, r \in Reports : BeginReport(so, r)
  \/ Post \/ EndReport
  \/ PollRelease \/ PollReacquire
  \/ CloseBegin \/ CloseSignal \/ CloseJoined \/ CloseDone
  \/ Serve

Spec == Init /\ [][Next]_vars

(***************************************************************************)
(* Every thread keeps running.  A poll handles finitely many packets, so   *)
(* survive_poll gets to release the lock again and again, and a thread     *)
(* that waits for the lock gets it if it is free again and again: the      *)
(* poller sleeps poll_min_time_ms with the lock released.                  *)
(***************************************************************************)
Fairness ==
  /\ WF_vars(Post \/ EndReport)
  /\ SF_vars(PollRelease) /\ WF_vars(PollReacquire)
  /\ WF_vars(CloseSignal) /\ WF_vars(CloseJoined)
  /\ WF_vars(Serve) /\ SF_vars(ServeLock)

FairSpec == Spec /\ Fairness
-----------------------------------------------------------------------------
(* Properties.                                                             *)

\* Every variable has its type; the index is past the end in a wrap only.
TypeOK ==
  /\ state \in {"running", "closing"}
  /\ lock \in {"main", "servicer", "free"}
  /\ entry \in [Slots -> Entries]
  /\ nextRead \in (IF spc = "wrap" THEN {QLen} ELSE Slots)
  /\ nextWrite \in Slots
  /\ sem \in Nat /\ semLive \in BOOLEAN
  /\ spc \in {"wait", "check", "lock", "hook", "advance", "wrap", "exited", "died"}
  /\ mpc \in {"poll", "report", "sleep", "signal", "join", "drivers", "done",
             "crashed", "overrun"}
  /\ known \in [Objects -> Reports]
  /\ report \in {<<>>} \cup (Objects \X Reports)
  /\ mpc = "report" => report # <<>>
  /\ pos \in 0 .. 2 * NButtons + NAxes
  /\ entryOk \in BOOLEAN
  /\ out \in Seq(Events \cup {<<>>})

\* survive_input_event_count.
EventCount == IF nextRead > nextWrite THEN nextWrite + QLen - nextRead
                                      ELSE nextWrite - nextRead

\* The slots between the two indices.
InWindow(s) == IF nextRead <= nextWrite THEN nextRead <= s /\ s < nextWrite
                                        ELSE nextRead <= s \/ s < nextWrite

\* The ring's slots agree with its indices: what lies between them is a
\* posted event, and the slot the next event goes to is never one of them.
WindowPopulated ==
  /\ \A s \in Slots : InWindow(s) => entry[s].populated
  /\ ~entry[nextWrite].populated

\* The service thread holds a token of the semaphore for the entry it serves.
Serving == spc \in {"check", "lock", "hook", "advance"}

\* Until the ring is overrun, the semaphore counts the events between the
\* indices, less the one being served, plus the wake-up survive_close posts
\* (survive.c, button_servicer and survive_close): a count too low leaves an
\* event unserved, one too high makes the thread look at an empty slot.
SemaphoreCountsEvents ==
  (semLive /\ spc \notin {"exited", "died"} /\ mpc # "overrun") =>
    sem + (IF Serving THEN 1 ELSE 0)
      = EventCount + (IF mpc = "join" THEN 1 ELSE 0)

\* The service thread finds an unpopulated entry where its index points
\* ("should never happen", button_servicer), which ends all button input,
\* only when the ring was overrun while the index wrapped in two stores.
ServicerSurvives == spc = "died" => mpc = "overrun"

\* The button hook, called with the context lock held, never runs while a packet
\* handler or survive_close runs, and the lock has the owner the threads think.
HookExcludesHandlers ==
  /\ spc = "hook" <=> lock = "servicer"
  /\ spc = "hook" => mpc = "sleep"

\* The events accepted and not yet handed to the hook, oldest first: an entry
\* already handed over stays in the ring until the index is advanced.
Delivered == spc = "advance"
Queued ==
  LET first == IF Delivered \/ nextRead = QLen THEN After(nextRead) ELSE nextRead
      n     == IF Delivered THEN EventCount - 1 ELSE EventCount
      At(k) == IF first + k >= QLen THEN first + k - QLen ELSE first + k
  IN  [k \in 1 .. n |-> entry[At(k - 1)].event]

Fifo == INSTANCE EventFifo WITH Capacity <- QLen - 1, q <- Queued, out <- out

\* The ring and its two threads implement the bounded queue of EventFifo:
\* nothing accepted is repeated or overtaken before it reaches the hook, or
\* lost, except by a post to a full ring that overruns it.
ImplementsFifo == Fifo!Spec

\* Every event accepted into the ring leaves it, as long as the context is
\* neither closed nor crashed: no wake-up of the service thread is lost.
EventsServed ==
  \A s \in Slots : InWindow(s) ~> (~InWindow(s) \/ state = "closing" \/ mpc = "crashed")

\* "unlock/ post to button service semaphore so the thread can kill itself"
\* (survive_close): once it has posted, the join returns.
CloseCompletes == (mpc = "join") ~> (mpc = "drivers")
=============================================================================
