----------------------------- MODULE SimpleApi -----------------------------
(***************************************************************************)
(* The simple API (survive_api.c): a background thread runs survive_poll;  *)
(* the hooks that run inside it publish the data of an object, mark the    *)
(* object as updated, and put events in a ring that overwrites its oldest  *)
(* entry.  One application thread takes events and updates out.            *)
(*                                                                         *)
(* The hooks run with the context lock held, so one "hook" is in progress  *)
(* at a time, and none once the thread has left survive_poll, which        *)
(* returns with that lock held.  The ring and the objects' data are under  *)
(* the recursive poll_mutex; the has_update flags and the object list are  *)
(* also used without it.  Velocities, names and event contents are left    *)
(* out.                                                                    *)
(***************************************************************************)
EXTENDS Integers, Sequences

CONSTANTS
  Tracked,      \* devices: announced by new_object_fn
  Lighthouses,  \* created by lh_fn, or by init for the ones already known
  Externals,    \* created by the first external pose
  RingSize      \* MAX_EVENT_SIZE

ASSUME RingAssumption == RingSize \in Nat /\ RingSize >= 1

Objects == Tracked \cup Lighthouses \cup Externals
Slots   == 0 .. RingSize - 1
Events  == [type : {"DeviceAdded", "Button", "Config"}, object : Objects]
None    == [type |-> "None"]      \* a slot never written
Invalid == [type |-> "Invalid"]   \* event_type == -1: a slot already read

VARIABLES
  events, nextWrite, cnt,  \* actx->events, event_next_write, events_cnt
  list,      \* actx->objects, from head to tail
  flag,      \* has_update of each object
  fresh,     \* the object's data is newer than what the application has read
  depth,     \* how many times the hook in progress holds poll_mutex
  running,   \* actx->running
  thread,    \* "none", "polling", "leaving" or "done": the background thread
  hook,      \* the hook in progress: <<where it is, its object>>, or Idle
  app,       \* where the application is
  cursor,    \* the position in the list get_next_updated looks at
  result,    \* what survive_simple_next_event returned last
  taken      \* the last event popped

ring     == <<events, nextWrite, cnt>>
appVars  == <<app, cursor, result, taken>>
vars     == <<ring, list, flag, fresh, depth, running, thread, hook, appVars>>

Idle == <<"idle">>
At(step, o) == <<step, o>>
Listed(o) == \E i \in DOMAIN list : list[i] = o

Init ==
  /\ events = [s \in Slots |-> None] /\ nextWrite = 0 /\ cnt = 0
  /\ list = <<>>
  /\ flag = [o \in Objects |-> FALSE] /\ fresh = [o \in Objects |-> FALSE]
  /\ depth = 0 /\ running = FALSE /\ thread = "none" /\ hook = Idle
  /\ app = "init" /\ cursor = 1 /\ result = "None" /\ taken = <<>>
-----------------------------------------------------------------------------
(* The ring and the mutex.                                                 *)

After(i) == IF i + 1 >= RingSize THEN 0 ELSE i + 1

\* read_idx in pop_from_event_buffer.
OldestIndex == IF nextWrite >= cnt THEN nextWrite - cnt ELSE nextWrite + RingSize - cnt

\* Mutant of Insert: the count goes on growing when the ring is full.
InsertOvercounts(e) ==
  /\ events' = [events EXCEPT ![nextWrite] = e]
  /\ nextWrite' = After(nextWrite)
  /\ cnt' = cnt + 1

\* insert_into_event_buffer, which also gives one level of the mutex back.
Insert(e) ==
  /\ events' = [events EXCEPT ![nextWrite] = e]
  /\ nextWrite' = After(nextWrite)
  /\ cnt' = IF cnt = RingSize THEN cnt ELSE cnt + 1

Added(o) == [type |-> "DeviceAdded", object |-> o]

\* poll_mutex is recursive.  The application holds it within a step only.
MutexFree == depth = 0
Lock      == depth' = depth + 1
Unlock    == depth' = depth - 1
-----------------------------------------------------------------------------
(* survive_simple_init: survive_startup may announce devices, then the     *)
(* lighthouses of the configuration get their objects.                     *)

InitObject(o) ==
  /\ app = "init" /\ o \in Tracked /\ ~Listed(o)
  /\ \A h \in Lighthouses : ~Listed(h)
  /\ list' = Append(list, o)
  /\ Insert(Added(o))
  /\ UNCHANGED <<flag, fresh, depth, running, thread, hook, appVars>>

\* positionSet: the configuration holds a pose for it.
InitLighthouse(o, positionSet) ==
  /\ app = "init" /\ o \in Lighthouses /\ ~Listed(o)
  /\ list' = Append(list, o)
  /\ flag' = [flag EXCEPT ![o] = positionSet]
  /\ fresh' = [fresh EXCEPT ![o] = positionSet]
  /\ Insert(Added(o))
  /\ UNCHANGED <<depth, running, thread, hook, appVars>>

InitDone ==
  /\ app = "init"
  /\ app' = "idle"
  /\ UNCHANGED <<ring, list, flag, fresh, depth, running, thread, hook,
                 cursor, result, taken>>
-----------------------------------------------------------------------------
(* The background thread: __simple_thread and the hooks of survive_poll.   *)

Polling == thread = "polling"
EndHook == hook' = Idle

\* new_object_fn links the object before it takes the mutex.
NewObject(o) ==
  /\ Polling /\ hook = Idle /\ o \in Tracked /\ ~Listed(o)
  /\ list' = Append(list, o)
  /\ hook' = At("announce", o)
  /\ UNCHANGED <<ring, flag, fresh, depth, running, thread, appVars>>

Announce(o) ==
  /\ hook = At("announce", o) /\ MutexFree
  /\ Insert(Added(o)) /\ EndHook
  /\ UNCHANGED <<list, flag, fresh, depth, running, thread, appVars>>

\* pose_fn, lh_fn, external_pose_fn and external_velocity_fn: take the mutex
\* and store the new data, which the default process functions do.
Publish(o) ==
  /\ Polling /\ hook = Idle
  /\ o \in Tracked => Listed(o)
  /\ MutexFree /\ Lock
  /\ fresh' = [fresh EXCEPT ![o] = TRUE]
  /\ hook' = At(IF Listed(o) THEN "mark" ELSE "create", o)
  /\ UNCHANGED <<ring, list, flag, running, thread, appVars>>

\* find_or_create_external: no event for it.
CreateExternal(o) ==
  /\ hook = At("create", o) /\ o \in Externals
  /\ list' = Append(list, o)
  /\ hook' = At("mark", o)
  /\ UNCHANGED <<ring, flag, fresh, depth, running, thread, appVars>>

\* create_lighthouse: linked with PositionSet for its flag (lh_fn is also called
\* to forget a pose), then the mutex a second time.
CreateLighthouse(o) ==
  /\ hook = At("create", o) /\ o \in Lighthouses
  /\ list' = Append(list, o)
  /\ \E positionSet \in BOOLEAN : flag' = [flag EXCEPT ![o] = positionSet]
  /\ Lock
  /\ hook' = At("added", o)
  /\ UNCHANGED <<ring, fresh, running, thread, appVars>>

\* Mutant of LighthouseAdded: the level taken by create_lighthouse is kept.
LighthouseAddedKeepsLevel(o) ==
  /\ hook = At("added", o)
  /\ Insert(Added(o))
  /\ hook' = At("mark", o)
  /\ UNCHANGED <<list, flag, fresh, depth, running, thread, appVars>>

LighthouseAdded(o) ==
  /\ hook = At("added", o)
  /\ Insert(Added(o)) /\ Unlock
  /\ hook' = At("mark", o)
  /\ UNCHANGED <<list, flag, fresh, running, thread, appVars>>

Mark(o) ==
  /\ hook = At("mark", o)
  /\ flag' = [flag EXCEPT ![o] = TRUE]
  /\ Unlock /\ EndHook
  /\ UNCHANGED <<ring, list, fresh, running, thread, appVars>>

\* button_fn, from the button service thread.
ButtonMark(o) ==
  /\ Polling /\ hook = Idle /\ o \in Tracked /\ Listed(o)
  /\ MutexFree /\ Lock
  /\ flag' = [flag EXCEPT ![o] = TRUE]
  /\ hook' = At("button", o)
  /\ UNCHANGED <<ring, list, fresh, running, thread, appVars>>

ButtonInsert(o) ==
  /\ hook = At("button", o)
  /\ Insert([type |-> "Button", object |-> o])
  /\ Unlock /\ EndHook
  /\ UNCHANGED <<list, flag, fresh, running, thread, appVars>>

Config(o) ==
  /\ Polling /\ hook = Idle /\ o \in Tracked /\ Listed(o) /\ MutexFree
  /\ Insert([type |-> "Config", object |-> o])
  /\ UNCHANGED <<list, flag, fresh, depth, running, thread, hook, appVars>>

\* survive_poll failed, or the thread sees that running was cleared.
LeavePoll ==
  /\ Polling /\ hook = Idle
  /\ thread' = "leaving"
  /\ UNCHANGED <<ring, list, flag, fresh, depth, running, hook, appVars>>

ThreadEnd ==
  /\ thread = "leaving"
  /\ running' = FALSE /\ thread' = "done"
  /\ UNCHANGED <<ring, list, flag, fresh, depth, hook, appVars>>

HookStep == \E o \in Objects :
  \/ NewObject(o) \/ Announce(o)
  \/ Publish(o) \/ CreateExternal(o) \/ CreateLighthouse(o) \/ LighthouseAdded(o)
  \/ Mark(o) \/ ButtonMark(o) \/ ButtonInsert(o) \/ Config(o)
-----------------------------------------------------------------------------
(* The application.                                                        *)

StartThread ==
  /\ app = "idle" /\ thread \in {"none", "done"} /\ ~running
  /\ running' = TRUE /\ thread' = "polling" /\ result' = "None"
  /\ UNCHANGED <<ring, list, flag, fresh, depth, hook, app, cursor, taken>>

\* survive_simple_stop_thread, and survive_simple_close when it is running.
StopThread ==
  /\ app = "idle" /\ running
  /\ running' = FALSE /\ app' = "join"
  /\ UNCHANGED <<ring, list, flag, fresh, depth, thread, hook, cursor, result, taken>>

\* Mutant of Joined: stop_thread does not wait.
JoinedEarly ==
  /\ app = "join"
  /\ app' = "idle"
  /\ UNCHANGED <<ring, list, flag, fresh, depth, running, thread, hook,
                 cursor, result, taken>>

Joined ==
  /\ app = "join" /\ thread = "done"
  /\ app' = "idle"
  /\ UNCHANGED <<ring, list, flag, fresh, depth, running, thread, hook,
                 cursor, result, taken>>

\* survive_simple_wait_for_event sleeps first, whatever is pending.
WaitForEvent ==
  /\ app = "idle" /\ MutexFree
  /\ app' = "waiting" /\ result' = "None"
  /\ UNCHANGED <<ring, list, flag, fresh, depth, running, thread, hook, cursor, taken>>

\* A broadcast, or the end of the 100 ms: the mutex is free again.
WaitOver ==
  /\ app = "waiting" /\ MutexFree
  /\ app' = "waited"
  /\ UNCHANGED <<ring, list, flag, fresh, depth, running, thread, hook,
                 cursor, result, taken>>

\* survive_simple_next_event: on its own, or after the wait.
PopEvent ==
  /\ app \in {"idle", "waited"} /\ MutexFree /\ cnt > 0
  /\ taken' = <<events[OldestIndex]>>
  /\ events' = [events EXCEPT ![OldestIndex] = Invalid]
  /\ cnt' = cnt - 1
  /\ result' = "Event" /\ app' = "idle"
  /\ UNCHANGED <<nextWrite, list, flag, fresh, depth, running, thread, hook, cursor>>

PopNothing ==
  /\ app \in {"idle", "waited"} /\ MutexFree /\ cnt = 0
  /\ cursor' = 1 /\ app' = IF app = "idle" THEN "scan" ELSE "waitscan"
  /\ result' = "None"
  /\ UNCHANGED <<ring, list, flag, fresh, depth, running, thread, hook, taken>>

\* survive_simple_get_next_updated: without the depth, from the head.
Scanning == app \in {"scan", "waitscan"}

ScanPast ==
  /\ Scanning /\ cursor <= Len(list) /\ ~flag[list[cursor]]
  /\ cursor' = cursor + 1
  /\ UNCHANGED <<ring, list, flag, fresh, depth, running, thread, hook,
                 app, result, taken>>

ScanHit ==
  /\ Scanning /\ cursor <= Len(list) /\ flag[list[cursor]]
  /\ app' = "clear"
  /\ UNCHANGED <<ring, list, flag, fresh, depth, running, thread, hook,
                 cursor, result, taken>>

\* Mutant of ClearFlag: every object's flag is cleared.
ClearFlagOfAll ==
  /\ app = "clear"
  /\ flag' = [o \in Objects |-> FALSE]
  /\ app' = "read"
  /\ UNCHANGED <<ring, list, fresh, depth, running, thread, hook, cursor, result, taken>>

\* Mutant of ClearFlag: the flag stays set.
ClearFlagNever ==
  /\ app = "clear"
  /\ app' = "read"
  /\ UNCHANGED <<ring, list, flag, fresh, depth, running, thread, hook,
                 cursor, result, taken>>

ClearFlag ==
  /\ app = "clear"
  /\ flag' = [flag EXCEPT ![list[cursor]] = FALSE]
  /\ app' = "read"
  /\ UNCHANGED <<ring, list, fresh, depth, running, thread, hook, cursor, result, taken>>

\* survive_simple_object_get_latest_pose, under the mutex.
ReadPose ==
  /\ app = "read" /\ MutexFree
  /\ fresh' = [fresh EXCEPT ![list[cursor]] = FALSE]
  /\ cursor' = 1 /\ result' = "Update" /\ app' = "idle"
  /\ UNCHANGED <<ring, list, flag, depth, running, thread, hook, taken>>

\* Nothing to report: a shutdown if the thread no longer runs.
ScanEnd ==
  /\ Scanning /\ cursor > Len(list)
  /\ result' = IF ~running THEN "Shutdown"
               ELSE IF app = "waitscan" THEN "NoneAfterWait" ELSE "None"
  /\ cursor' = 1 /\ app' = "idle"
  /\ UNCHANGED <<ring, list, flag, fresh, depth, running, thread, hook, taken>>

\* survive_simple_close, after the thread has been joined.
Close ==
  /\ app = "idle" /\ ~running /\ thread \in {"none", "done"}
  /\ app' = "closed"
  /\ UNCHANGED <<ring, list, flag, fresh, depth, running, thread, hook,
                 cursor, result, taken>>

NextEvent == PopEvent \/ PopNothing \/ ScanPast \/ ScanHit \/ ClearFlag
             \/ ReadPose \/ ScanEnd
-----------------------------------------------------------------------------
Next ==
  \/ \E o \in Objects : InitObject(o) \/ \E p \in BOOLEAN : InitLighthouse(o, p)
  \/ InitDone
  \/ HookStep \/ LeavePoll \/ ThreadEnd
  \/ StartThread \/ StopThread \/ Joined
  \/ WaitForEvent \/ WaitOver \/ NextEvent
  \/ Close

Spec == Init /\ [][Next]_vars

(***************************************************************************)
(* The application goes on calling next_event or wait_for_event until it   *)
(* closes, a wait ends after 100 ms at the latest, and a join returns when *)
(* the thread has ended.                                                   *)
(***************************************************************************)
FairSpec == Spec /\ WF_vars(InitDone) /\ WF_vars(Joined)
                 /\ WF_vars(NextEvent \/ WaitForEvent \/ WaitOver)
-----------------------------------------------------------------------------
(* Properties.                                                             *)

\* Every variable has its type.
TypeOK ==
  /\ events \in [Slots -> Events \cup {None, Invalid}]
  /\ nextWrite \in Slots /\ cnt \in 0 .. RingSize
  /\ list \in Seq(Objects)
  /\ flag \in [Objects -> BOOLEAN] /\ fresh \in [Objects -> BOOLEAN]
  /\ depth \in 0 .. 2
  /\ running \in BOOLEAN
  /\ thread \in {"none", "polling", "leaving", "done"}
  /\ hook \in {Idle} \cup
        ({"announce", "mark", "create", "added", "button"} \X Objects)
  /\ app \in {"init", "idle", "waiting", "waited", "scan", "waitscan", "clear",
              "read", "join", "closed"}
  /\ cursor \in Nat \ {0}
  /\ result \in {"None", "NoneAfterWait", "Event", "Update", "Shutdown"}
  /\ taken \in {<<>>} \cup {<<e>> : e \in Events \cup {None, Invalid}}

\* The k-th kept event, counted from the oldest one.
SlotOf(k) == IF OldestIndex + k >= RingSize THEN OldestIndex + k - RingSize
                                            ELSE OldestIndex + k

\* What the assertion in pop_from_event_buffer asks for ("this means there is
\* a logic bug in the circular buffer"), for every event still to be read:
\* none of them sits in a slot that was read before or never written.
PendingValid == \A k \in 0 .. cnt - 1 : events[SlotOf(k)] \in Events

Queued == [k \in 1 .. cnt |-> events[SlotOf(k - 1)]]

Queue == INSTANCE DropOldestQueue WITH Capacity <- RingSize, q <- Queued

\* The ring implements a bounded queue that drops its oldest event: a burst of
\* events never reorders, repeats or tears what the application still gets.
ImplementsQueue == Queue!Spec

\* The hooks leave poll_mutex as they found it: create_lighthouse takes a
\* second level of it, and insert_into_event_buffer gives one back for it.
MutexBalanced ==
  depth = IF hook = Idle \/ hook[1] = "announce" THEN 0
          ELSE IF hook[1] = "added" THEN 2 ELSE 1

\* No update is lost to the unlocked use of has_update: data newer than what
\* the application has read is marked, or is about to be, or is about to be
\* read (get_next_updated clears the flag before the pose is read).
NoUpdateLost ==
  \A o \in Objects : fresh[o] =>
    \/ flag[o]
    \/ hook \in {At("mark", o), At("create", o), At("added", o)}
    \/ app \in {"clear", "read"} /\ list[cursor] = o

\* The application hears of a shutdown only when no hook can run any more.
ShutdownAfterThread ==
  result = "Shutdown" => thread \in {"none", "done"} /\ hook = Idle

\* Once the thread has ended, an application that keeps asking gets what is
\* pending and then the shutdown: nothing is handed out again and again.
ShutdownReported ==
  thread = "done" ~> (result = "Shutdown" \/ thread # "done" \/ app = "closed")

\* "Gets the next system event if there is one" (survive_simple_next_event,
\* survive_api.h): a shutdown is not returned in the place of an event.
ShutdownIsLast == result = "Shutdown" => cnt = 0
=============================================================================
