# libsurvive in TLA+

Models of the concurrent and stateful parts of libsurvive, the configurations
with which TLC checks them on small instances, and theorems about them that
TLAPS proves for every value of the constants.

libsurvive tracks devices by the light of base stations (lighthouses).  Drivers
turn USB reports into hooks ("light", "sync", "sweep", "imu", "button", ...);
the default hooks keep a table of lighthouses, decode the data each lighthouse
sends (OOTX), feed filters, and call posers, which find poses of devices and of
lighthouses.  Applications use the hooks or the "simple API", which runs the
main loop on a thread of its own.

All of the state hangs off a `SurviveContext`.  One lock, the context lock
(`poll_sema`, `survive_get_ctx_lock`), is meant to cover all of it: handlers
run with it, `survive_poll` releases it only to sleep, and every thread that is
not the poller takes it before it touches the context.

## Inventory

Paths are under `src/src/` unless they say otherwise.

| component | state | operations | talks to | what is hard |
|---|---|---|---|---|
| **Button queue** (`survive.c` 160-220, `driver_vive.c` 1150-1300) | ring of 32 entries, two indices, a semaphore, masks per device | `registerButtonEvent`, `incrementAndPostButtonQueue`, `button_servicer` | packet handlers post, its thread calls the button hook with the context lock | a lock-free ring between two threads; full ring; close joins the thread |
| **Simple API** (`survive_api.c`) | list of objects with `has_update` flags, ring of 64 events, `running`, recursive `poll_mutex` | init, hooks, start/stop, `next_event`, `wait_for_event`, `next_updated`, close | hooks run inside `survive_poll` on its thread; the application calls from another | flags used without the mutex; ring overwrites; nested mutex; end of the thread |
| **OOTX decoder** (`ootx_decoder.c`) | preamble register, bit counts, buffer of 64 bytes | `ootx_pump_bit`, packet callbacks | fed by sync and light handlers, fills the lighthouse table | resynchronising in a stream with lost, skipped and wrong bits |
| **Threaded poser** (`poser.c` 400-525) | thread, `has_new_data`, copy of the last sync | create, sync, disassociate, thread function | wraps a poser (MPFIT), which gives up the context lock while it solves | three threads around one lock that is dropped in the middle of calls; join |
| **Global scene solver** (`driver_global_scene_solver.c`) | up to 32 scenes, `needsSolve`, two locks, thread | collect a scene, `ootx_received`, thread function, close | MPFIT's scene optimizer; the lighthouse table | a flag used under two locks and under none; lock order; join |
| **Lighthouse table** (`survive.c`, `survive_process*.c`, `survive_config.c`) | `bsd`, `bsd_map`, `activeLighthouses`, `lh_version`, the configuration file | `survive_get_bsd_idx`, sync/sweep/light, OOTX packets, positions, detection of a generation, startup, close | all handlers and posers; the file | long sequences; crash and restart; a table read from a file by other rules than it was filled by |
| **Vive USB driver** (`driver_vive.c`, `.libusb.h`, `.config.h`) | devices, interfaces, transfers in flight, configuration packets | hotplug, transfers, close and reopen requests, reports | libusb callbacks; creates and destroys devices | completion of transfers in any order, timeouts, errors, reopen |
| Registry and main loop (`survive.c`, `survive_default_devices.c`, `survive_driverman.c`) | objects, drivers, threads of drivers | `survive_poll`, `survive_startup`, `survive_close`, add and remove | everything | objects freed while others point at them; order at close |
| **Sensor activations and timecodes** (`survive_sensor_activations.c`, `survive_process_gen2.c` 180-275) | last times and angles per sensor, time of the last sync | add, reset, long timecodes, counting of rotations | handlers, filters, posers | 24 and 32 bit clocks that wrap, clocks off by 2^28, late and lost samples |
| **Disambiguator** of generation 1 (`disambiguator_statebased.c`; detection of the generation in `survive_disambiguator.c`) | per device: state in the cycle, an offset per lighthouse, confidence, last 12 syncs, pulses of the sweep; 60Hz mode shared by all | a pulse, destruction | driver to light hook | finding and keeping the place in the cycle from noisy pulses, 32-bit times, a mode several devices share |
| Pose filters (`survive_kalman_*.c`) | Kalman states | integrate IMU, light, observation | handlers, posers | numerical |
| Optimizers and posers (`poser_*.c`, `survive_optimizer.c`) | problem in progress | solve | filters, table | numerical; give up the context lock |
| Asynchronous optimizer (`survive_async_optimizer.c`) | two problem buffers, thread | submit, thread function | nothing creates one | double buffering |
| Configuration store (`survive_config.c`) | tag/value groups, attached variables | get, set, attach, save, parse | everything | saved in place |
| Recording, playback (`survive_recording.c`, `driver_playback.c`) | file position, pacing | write, replay | hooks | formatting; time |
| Other drivers (simulator, usbmon, udp, gatt, openvr) | own sockets or files | poll, close | hooks | input from outside |
| Generated formulas, vendored libraries, tools, bindings | - | - | - | - |

What makes each modelled component correct:

* Button queue: it is a bounded FIFO from accepted events to the hook; the
  service thread never meets an empty slot; the hook excludes handlers.
* Simple API: it is a queue that drops its oldest event; no update of an object
  is lost; the mutex is balanced; a shutdown is real, comes last and comes.
* OOTX: sync and data bits are never confused; an intact frame is delivered
  once, whatever came before it.
* Posers: the context lock stays exclusive; no sync or request for a solve is
  forgotten; a poser is freed after its thread.
* Lighthouse table: channels and slots are each other's inverse; what is known
  is in the file, but that a position was given up; a station has the position
  of another only if an optimizer found it with the other's light.
* USB devices: the count of what is outstanding is exact, so that a record is
  freed when libusb has nothing of it any more, except for a transfer that the
  code itself freed in flight after a failure; objects and pointers to them end
  together; closing comes to an end.
* Times: light is as far from the IMU in 64 bits as it is on the device; each
  rotation gives the decoder one bit; a wrong time of a sync is got over.
* Disambiguator: who knows the state is right about it, and finds it again; what
  is told is what was seen; no device changes the mode under another.

## Modules

| module | what | extends |
|---|---|---|
| `EventFifo` | abstract: a bounded FIFO with its consumer | |
| `ButtonQueue` | ring, packet handlers, service thread, close | |
| `ButtonQueue_proofs` | proofs, and that the ring implements `EventFifo` | `ButtonQueue` |
| `DropOldestQueue` | abstract: a bounded queue that drops its oldest event | |
| `SimpleApi` | hooks, background thread, application | |
| `SimpleApi_proofs` | proofs, and that the ring implements `DropOldestQueue` | `SimpleApi` |
| `OotxDecoder` | `ootx_pump_bit` on any stream of bits | |
| `OotxLink` | a lighthouse, a faulty link and the decoder | `OotxDecoder` |
| `Ootx_proofs` | proofs about the decoder and the link | `OotxLink` |
| `PoserThreads` | threaded poser, global scene solver, handlers, locks | |
| `PoserThreads_proofs` | proofs | `PoserThreads` |
| `LighthouseTable` | table, generations, packets, file, restarts | |
| `LighthouseTable_proofs` | proofs | `LighthouseTable` |
| `UsbDevices` | devices, configuration packets, transfers, objects, close | |
| `UsbDevices_proofs` | proofs | `UsbDevices` |
| `LightTimes` | times of light and of IMU samples, rotations counted | |
| `LightTimes_proofs` | proofs | `LightTimes` |
| `Disambiguator` | pulses of generation 1 told apart, two lighthouses, several devices | |
| `Disambiguator_proofs` | proofs | `Disambiguator` |
| `MC...` | instances for TLC | the module named |

Mutants: an operator whose comment begins with "Mutant of" is a plausible
error in the operator that follows it, used to make sure that a property can
fail.  No specification uses one.

### ButtonQueue

Variables are the fields of `ctx->buttonQueue`, the semaphore's count, the
context lock, and a program counter for each of the two threads.  Main stands
for whoever runs a packet handler; it posts item by item (`Post`), since the
service thread reads the ring at any point in between, polls, sleeps without
the lock, and closes (`CloseBegin` .. `CloseDone`).  The service thread's loop
is cut where it touches shared state: semaphore, test of `populated`, lock,
hook, advance of the index.  What a button id means is abstracted to an item
number.

`nextReadIndex++; if (nextReadIndex >= MAX) nextReadIndex = 0` is a race with
the poster in C, so the value one past the end is a state of its own
(`ServeAdvancePastEnd`, then `ServeWrap`).  A poster that compares with it just then, its
own index at the end of the ring, does not find the ring full and overruns it
(`PostOverrun`): read and write index are equal, all entries are populated, and
a later wake-up of the service thread meets an empty slot and ends it
(`ServeUnpopulated`).  The abstract FIFO has that one step too, as `Overrun`;
the refinement says that every other step is a step of a FIFO, and
`ServicerSurvives` that the thread dies of nothing else.

### SimpleApi

Hooks are cut at every access outside of `poll_mutex` (`Publish`, `Mark`, ...).
`depth` is the level of the recursive mutex the hook in progress holds:
`create_lighthouse` takes a second level and `insert_into_event_buffer` gives
it back.  The application's calls are cut where they give up the mutex or read
`running` and `has_update` without it (`PopEvent`, `ScanHit`, `ClearFlag`,
`ReadPose`, `ScanEnd`).  `fresh` is a history variable: the data of the object
is newer than what the application has read.

### OotxDecoder and OotxLink

`Pump(d)` is one call of `ootx_pump_bit`; its five disjuncts are the paths of
the function.  `zeros` stands for the 32-bit preamble register, of which the
code only asks how many zeros end it.  `OotxLink` sends whole frames at the
code's sizes (8-bit bytes, buffer of 64) with a bounded number of faults: a
skipped rotation (the decoder is given -1), a bit flipped, lost or repeated.
What it sends is `SentPayload` and `SentCrc`, any bytes; `LinkAssumption` says
that the packet and its length fit, and that the checksum sent is the one the
decoder computes.

### PoserThreads

Program counters for main, the poser's thread and the solver's thread; the
places where `run_mpfit_find_3d_structure`, `solve_global_scene`, the joins and
`survive_poll` give up the context lock are steps of their own.  Sections under
`data_available_lock` and `scenes_lock` are one step of main, and states of the
threads.  Condition variables may wake up by themselves.

### LighthouseTable

`ctx` is a record of the fields of `SurviveContext` that matter, and each
function of the code is an operator from contexts to contexts, composed as the
code composes them: `Light` is `Claim`, then `Notify`, then `Ootx`.  Handlers
run with the context lock, so each is one step.  `Load` is `survive_init`: it
fills the table from the file.  `Close` saves and starts again; `Crash` starts
again from the file as it is.  `gens`, a history variable, is the set of
generations detected since the file was made: when the generation changes, the
code resets the table and not `bsd_map` or `activeLighthouses`, and the
properties that this breaks are stated for systems where it has not happened.
Positions are told apart by the station whose light they were found with, and
take effect at once, where the code moves a lighthouse over up to a second.

A position comes from an optimizer that gives up the context lock while it
solves (`poser_mpfit.c` 709-712, 952-958), or from scenes that the global solver
keeps by slot; a packet may put another station in the slot in the meantime.  So
`Pose(i, s)` stores, for whoever is in slot `i`, a position found with the light
of any station `s`.  Storing it, for each lighthouse the hook and the save of
`survive_default_raw_lighthouse_pose_process`, is one step.  Two handlers give
positions up and save nothing: `AdjustConfidence`
(`survive_lighthouse_adjust_confidence`) for one slot, `LoseTracking`
(`survive_kalman_tracker_lost_tracking`, `survive_reset_lighthouse_positions`)
for all of them.

What reading and checking this part showed, besides the disagreement below:

* a station can get the position of the one that was on its channel before, if a
  solve was under way when its packet came, or a scene of the old one was kept.
  It is saved with it, and has it at the next start;
* a position that was given up is still in the configuration, from which
  `survive_close` and every later save of another slot write the file; so the
  program starts again with a position it had found bad, also after an orderly
  end.

### UsbDevices

The build with libusb.  A `SurviveUSBInfo` and the object it makes are named by
their address, a member of `Infos`, which is used again after a record is freed:
so an address is what a stale pointer still holds.  `dev`, `so`, `owns`, `cfg`,
`stage`, `due`, `tx`, `timeouts`, `active`, `shut` and `asked` are fields of the
record, `board` and `imu` of the driver, `objs` is `ctx->objs`.  All of it runs
on one thread: each callback of libusb (`Add`, `ConfigTx`, `Transfer`) and each
poll of one device (`PollDevice`) is a step, and they come in any order, which
includes every order of the list `udev` and of libusb's events.  A transfer is
`none`, `flying` (with libusb), `timed` (with a timeout) or `idle` (allocated
and counted, but not with libusb).

A transfer that fails otherwise than by a timeout is submitted again, and then
the device is closed, the transfer freed and counted down, all the same
(`driver_vive.libusb.h` 226-237, 278-295).  `TransferBreaks` does all of this; the
freed transfer, which libusb still has, is from then on in `loose`, where it stays
when the record is freed and its address used again.  The device is asked to be
freed when the count is zero, as for any other: so the callback of a loose
transfer meets a freed transfer, and maybe a freed record or another device's.
`FreedWhenQuiet` exempts these transfers by name, and says that nothing else of
a device that is asked to be freed is with libusb or will be.

`Fails` ends the model where the code's behaviour is undefined: a packet
submitted that does not exist (`nullPacket`), libusb back at a transfer that was
freed (`freedInFlight`, by `LooseReturns`; it may also never come back), an
object unregistered that is not registered (`strayObject`).  Each is reached only
in the way its action names, and the properties say so where it matters
(`PacketsExist`, `FreedWhenQuiet`).

What reading and checking this part showed, besides the disagreement below: a
transfer that could not be submitted stays counted, and `survive_vive_close`
then waits for ever (`Stuck`); the search for a free name starts again at the
second object, so it can end with a name that is in use; a mainboard gets the
headset's object only if it arrives after the headset was configured; and one
failed transfer of a device that is plugged in is enough for libusb to have a
transfer that is freed.

### LightTimes

`now` is the device's clock in full, which no code sees: samples and light are
its value cut to 32 bits, 24 bits, or off by a multiple of 2^28, and the code's
long times are compared with it.  One step is a report of the IMU (`Imu`, whose
samples may be late, lost or repeated), a rotation whose sync is received
(`Rotate`, with syncs lost before it), a sweep, a pulse of generation 1, light
that only notifies the generation (`Detect`), an outage, a false sync, or the
device switched off and on.  The handlers are whole: `Rotate` is the conversion
`fix_time24`, the test of the rate, the bits for skipped rotations and the light
added to the activations.

History variables: `imuTime` is the clock at the sample `last_imu` stands for,
`lightError` how much too late the last light was told, `steady` that the IMU
was never silent for half of 2^32 ticks since the reset, `clean` that in this
series syncs were only lost, `synced`, `ahead` and `refused` count rotations,
bits and syncs; `stalled` is when the first sync of the row now refused came.
The properties leave out, by these variables and by `InSight`, `InStep` and
`InRow`, what the code does not get right:

* own syncs whose distance is a multiple of the whole range of the clock, 89 s,
  may be refused one after the other for ever: a row of refused syncs is of half
  that range;

* an IMU silent for more than half of 2^28 ticks (2.8 s) shifts light of
  generation 1, and for more than half of 2^24 (0.17 s) light of generation 2;
* `fix_time24` does not step back below the first 2^24 of each 2^32 ticks: once
  in 89 s, light before a sample just past the wrap is told 2^24 ticks late;
* the difference of two times is one tick short across the wrap, and mirrored
  beyond half the range; the time 0 counts as no time;
* a corrected time below 0 wraps in 64 bits and stays in `last_light`;
* 128 or more samples lost make the next ones look old, by their 8-bit number;
* a false sync within the rate of the channel, or a sync received twice, gives
  a bit too many;
* the reset on the first detection leaves `last_sync_time` and `oldcode`;
* the assertion in `SurviveSensorActivations_stationary_time` fails after the
  device was switched off and on.

### Disambiguator

`disamb[o]` is the `Disambiguator_data_t` of a device, `mode60` the shared
`single_60hz_mode`, and the functions of the code are operators from states of
all devices to states (a record of both, and of what was told to the light hook),
composed as the code composes them: `StateBased` is the whole of
`DisambiguatorStateBased` for one pulse.  The world has the true cycle:
lighthouses send slot by slot (`Turn`), a sensor sees a slot's light (`Sync`,
`Sweep`) or misses it, there is other light (`Stray`), lighthouses come into
sight and go (`Look`), a device is destroyed and made again (`Destroy`).  `boot`
is what a device's clock showed at time 0; no code sees `now`.

History variables: a pulse that is a lighthouse's sync carries its full time as
`of`, the syncs registered and kept in the history keep it, and `base` is the
time of the start of the cycle that a `mod` was taken for.  No code reads them.
`heard` is the last sync a device saw, its data bit, and whether the one before
was a whole number of cycles earlier; `clean` how many syncs in a row it saw
undisturbed.  `astray` is that something the code cannot notice misled the
device:

* it registered other light in a window of syncs (`Misled`);
* its state was found from syncs that do not tell the state (`Telling`);
* the cycle it follows is, but for a slot and a sync, from half the clock's range ago (`Stale`);
* a lone lighthouse, taken for the other, was joined by it;
* the mode was lost by a destruction, or while it had no confidence (`Unsure`).

What reading and checking this part showed, besides the properties:

* one lighthouse of two, seen alone, may be taken for the other, half a cycle
  away.  When the other appears, its syncs fall in windows of sweeps, where
  confidence is lost without limit, and the state is never given up: "if we ever
  go into the negatives reset the state machine" (`disambiguator_statebased.c`
  568-570) holds of misses in windows of syncs only;
* an offset of a lighthouse unseen for half of the clock's range, over a wrap, is
  wrong, and the assertion on line 686 may then fail;
* two syncs of a cycle or more apart, with no light between, become one, with the
  longer length: the data bit told may be the wrong one;
* a clock that wraps within the history delays the finding of the state until
  the history is from after it;
* `delta % end_of_mod` (line 618) takes the remainder by the number of a state,
  not by the length of the cycle, so the warning of drift never comes.

## Runs

| run | what it shows | bounds, and why they are enough |
|---|---|---|
| `button_queue` | slots and semaphore agree; the ring implements `EventFifo`; events accepted are served; the hook excludes handlers | 3 slots: empty, full, wrapped, split and overrun windows all occur; one device with two items, so that the ring fills in the middle of a report |
| `button_close_hang` | **violation** of `CloseCompletes` | as above |
| `simple_api` | queue refinement, flags, mutex, shutdown | ring of 2: it wraps and overwrites at once; an object of each of the three kinds |
| `simple_api_shutdown` | **violation** of `ShutdownIsLast` | as above |
| `ootx_link` | alignment, resynchronisation, delivery once, filling in of skipped bits | 8-bit bytes, 2 frames, 2 faults anywhere: one that disturbs a frame and one in the next |
| `poser_threads` | locks, no lost sync, no lost request, join and free | 2 syncs and 2 scenes: one in progress and one that overtakes it |
| `lighthouse_table` | table, map and restarts agree; table and file part only where a position is given up; only an optimizer gives a station another's position | 2 slots and channels, 2 stations: gaps in the table, a full table, a second station on a channel, both generations, any number of restarts; stations are symmetric |
| `calibrate_all` | **violation** of `AllCleared` | as above |
| `usb_devices` | exact count, nothing freed too early but what is loose, objects and pointers; close ends, also after a transfer was freed in flight | a mainboard, a headset of two interfaces and a dongle; 2 records, so that one is used again while the other is alive; 3 times plugged in: each device, or one of them again while its old record is still listed, with another device; the wait of `survive_vive_close` is for each record by itself, but for the mainboard's, which is closed with the headset's |
| `usb_silence` | **violation** of `SilenceNoticed` | one dongle |
| `light_times` | times of light, bits per rotation, recovery, last movement | 8 rotations around the wrap of the clock, or from early in its range, so that a restart leaves a time well ahead; the clock's ratios are those of the code with 1000 ticks to a rotation; one fault; `MaxMissed` is 1 instead of 10, so that a loss beyond it fits; the bound in `Resyncs`, 6 syncs here, is reached |
| `disambiguator` | state found, kept and found again; syncs and sweeps told truly; the shared mode | 2 devices with one sensor each, 28 slots: the state is found after 5 or 6, so it is kept over a cycle and a wrap of the clock, given up and found again; history of 3 instead of 12 syncs, confidence of 3 instead of 100, in proportion; a unit of 250 ticks, finer than all thresholds on lengths; one fault of each kind, at any time (with two faults a history of 3 syncs would be mostly faults) |

Deadlock is not checked where the system really stops: after a close, after the
last frame, at the last slot of `Disambiguator`, or in the hang that
`button_close_hang` is about.

### Disagreements found

* `survive_close` joins the button thread while it holds the context lock. If
  that thread is past its test of the context's state, it waits for the lock,
  and neither goes on (`button_close_hang`).
* `survive_simple_next_event` can return the shutdown while an event is in the
  ring: it reads `running` after the pop and without the mutex
  (`simple_api_shutdown`).
* `--force-calibrate` clears the slots below the number of lighthouses found in
  the file, not up to the last one in use: if slot 0 was claimed by a channel
  whose OOTX data never came, slot 1 is stored, comes back alone, and keeps its
  position (`calibrate_all`).
* A transfer that times out is not submitted again until the third timeout in a
  row, which it therefore never has: the warning that the device is being turned
  off, and the close after it, do not come, and the transfer stays counted
  (`usb_silence`).

### Fairness

Safety is stated of `Spec`, without fairness.  Liveness uses `FairSpec`:

* `ButtonQueue`: threads keep running; `survive_poll` handles finitely many
  packets and then sleeps `poll_min_time_ms` without the lock, so it releases
  again and again, and a thread waiting for the lock gets it if it is free again
  and again (strong fairness of `ServeLock`).  Nothing makes main close.
* `SimpleApi`: the application keeps calling until it closes, a wait ends after
  its 100 ms, a join returns when the thread has ended.  No fairness between
  objects and none of hooks.
* `PoserThreads`: as for the buttons; besides, an optimizer's run ends
  (`mpfit` bounds its iterations), and a device that is plugged in keeps sending
  packets, whose handlers end in `check_object` (`Notify`): the solver's signal
  is lost when the thread is not waiting, and only the next handler repeats it.
* `UsbDevices`: the driver's thread goes on, so a device that asked for it is
  freed (`Reap`, `EndClose`) or a poll fails (`PollFails`); libusb reports every
  transfer it was told to cancel and every one whose device is gone
  (`ConfigCancelled`, `TransferDropped`).  Nothing makes a device send, time
  out, or be unplugged, so `SilenceNoticed` fails for the thread's own part.

## Proofs

Every theorem is proved from the assumptions on the constants that the modules
name, and nothing else.

* **ButtonQueue** (`QueueAssumption`).  The inductive invariant is `TypeOK /\ PhaseInv /\ RingInv`.  The ring's conditions
  are not inductive alone: the count of the semaphore includes the wake-up that
  `survive_close` posts, so it needs `PhaseInv`, which ties main's place, the
  context's state and the owner of the lock; and the entry being served must be
  in the window (`ServedInWindow`), or advancing the index could pass the
  writer.  `QueueRefinement` shows that each step is an accept, a delivery, or
  leaves `Queued` alone: the queue is read off the ring, less the entry already
  handed over.  The ring's part holds until the ring is overrun; the theorems
  follow that state (`mpc = "overrun"`) as well.
* **SimpleApi** (`RingAssumption`).  `PendingValid` follows from the arithmetic
  of `OldestIndex`; the refinement from how insert and pop move the window.
  `NoUpdateLost` needs `CursorInv`, `ShutdownAfterThread` needs `ThreadInv`.
* **OotxDecoder, OotxLink** (`DecoderAssumption`, `LinkAssumption`).  `TypeOK /\
  WordsAligned /\ IdleAtStart` is inductive for any stream of bits; the cases are
  the five paths of `ootx_pump_bit`.  The CRC is an uninterpreted constant
  operator.  `Resynchronises` and `SkipsMadeUp` are about the link, for every
  payload, every length that fits and any number of faults.  Their invariant
  `LinkInv` has a part for clean frames and one for frames with skipped bits: from
  the end of the preamble on the decoder is in step with the lighthouse and its
  buffer holds what was sent so far, and behind it, for the bits that will be
  skipped, what the frame before left there.  A clean frame comes to this by its
  preamble, whatever was before it; a frame with skipped bits, if the one before
  was clean and left the decoder idle.  That the length is read back needs
  that the bits of a number have it as their value; there the induction is over
  the places of one byte, by the least counterexample (`SumsUnique`,
  `PowerSum`).
* **PoserThreads**.  `LockInv` gives the value of `poll_sema` in terms of the
  places that hold the lock, from which exclusion follows; `SyncInv` says that a
  sync is run, flagged or about to be run; `SolveInv` does the same for requests.
* **LighthouseTable** (`TableAssumption`: at least two slots and at most 255,
  since 255 is the mode of a free slot).  The invariant is the conjunction of
  types, `Sound(ctx)` and, on a system of generation 2, `Agrees(ctx)`.  `Sound`
  relates table, configuration and file slot by slot: the file is what the
  configuration says, from which the next save is made (without that the file's
  condition is not inductive), and the configuration has what the table has, or
  that with a position that the table has given up.  `Agrees` is that map
  and table are inverse, that no decoder, version or file of generation 1 is
  about (or a reset or a packet of generation 1 could change a mode).  Since the
  model composes operators, there is a lemma per operator (`SaveSound`,
  `ClaimAgrees`, ...) and an action's proof composes them.  `SlotsStay` follows
  from `Sound`: a known station's slot is in the file with its channel, and no
  other slot of the file has that channel, so a start gives it the same one.
  `LoopsInTable` has an invariant of its own, `CountInv`: while one generation
  at the most was detected, `activeLighthouses` is no more than the number of
  slots in use, since `Claim` takes a free one for each it counts.
  `OnlyResetsUnsaved` shows of each handler that a slot whose data is saved is
  so afterwards, but for the two that give positions up.  `PositionsBelong` is
  about a step: positions in table, configuration and file are each carried along
  with their station or dropped (`Carries`), by every operator but the one that
  stores what an optimizer found, and the file follows the configuration
  (`FileFollows`).
* **UsbDevices** (`DevicesAssumption`).  `UsbInv` is types, `DeviceOK` (a record
  in use, its packet, its transfers and its count fit together, from which
  `CountExact` and `FreedWhenQuiet` follow; a transfer that is freed in flight is
  counted down like any other, so what is loose has no part in it), `RolesOK` (who is mainboard and who
  headset, and whose object the mainboard may point to) and `ObjectsOK` (an
  object is made, owned and registered together unless an error stopped the
  loop).  `ObjectsLive` alone is not inductive: that the mainboard's pointer is
  taken back depends on which record is the headset.
* **LightTimes** (`TicksAssumption`, `WorldAssumption`).  Each conversion keeps
  its argument modulo the range it had (`LongKept`, `FixKept`,
  `LightSteps`) and answers something near to the last sample; near and
  congruent is equal (`LongExact`, `FixExact`, `LightExact`).  So the long time of the IMU is the device's clock up to a
  constant (`ImuAgrees`), light is told against it, and a rotation is counted
  since the difference of two times is within one tick of a multiple of the
  period.  `SyncsAcceptedAgain` bounds the syncs refused after a wrong time.  Its
  invariant `RowInv` says of the row that began at `stalled` that its syncs are
  rotations apart and, until the time of the last sync is given up, that the
  first was less than `MaxMissed + 2` rotations from it, on one side or the
  other; a further one is refused only if it is too, so their number is bounded
  by the space on both sides.  This needs that these rotations are a quarter of the
  clock's range at the most (`TicksAssumption`; in the code 12 rotations of
  960000 ticks against 2^32).  The proof failed for the bound the
  runs had before: with an odd number of ticks to a rotation a wrap of the clock
  gives room for one more, and syncs 89 s apart have no bound at all; both are
  in the property now.  `IInv` is types, `LightMatchesImu`, `MovementPast`, `ImuAgrees`,
  `SeriesAgrees` (the time of the last sync is that of `synced`) and
  `SamplesAgree` (`oldcode` is the number of the last sample).

* **Disambiguator** (`DisambiguatorAssumption`; `ClockAssumption`: a unit of
  time is no more than 500 ticks, and two cycles, 3.2 million ticks, are within the
  clock's range; `PlacesAssumption`: a sweep hits in its own window).  Each function of the code is a
  `Step` of one device: it gives a state of the right type, leaves the other
  devices' data alone, and the mode too if another is sure of its state.  Steps
  compose (`StepTrans`), so there is a lemma per function.  Types need that a
  window is found for every offset (`StateFound`, the `assert(false)` of
  `LighthouseState_findByOffset`), since the state indexes the table.

  Three facts about the code's operators hold in a clock that started anywhere
  and wraps: from one sync of known state less than half the clock's range ago, the
  offset in the cycle is found, or one unit less (`CycleFound`);
  `LighthouseState_findByOffset` answers the state whose window it is, in the
  first half of a window of syncs and in a window of a sweep but for its last
  1000 ticks (`StateRight`); so a pulse that is clear of a window's edges is put
  in it (`PulsePlaced`).

  `LockRight` is not inductive: it says nothing of the history the next state is
  found from, nor of the sync being registered, from which the next `mod` is
  taken.  `LockInv` adds `Clockwork` (time is a sum of windows, and the slot is
  the one it falls in), `Ready` (what an object that looks for its state has in history and
  registers is stamped with the time it is tagged with, and as long as a sync of that
  time) and `Rightly`: who knows its state and is not astray is in the
  lighthouses' mode, its bases are the start of a cycle, or half a cycle off
  under a lone lighthouse, and what it registers belongs to the window it is in.
  Then: the syncs of a cycle have lengths that fit at one place of the table
  only, so a guess all of the history fits is the right one, if the history tells
  (`GuessRight`); a sync is put in the window it starts (`SyncPlaced`), so that the start
  of the cycle taken from it on leaving is right again; and a step of another
  device changes at most the mode, which is a case of `astray`.

  `SyncTrue` needs `HeardInv` as well: what is registered is the sync heard
  last, or one that is whole cycles before it with nothing heard in between.  A pulse makes
  the code tell only of what was registered before it (`PulseTells`), the time of
  a stamp is found again (`TimeFound`), and the nearer of the two lengths of a
  slot gives the bit that was sent (`BitTold`).

  `AngleTrue` needs `HitInv` as well: what an object keeps of a sweep came at a time
  since the start of the cycle it follows, and its middle was in the window of the
  state (`PulseHits`).  The code computes the offset again when the window ends, and
  both times it may lose a unit (`SeenFrom`); it is still after the sync, since
  `findByOffset` gives no pulse to a sweep from before the second half of the
  window of syncs before it (`FoundSweep`, `SweepSeen`).  That the sweep is the
  lighthouse's, or the other's half a cycle away, is `SweepOff`.

Types are theorems and not listed in the runs; those of `OotxDecoder`
(`DecoderTyped`) bound the position in the buffer, for any stream.  The theorems `WindowSafe`, `PopsAreValid` and `FramesStartAtZero` state parts of
the inductive invariants that no run lists by themselves.

Only model-checked:

* liveness (`EventsServed`, `ShutdownReported`, `JoinReturns`, `SolveHappens`,
  `CloseEnds`), which needs fairness and `ENABLED`;
* `DeliveredOnce`: it is a fact about few faults.  With enough of them, and any
  checksum, a repeated sync bit can make the decoder read a frame that was never
  sent, and an unknown bit keeps the buffer's old value, so a frame can be
  delivered again;
* `Restabilises`: it also is a fact about few faults.  A device that found the
  wrong mode from enough stray light, and is sure of it, keeps every other
  device from finding its state (`find_relative_offset` tries only the mode of
  `get_best_latest_state`), however many syncs that one sees; and where the clock's
  range is only a few cycles, a wrap may be in every history.  What it says of an
  object that knows its state follows from `LockIsRight`.

## Left out, and why

* What is computed: poses, angles, filters, optimizers.  Real numbers and
  matrices are out of reach of both tools.
* Bytes: layouts of reports, of the packet's fields, of the file.
* A write of the configuration file that is cut short: `config_save` truncates
  it and writes in place, so a crash then loses everything.  Saves are one step.
* In `LighthouseTable`: the "disable" flag (which claiming a slot also clears),
  `force-ootx` and `use-ootx`, SteamVR's database, setting the floor, and a
  decoder fed by a device that is gone.  `Light` assumes a slot is found.
* In `PoserThreads`: several objects, more than 32 scenes, and
  `solve_count_max`.
* In `UsbDevices`: the build with hidapi, `request_reopen`, the paths of opening
  a device that fail half-way, more than `MAX_USB_DEVS` devices (the code does
  not check), and that two callbacks run without the context lock.  A submission
  fails only when the device is gone.  Whether an object is a headset, whose
  transfers have no timeout, is the `device_class` of its configuration
  (`HmdClass`), which takes effect with `CONFIG`, and not, as in the code, with the
  answer to `VERSION`; one that does not parse is not modelled.
* In `ButtonQueue`: the post of the semaphore and the clearing of the next slot
  after it (`incrementAndPostButtonQueue`) are one step; the service thread does
  not reach the slot in between, since the count is of the slots before it.
* In `LightTimes`: drift of the clocks: a rotation is exactly `predicted_time`
  ticks.  With drift, the time since a sync that was followed by a loss of many
  seconds leaves a rest of more than the 1 Hz that `survive_process_gen2.c`
  allows, and the sync is refused; `BitPerRotation` does not speak of that.  And
  angles and with them the outlier test (a choice), the time
  between syncs and the phase of a sweep, samples of watchmen (which have no
  number), and light of a lighthouse beyond the table.
* In `Disambiguator`: drift of the clocks, more than one sensor in the checked
  instance, what a sync announces and the event that ends a sweep, statistics
  and warnings; `handle_lightcap`'s thresholds.
* In `OotxLink`: an unknown bit that is the last zero of a preamble.
  `ootx_detect_preamble` tests 17 bits of a register it has already shifted, so
  it takes that bit for the end of the preamble, and the frame is lost.
* `PROJECT.json` lists the other components, each with its reason, and for each
  hazard the property that covers it or why none does.

## Plan

In this order.

1. The movement of a lighthouse
   (`survive_get_lighthouse_position`, `SetScenePositions`) and the floor in
   `LighthouseTable`.
2. **Device registry**: `survive_add_driver` and `survive_poll` with a driver
   that fails, the order of `survive_close`, composed with `UsbDevices`.
3. `Disambiguator` composed with the detection of the generation and with
   `LightTimes`; what `Restabilises` needs of the other devices and of the clock, as a theorem.
4. `LightTimes` composed with `OotxLink`: the bits a series gives are those of
   the frame; what `DeliveredOnce` needs of the faults, as a theorem.
5. Configuration store, asynchronous optimizer, control of the filters and
   of MPFIT, pacing of playback.
