----------------------------- MODULE UsbDevices -----------------------------
(***************************************************************************)
(* The USB side of the Vive driver, built with libusb: devices that come   *)
(* and go, the configuration packet that goes back and forth to each of    *)
(* them, the transfers of its interfaces, and the counter of what is       *)
(* outstanding by which a device is closed and freed.                      *)
(*                                                                         *)
(* One thread runs it all: it polls each device on the list udev, and then *)
(* lets libusb call back for any transfer in flight and any device that    *)
(* arrived. The model lets the polls of the single devices and the         *)
(* callbacks come in any order, which includes every order of the list.    *)
(* The application may close the driver, which waits until udev is empty,  *)
(* and stops polling after an error.                                       *)
(*                                                                         *)
(* A record SurviveUSBInfo, and the object it makes, are named by their    *)
(* address, a member of Infos. Undefined behaviour stops the model: fault  *)
(* says which of three kinds it was. A transfer that is freed while libusb *)
(* has it is only that once libusb comes back to it, if it ever does: the  *)
(* code goes on in the meantime, and closes and frees the device.          *)
(***************************************************************************)
EXTENDS Integers, Sequences, FiniteSets

CONSTANTS
  Devices,    \* the devices of KnownDeviceTypes that may be plugged in
  Boards,     \* those of type USB_DEV_HMD: a mainboard, with no codename
  Headsets,   \* those of type USB_DEV_HMD_IMU_LH
  HmdClass,   \* those whose configuration says "hmd"
  Codename,   \* Codename[d] : the first letters of the codename of d
  Endpoints,  \* Endpoints[d] : the interfaces of d
  Infos,      \* addresses of the records, which bound how many live at a time
  MaxPlugs    \* bound on how often a device is plugged in

Nothing == "nothing"  \* a null pointer

Ends == UNION {Endpoints[d] : d \in Devices}

ASSUME DevicesAssumption ==
  /\ Nothing \notin Infos /\ Nothing \notin Devices
  /\ IsFiniteSet(Ends)
  /\ Boards \subseteq Devices /\ Headsets \subseteq Devices
  /\ Boards \cap Headsets = {}
  /\ MaxPlugs \in Nat

VARIABLES
  plugged, arrived, plugs,       \* what is plugged in, arrivals not yet reported
  board, imu,                    \* hmd_mainboard, hmd_imu
  dev, live,                     \* device_info; the handle still reaches the device
  so, owns,                      \* so, ownsObject
  active, shut, asked,           \* active_transfers, shutdown, request_close
  cfg, stage, due,               \* cfg_user, its state, nextCfgSubmitTime >= 0
  tx, timeouts,                  \* the interfaces' transfers, consecutive_timeouts
  loose,                         \* transfers that were freed while libusb had them
  made, objs, name,              \* the objects that exist, ctx->objs, codenames
  error, phase,                  \* ctx->currentError; whether the driver is closed
  fault

hardware == <<plugged, arrived, plugs>>
headset  == <<board, imu>>
objects  == <<so, owns, made, objs, name>>
packets  == <<cfg, stage, due>>
transfers == <<tx, timeouts, loose>>
ending   == <<active, shut, asked>>
control  == <<error, phase>>
vars == <<hardware, headset, dev, live, objects, packets, transfers, ending,
          control, fault>>

(* The records on the list udev: all that are in use.                      *)
Listed == {i \in Infos : dev[i] # Nothing}
Registered == {objs[k] : k \in DOMAIN objs}

(* In flight: libusb will call back. A "timed" transfer has a timeout.     *)
Flying(i, e) == tx[i][e] \in {"flying", "timed"}

NoName == <<Nothing, 0>>
NoTransfers == [e \in Ends |-> "none"]
NoTimeouts  == [e \in Ends |-> 0]

UsbInit ==
  /\ plugged = {} /\ arrived = {} /\ plugs = 0
  /\ board = Nothing /\ imu = Nothing
  /\ dev = [i \in Infos |-> Nothing] /\ live = {}
  /\ so = [i \in Infos |-> Nothing] /\ owns = {}
  /\ active = [i \in Infos |-> 0] /\ shut = {} /\ asked = {}
  /\ cfg = [i \in Infos |-> "none"] /\ stage = [i \in Infos |-> "config"]
  /\ due = {}
  /\ tx = [i \in Infos |-> NoTransfers]
  /\ timeouts = [i \in Infos |-> NoTimeouts] /\ loose = {}
  /\ made = {} /\ objs = <<>> /\ name = [i \in Infos |-> NoName]
  /\ error = FALSE /\ phase = "running"
  /\ fault = "none"

-----------------------------------------------------------------------------
(* The hardware                                                            *)

Plug(d) ==
  /\ plugs < MaxPlugs /\ d \notin plugged
  /\ plugged' = plugged \cup {d}
  /\ arrived' = arrived \cup {d}
  /\ plugs' = plugs + 1
  /\ UNCHANGED <<headset, dev, live, objects, packets, transfers, ending,
                 control, fault>>

(* Handles opened before lead nowhere, also when the device comes back.    *)
Unplug(d) ==
  /\ d \in plugged
  /\ plugged' = plugged \ {d}
  /\ arrived' = arrived \ {d}
  /\ live' = live \ {i \in Infos : dev[i] = d}
  /\ UNCHANGED <<plugs, headset, dev, objects, packets, transfers, ending,
                 control, fault>>

-----------------------------------------------------------------------------
(* Objects                                                                 *)

(* survive_create_device counts the last letter up while an object of that *)
(* name exists. After a match the loop starts again at the second object,  *)
(* so the first is compared with the first candidate only.                 *)
FreshName(family) ==
  LET from == IF Len(objs) > 0 /\ name[objs[1]] = <<family, 0>> THEN 1 ELSE 0
      Taken(n) == \E k \in 2..Len(objs) : name[objs[k]] = <<family, n>>
  IN  <<family, CHOOSE n \in from..(from + Len(objs)) :
                  ~Taken(n) /\ \A m \in from..(n - 1) : Taken(m)>>

(* survive_create_device and survive_add_object, which refuses a name that *)
(* is in use; the caller keeps the object all the same.                    *)
Clashes(family) == \E k \in DOMAIN objs : name[objs[k]] = FreshName(family)

MakeObject(i) ==
  LET family == Codename[dev[i]]
  IN  /\ made' = made \cup {i}
      /\ name' = [name EXCEPT ![i] = FreshName(family)]
      /\ objs' = IF Clashes(family) THEN objs ELSE Append(objs, i)
      /\ so' = [so EXCEPT ![i] = i]
      /\ owns' = owns \cup {i}

(* The last entry takes the place of entry k.                              *)
SwapRemove(s, k) ==
  [m \in 1..(Len(s) - 1) |-> IF m = k THEN s[Len(s)] ELSE s[m]]

IndexIn(s, x) == CHOOSE k \in DOMAIN s : s[k] = x

-----------------------------------------------------------------------------
\* Mutant of CloseUsbDevices: the device is freed without waiting for libusb.
CloseAtOnce(S, count) ==
  /\ shut' = shut \cup S
  /\ due' = due \ S
  /\ cfg' = [i \in Infos |-> IF i \in S \cap due \cap live THEN "flying" ELSE cfg[i]]
  /\ asked' = asked \cup S

(* survive_close_usb_device for every member of S, whose active_transfers  *)
(* are count: a configuration packet that waits is sent once more, so that *)
(* its cancellation will be reported; what is in flight is cancelled.      *)
CloseUsbDevices(S, count) ==
  /\ shut' = shut \cup S
  /\ due' = due \ S
  /\ cfg' = [i \in Infos |-> IF i \in S \cap due \cap live THEN "flying" ELSE cfg[i]]
  /\ asked' = asked \cup {i \in S : count[i] = 0}

\* Mutant of AskAtZero: the count is tested before it is taken down.
AskNever(i) == asked' = IF active[i] = 0 THEN asked \cup {i} ELSE asked

(* The last of what is outstanding asks for the device to be freed.        *)
AskAtZero(i) == asked' = IF active[i] = 1 THEN asked \cup {i} ELSE asked

(* survive_config_submit with no packet.                                   *)
NullPacket(S) == \E i \in S \cap due : cfg[i] = "none"

Fails(kind) ==
  /\ fault' = kind
  /\ UNCHANGED <<hardware, headset, dev, live, objects, packets, transfers,
                 ending, control>>

-----------------------------------------------------------------------------
(* survive_vive_add_usb_device, from the hotplug callback                  *)

\* Mutant of StartGetConfig: the packet is only made when it is first sent.
StartWithoutPacket(i, d) ==
  /\ active' = [active EXCEPT ![i] = 1]
  /\ cfg' = cfg
  /\ stage' = [stage EXCEPT ![i] = IF d \in Boards THEN "setup" ELSE "config"]
  /\ due' = due \cup {i}

(* The record is filled in and its configuration packet made.              *)
StartGetConfig(i, d) ==
  /\ active' = [active EXCEPT ![i] = 1]
  /\ cfg' = [cfg EXCEPT ![i] = "idle"]
  /\ stage' = [stage EXCEPT ![i] = IF d \in Boards THEN "setup" ELSE "config"]
  /\ due' = due \cup {i}

Enlist(i, d) ==
  /\ dev[i] = Nothing
  /\ dev' = [dev EXCEPT ![i] = d]
  /\ live' = live \cup {i}

Arrives(d) ==
  /\ phase = "running" /\ fault = "none"
  /\ d \in arrived
  /\ arrived' = arrived \ {d}
  /\ UNCHANGED <<plugged, plugs, made, objs, name, transfers, shut, asked, control, fault>>

AddDevice(i, d) ==
  /\ Arrives(d) /\ Enlist(i, d) /\ StartGetConfig(i, d)
  /\ d \notin Boards \cup Headsets
  /\ UNCHANGED <<board, imu, so, owns>>

(* Mainboard and headset are tied when the second of them arrives.         *)
AddBoard(i, d) ==
  /\ Arrives(d) /\ Enlist(i, d) /\ StartGetConfig(i, d)
  /\ d \in Boards /\ board = Nothing
  /\ board' = i
  /\ so' = IF imu = Nothing THEN so ELSE [so EXCEPT ![i] = so[imu]]
  /\ UNCHANGED <<imu, owns>>

AddHeadset(i, d) ==
  /\ Arrives(d) /\ Enlist(i, d) /\ StartGetConfig(i, d)
  /\ d \in Headsets /\ imu = Nothing
  /\ imu' = i
  /\ so' = IF board = Nothing THEN so ELSE [so EXCEPT ![board] = so[i]]
  /\ UNCHANGED <<board, owns>>

(* A second mainboard, or one of another device class than 0, is taken off *)
(* the list again (its handle stays open).                                 *)
RefuseBoard(d) ==
  /\ Arrives(d)
  /\ d \in Boards
  /\ \E class_id \in {0, 1} : board # Nothing \/ class_id # 0
  /\ UNCHANGED <<headset, dev, live, so, owns, packets, active>>

(* A second headset stays on the list, as SV_CALLOC made it: with a        *)
(* nextCfgSubmitTime of 0 and no packet.                                   *)
RefuseHeadset(i, d) ==
  /\ Arrives(d) /\ Enlist(i, d)
  /\ d \in Headsets /\ imu # Nothing
  /\ due' = due \cup {i}
  /\ UNCHANGED <<board, imu, so, owns, cfg, stage, active>>

-----------------------------------------------------------------------------
(* handle_config_tx, the callback of the configuration packet              *)

ConfigReturns(i) ==
  /\ fault = "none"
  /\ cfg[i] = "flying"
  /\ UNCHANGED <<hardware, headset, dev, live, timeouts, loose, shut, phase, fault>>

\* Mutant of Attach: only a transfer that could be submitted is counted.
AttachCountsSent(i) ==
  /\ tx' = [tx EXCEPT ![i] = [e \in Ends |->
              IF e \notin Endpoints[dev[i]] THEN "none"
              ELSE IF i \in live THEN "flying" ELSE "idle"]]
  /\ active' = [active EXCEPT ![i] =
                  @ - 1 + IF i \in live THEN Cardinality(Endpoints[dev[i]]) ELSE 0]
  /\ cfg' = [cfg EXCEPT ![i] = "none"]
  /\ due' = due \ {i}
  /\ UNCHANGED asked

(* The label cleanup: the interfaces are attached, each with a transfer    *)
(* that is counted whether or not it could be submitted.                   *)
Attach(i) ==
  /\ tx' = [tx EXCEPT ![i] = [e \in Ends |->
              IF e \notin Endpoints[dev[i]] THEN "none"
              ELSE IF i \in live THEN "flying" ELSE "idle"]]
  /\ active' = [active EXCEPT ![i] = @ - 1 + Cardinality(Endpoints[dev[i]])]
  /\ cfg' = [cfg EXCEPT ![i] = "none"]
  /\ due' = due \ {i}
  /\ UNCHANGED asked

(* The device is being closed.                                             *)
ConfigCancelled(i) ==
  /\ ConfigReturns(i) /\ i \in shut
  /\ cfg' = [cfg EXCEPT ![i] = "none"]
  /\ due' = due \ {i}
  /\ active' = [active EXCEPT ![i] = @ - 1]
  /\ AskAtZero(i)
  /\ UNCHANGED <<stage, tx, objects, error>>

(* A stall or a timeout: a controller that is off is asked again later.    *)
ConfigStalls(i) ==
  /\ ConfigReturns(i) /\ i \notin shut
  /\ dev[i] \notin Boards
  /\ cfg' = [cfg EXCEPT ![i] = "idle"]
  /\ due' = due \cup {i}
  /\ UNCHANGED <<stage, tx, active, asked, objects, error>>

(* Any other failure; for a mainboard also a stall or a timeout.           *)
ConfigBreaks(i) ==
  /\ ConfigReturns(i) /\ i \notin shut
  /\ Attach(i)
  /\ error' = (error \/ i \notin live)
  /\ UNCHANGED <<stage, objects>>

(* An answer. The first one makes the object.                              *)
ConfigAnswered(i) ==
  /\ ConfigReturns(i) /\ i \notin shut
  /\ IF so[i] = Nothing /\ dev[i] \notin Boards
     THEN MakeObject(i)
     ELSE UNCHANGED objects

NameError(i) ==
  so[i] = Nothing /\ dev[i] \notin Boards /\ Clashes(Codename[dev[i]])

(* There is more to ask, in the same state or in the next. SETUP stands for*)
(* MAGICS, VERSION and IMU_SCALES.                                         *)
ConfigGoesOn(i) ==
  /\ ConfigAnswered(i)
  /\ i \in live
  /\ \E s \in {stage[i], "setup"} : stage' = [stage EXCEPT ![i] = s]
  /\ error' = (error \/ NameError(i))
  /\ UNCHANGED <<cfg, due, tx, active, asked>>

(* The last answer, a configuration that cannot be read, or a packet that  *)
(* could not be sent on.                                                   *)
ConfigEnds(i) ==
  /\ ConfigAnswered(i)
  /\ Attach(i)
  /\ error' = (error \/ NameError(i) \/ i \notin live \/ stage[i] = "config")
  /\ UNCHANGED stage

(* An answer to CONFIG of an unknown kind: the packet is not sent on.      *)
ConfigUnknown(i) ==
  /\ ConfigAnswered(i)
  /\ stage[i] = "config"
  /\ cfg' = [cfg EXCEPT ![i] = "idle"]
  /\ error' = TRUE
  /\ UNCHANGED <<stage, due, tx, active, asked>>

-----------------------------------------------------------------------------
(* handle_transfer, the callback of an interface's transfer                *)

TransferReturns(i, e) ==
  /\ fault = "none"
  /\ Flying(i, e)
  /\ UNCHANGED <<hardware, headset, dev, live, objects, stage, control>>

(* The label shutdown: the transfer is freed, the last one asks for the    *)
(* device to be closed.                                                    *)
Release(i, e) ==
  /\ tx' = [tx EXCEPT ![i][e] = "none"]
  /\ active' = [active EXCEPT ![i] = @ - 1]

(* The device is being closed, or the transfer, complete or not, cannot be *)
(* submitted again.                                                        *)
TransferDropped(i, e) ==
  /\ TransferReturns(i, e)
  /\ i \in shut \/ i \notin live
  /\ Release(i, e) /\ AskAtZero(i)
  /\ UNCHANGED <<cfg, due, timeouts, loose, shut, fault>>

(* The object's object_type is HMD: its configuration was read, and says so.*)
IsHmd(o) == stage[o] = "setup" /\ dev[o] \in HmdClass

(* A report: the transfer is submitted again, with a timeout for an object *)
(* of another type than HMD.                                               *)
Report(i, e) ==
  /\ TransferReturns(i, e)
  /\ i \notin shut /\ i \in live
  /\ tx' = [tx EXCEPT ![i][e] =
              IF so[i] # Nothing /\ ~IsHmd(so[i]) THEN "timed" ELSE "flying"]
  /\ timeouts' = [timeouts EXCEPT ![i][e] = 0]
  /\ UNCHANGED <<cfg, due, ending, loose, fault>>

(* A timeout: the transfer is not submitted again, unless it is the third  *)
(* in a row, which closes the device (request_reopen is left out: there is *)
(* no second one).                                                         *)
TimesOut(i, e) ==
  /\ TransferReturns(i, e)
  /\ i \notin shut /\ tx[i][e] = "timed"
  /\ timeouts' = [timeouts EXCEPT ![i][e] = @ + 1]
  /\ IF timeouts[i][e] + 1 >= 3
     THEN /\ Release(i, e)
          /\ CloseUsbDevices({i}, [active EXCEPT ![i] = @ - 1])
     ELSE /\ tx' = [tx EXCEPT ![i][e] = "idle"]
          /\ UNCHANGED <<cfg, due, ending>>
  /\ UNCHANGED <<loose, fault>>

(* Another failure. error_count is at most 1 here, so the transfer is      *)
(* submitted again, and all the same the device is closed and the transfer *)
(* freed and counted down, while libusb has it.                            *)
TransferBreaks(i, e) ==
  /\ TransferReturns(i, e)
  /\ i \notin shut /\ i \in live
  /\ Release(i, e)
  /\ CloseUsbDevices({i}, [active EXCEPT ![i] = @ - 1])
  /\ loose' = loose \cup {<<i, e>>}
  /\ UNCHANGED <<timeouts, fault>>

(* Libusb is done with a transfer that was freed: it finds freed memory,   *)
(* and calls back with an interface whose record may be gone or another's. *)
LooseReturns(i, e) ==
  /\ fault = "none"
  /\ <<i, e>> \in loose
  /\ Fails("freedInFlight")

-----------------------------------------------------------------------------
(* survive_vive_usb_poll and survive_vive_close                            *)

(* survive_poll does nothing any more after an error.                      *)
Polls == phase = "running" /\ ~error /\ fault = "none"

(* survive_config_poll: the time of a packet that is due has come.         *)
ConfigPoll(i) ==
  /\ Polls /\ i \in due /\ cfg[i] # "none"
  /\ due' = due \ {i}
  /\ IF i \in live
     THEN /\ cfg' = [cfg EXCEPT ![i] = "flying"]
          /\ UNCHANGED ending
     ELSE /\ cfg' = [cfg EXCEPT ![i] = "lost"]
          /\ shut' = shut \cup {i}
          /\ active' = [active EXCEPT ![i] = @ - 1]
          /\ AskAtZero(i)
  /\ UNCHANGED <<hardware, headset, dev, live, objects, stage, transfers, control,
                 fault>>

(* survive_handle_close_request_flag: the record goes, with its object. A  *)
(* mainboard is closed with its headset.                                   *)
Reapable(i) == /\ Polls \/ (phase = "closing" /\ fault = "none")
               /\ i \in asked

Stray(i) == i \in owns /\ so[i] \notin Registered

\* Mutant of Partner: the mainboard keeps its pointer to the headset's object.
PartnerKept(i) == {}

Partner(i) == IF i = imu /\ board # Nothing THEN {board} ELSE {}

Reap(i) ==
  /\ Reapable(i) /\ ~Stray(i)
  /\ imu' = IF i = imu THEN Nothing ELSE imu
  /\ board' = IF i = board THEN Nothing ELSE board
  /\ so' = [j \in Infos |-> IF j \in Partner(i) \cup {i} THEN Nothing ELSE so[j]]
  /\ IF i \in owns
     THEN /\ objs' = SwapRemove(objs, IndexIn(objs, so[i]))
          /\ name' = [name EXCEPT ![so[i]] = NoName]
          /\ made' = made \ {so[i]}
     ELSE UNCHANGED <<objs, name, made>>
  /\ owns' = owns \ {i}
  /\ dev' = [dev EXCEPT ![i] = Nothing]
  /\ live' = live \ {i}
  /\ active' = [active EXCEPT ![i] = 0]
  /\ shut' = (shut \cup Partner(i)) \ {i}
  /\ asked' = (asked \cup {j \in Partner(i) : active[j] = 0}) \ {i}
  /\ due' = due \ (Partner(i) \cup {i})
  /\ cfg' = [j \in Infos |-> IF j = i THEN "none"
                             ELSE IF j \in Partner(i) \cap due \cap live THEN "flying"
                             ELSE cfg[j]]
  /\ stage' = [stage EXCEPT ![i] = "config"]
  /\ tx' = [tx EXCEPT ![i] = NoTransfers]
  /\ timeouts' = [timeouts EXCEPT ![i] = NoTimeouts]
  /\ UNCHANGED <<hardware, loose, control, fault>>

(* Where a poll goes wrong: a packet submitted that does not exist, or     *)
(* survive_destroy_device of an object that is not registered, which drops *)
(* the last one from the registry and writes past its end.                 *)
PollFaults(i) ==
  {k \in {"nullPacket", "strayObject"} :
     IF k = "nullPacket" THEN Polls /\ NullPacket({i}) ELSE Reapable(i) /\ Stray(i)}

PollFails(i) == \E k \in PollFaults(i) : Fails(k)

StartClose ==
  /\ phase = "running" /\ fault = "none"
  /\ ~NullPacket(Listed)
  /\ phase' = "closing"
  /\ CloseUsbDevices(Listed, active)
  /\ UNCHANGED <<hardware, headset, dev, live, objects, stage, transfers,
                 active, error, fault>>

StartCloseNull ==
  /\ phase = "running" /\ fault = "none"
  /\ NullPacket(Listed)
  /\ Fails("nullPacket")

EndClose ==
  /\ phase = "closing" /\ fault = "none" /\ Listed = {}
  /\ phase' = "closed"
  /\ UNCHANGED <<hardware, headset, dev, live, objects, packets, transfers, ending,
                 error, fault>>

-----------------------------------------------------------------------------
Hardware == \E d \in Devices : Plug(d) \/ Unplug(d)

Add == \E d \in Devices :
         \/ RefuseBoard(d)
         \/ \E i \in Infos : \/ AddDevice(i, d) \/ AddBoard(i, d)
                             \/ AddHeadset(i, d) \/ RefuseHeadset(i, d)

ConfigTx(i) == \/ ConfigCancelled(i) \/ ConfigStalls(i) \/ ConfigBreaks(i)
               \/ ConfigGoesOn(i) \/ ConfigEnds(i) \/ ConfigUnknown(i)

Transfer(i, e) == \/ TransferDropped(i, e) \/ Report(i, e)
                  \/ TimesOut(i, e) \/ TransferBreaks(i, e) \/ LooseReturns(i, e)

PollDevice(i) == ConfigPoll(i) \/ Reap(i) \/ PollFails(i)

Close == StartClose \/ StartCloseNull \/ EndClose

Next == \/ Hardware \/ Add \/ Close
        \/ \E i \in Infos : \/ PollDevice(i) \/ ConfigTx(i)
                            \/ \E e \in Ends : Transfer(i, e)

(* The thread goes on, and libusb reports every transfer it was given to   *)
(* cancel, and every one whose device is gone.                             *)
Fairness ==
  /\ WF_vars(EndClose)
  /\ \A i \in Infos : /\ WF_vars(Reap(i)) /\ WF_vars(PollFails(i))
                      /\ WF_vars(ConfigCancelled(i))
                      /\ \A e \in Ends : WF_vars(TransferDropped(i, e))

Spec == UsbInit /\ [][Next]_vars /\ Fairness

-----------------------------------------------------------------------------
(* Properties                                                              *)

UsbTypeOK ==
  /\ plugged \subseteq Devices /\ arrived \subseteq plugged /\ plugs \in 0..MaxPlugs
  /\ board \in Infos \cup {Nothing} /\ imu \in Infos \cup {Nothing}
  /\ dev \in [Infos -> Devices \cup {Nothing}] /\ live \subseteq Listed
  /\ so \in [Infos -> Infos \cup {Nothing}] /\ owns \subseteq Listed
  /\ made \subseteq Infos /\ objs \in Seq(Infos)
  /\ active \in [Infos -> Nat]
  /\ shut \subseteq Listed /\ asked \subseteq Listed /\ due \subseteq Listed
  /\ cfg \in [Infos -> {"none", "idle", "flying", "lost"}]
  /\ stage \in [Infos -> {"config", "setup"}]
  /\ tx \in [Infos -> [Ends -> {"none", "idle", "flying", "timed"}]]
  /\ timeouts \in [Infos -> [Ends -> 0..1]] /\ loose \subseteq Infos \X Ends
  /\ error \in BOOLEAN /\ phase \in {"running", "closing", "closed"}
  /\ fault \in {"none", "nullPacket", "freedInFlight", "strayObject"}

(* active_transfers counts what is outstanding: every interface's transfer *)
(* that is allocated, and the configuration packet unless it was given up. *)
(* A loose transfer is not counted: it was counted down when it was freed. *)
Outstanding(i) ==
  Cardinality({e \in Ends : tx[i][e] # "none"})
    + (IF cfg[i] \in {"idle", "flying"} THEN 1 ELSE 0)

CountExact == \A i \in Infos : active[i] = Outstanding(i)

(* What libusb has of the record at an address.                            *)
Held(i) == {e \in Ends : Flying(i, e)} \cup {e \in Ends : <<i, e>> \in loose}

(* A device is only asked to be closed and freed when libusb has nothing   *)
(* of it, and none will be submitted, except for the loose transfers: one  *)
(* that fails otherwise than by a timeout is submitted again and freed at  *)
(* once, and its callback, if it comes, meets a freed record. No other can.*)
FreedWhenQuiet ==
  \A i \in asked : /\ \A e \in Held(i) : <<i, e>> \in loose
                   /\ \A e \in Ends : tx[i][e] # "idle"
                   /\ cfg[i] \in {"none", "lost"}
                   /\ i \notin due

(* No device keeps a pointer to an object that was destroyed, as the       *)
(* mainboard might to the headset's; every object is registered as long as *)
(* no error stopped the main loop, and none outlives the driver.           *)
ObjectsLive ==
  /\ \A i \in Infos : so[i] # Nothing => so[i] \in made
  /\ Registered \subseteq made
  /\ ~error => Registered = made
  /\ phase = "closed" => made = {}

(* A configuration packet that does not exist is only ever submitted for a *)
(* headset that was refused because the last one was still listed.         *)
PacketsExist ==
  \A i \in due : cfg[i] = "idle" \/ (dev[i] \in Headsets /\ i # imu)

(* Closing the driver comes to an end, unless a transfer is counted that   *)
(* libusb does not have: one that timed out, or that could not be sent.    *)
Stuck == \E i \in Listed : cfg[i] = "idle" \/ \E e \in Ends : tx[i][e] = "idle"

CloseEnds == phase = "closing" ~> (phase = "closed" \/ Stuck \/ fault # "none")

(* A device that stops sending is told to be turned off: its transfers are *)
(* submitted again until three in a row timed out, and it is closed then.  *)
SilenceNoticed ==
  \A i \in Infos, e \in Ends :
     timeouts[i][e] > 0 ~> \/ timeouts[i][e] = 0 \/ i \in shut
                            \/ i \notin live \/ phase # "running"
                            \/ error \/ fault # "none"
=============================================================================
