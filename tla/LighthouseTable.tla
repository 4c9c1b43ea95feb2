--------------------------- MODULE LighthouseTable ---------------------------
(***************************************************************************)
(* The table of lighthouses of a context: which slot of ctx->bsd a channel *)
(* uses, what is known of the station in it, and what of that is in the    *)
(* configuration file and comes back when the program starts again, after  *)
(* survive_close or after a crash.                                         *)
(*                                                                         *)
(* ctx is the part of SurviveContext that is involved, and each operator   *)
(* on contexts is one function of the code.  Handlers run with the context *)
(* lock and are one step each, as is config_save.  The packet of a station *)
(* is decoded only by a decoder of its own generation.  A position takes   *)
(* effect at once, where the code moves a lighthouse over up to a second;  *)
(* positions are told apart by the station whose light they were found     *)
(* with, which need not be the one in the slot when they are stored.       *)
(* "disable", the floor and the lighthouse database of SteamVR are left    *)
(* out.                                                                    *)
(***************************************************************************)
EXTENDS Integers, FiniteSets

CONSTANTS
  NLighthouses,   \* NUM_GEN2_LIGHTHOUSES, slots of the table and channels
  Stations,       \* the ids of base stations
  None,           \* id 0
  Forced          \* lh_version_forced

ASSUME TableAssumption ==
  /\ NLighthouses \in 2 .. 255   \* channels 0 and 1 exist, FreeMode is none
  /\ None \notin Stations
  /\ Forced \in {-1, 0, 1}

VARIABLES
  ctx,    \* SurviveContext, and the configuration file
  gens    \* generations detected since the configuration file was made

vars == <<ctx, gens>>

Slots    == 0 .. NLighthouses - 1
Channels == 0 .. NLighthouses - 1
FreeMode == 255

\* BaseStationData.  pose is the station with whose light the position was found,
\* None when PositionSet is 0; a slot, or a section of the file, is Unused when empty.
Lighthouse == [mode    : Channels \cup {FreeMode},
               id      : Stations \cup {None},
               OOTXSet : BOOLEAN,
               pose    : Stations \cup {None}]

Unused     == [mode |-> FreeMode, id |-> None, OOTXSet |-> FALSE, pose |-> None]
Claimed(c) == [Unused EXCEPT !.mode = c]

Table == [Slots -> Lighthouse]

Context ==
  [state               : {"init", "running"},
   force               : BOOLEAN,              \* force-calibrate, until it is read
   lh_version          : {-1, 0, 1, 3},
   lh_version_configed : {-1, 0, 1},
   gen                 : {-1, 0, 1},           \* configed-lighthouse-gen - 1
   bsd                 : Table,
   bsd_map             : [Channels -> Slots \cup {-1}],
   activeLighthouses   : Nat,
   decoder             : [Slots -> {-1, 0, 1}],  \* generation of ootx_data, -1 for none
   lh_config           : Table,
   file                : [gen : {-1, 0, 1}, lh : Table]]

\* What light brings a decoder: no bit, a bit, or the last bit of a packet;
\* upChanged when the packet's accel differs from bsd's.
Packets(modes) == [id : Stations, mode : modes, upChanged : BOOLEAN]
NoBit          == [id |-> None, mode |-> FreeMode, upChanged |-> FALSE]
OneBit         == [id |-> None, mode |-> FreeMode, upChanged |-> TRUE]
Bits(modes)    == Packets(modes) \cup {NoBit, OneBit}
-----------------------------------------------------------------------------
(* survive_config.c                                                        *)

\* Mutant of SaveConfig: the sections are those of the last start.
SaveConfigStale(x) == [x EXCEPT !.file.gen = x.gen]

\* config_save: the lighthouses with OOTX data only.
SaveConfig(x) ==
  [x EXCEPT !.file = [gen |-> x.gen,
                      lh  |-> [i \in Slots |-> IF x.bsd[i].OOTXSet
                                               THEN x.lh_config[i] ELSE Unused]]]

\* Mutant of Store: the file is written before the slot is entered.
StoreLate(x, i) == [SaveConfig(x) EXCEPT !.lh_config[i] = x.bsd[i]]

\* config_set_lighthouse, then config_save.
Store(x, i) == SaveConfig([x EXCEPT !.lh_config[i] = x.bsd[i]])

\* The channels as config_read_lighthouse finds them: the last slot wins.
MapOf(lh) ==
  [c \in Channels |->
     IF \E i \in Slots : lh[i].mode = c
     THEN CHOOSE i \in Slots : lh[i].mode = c /\ \A j \in Slots : lh[j].mode = c => j <= i
     ELSE -1]

\* Mutant of Load: the channels of the stations read are not entered.
LoadUnmapped(file, force) ==
  [state |-> "init", force |-> force,
   lh_version |-> -1, lh_version_configed |-> file.gen, gen |-> file.gen,
   bsd |-> file.lh, bsd_map |-> [c \in Channels |-> -1],
   activeLighthouses |-> Cardinality({i \in Slots : file.lh[i] # Unused}),
   decoder |-> [i \in Slots |-> -1],
   lh_config |-> file.lh, file |-> file]

\* survive_init.
Load(file, force) ==
  [state |-> "init", force |-> force,
   lh_version |-> -1, lh_version_configed |-> file.gen, gen |-> file.gen,
   bsd |-> file.lh, bsd_map |-> MapOf(file.lh),
   activeLighthouses |-> Cardinality({i \in Slots : file.lh[i] # Unused}),
   decoder |-> [i \in Slots |-> -1],
   lh_config |-> file.lh, file |-> file]
-----------------------------------------------------------------------------
(* survive.c                                                               *)

Free(x) == {i \in Slots : x.bsd[i].mode = FreeMode}
FirstFree(x) == CHOOSE i \in Free(x) : \A j \in Free(x) : i <= j

\* The slot survive_get_bsd_idx returns.
Idx(x, c) ==
  IF x.lh_version = 0 THEN c
  ELSE IF x.bsd_map[c] # -1 \/ Free(x) = {} THEN x.bsd_map[c] ELSE FirstFree(x)

\* Mutant of Claim: the slot taken is not entered in bsd_map.
ClaimUnmapped(x, c) ==
  IF x.lh_version = 0 /\ x.bsd[c].mode = FreeMode
  THEN [x EXCEPT !.bsd[c] = Claimed(c), !.decoder[c] = -1, !.activeLighthouses = @ + 1]
  ELSE IF x.lh_version # 0 /\ x.bsd_map[c] = -1 /\ Free(x) # {}
  THEN [x EXCEPT !.bsd[FirstFree(x)] = Claimed(c), !.decoder[FirstFree(x)] = -1,
                 !.activeLighthouses = IF @ < FirstFree(x) + 1 THEN FirstFree(x) + 1 ELSE @]
  ELSE x

\* Mutant of Claim: a slot of generation 1 is counted at every lookup.
ClaimCountsAgain(x, c) ==
  IF x.lh_version = 0
  THEN [x EXCEPT !.bsd[c] = Claimed(c), !.decoder[c] = -1, !.activeLighthouses = @ + 1]
  ELSE IF x.lh_version # 0 /\ x.bsd_map[c] = -1 /\ Free(x) # {}
  THEN [x EXCEPT !.bsd[FirstFree(x)] = Claimed(c), !.decoder[FirstFree(x)] = -1,
                 !.bsd_map[c] = FirstFree(x),
                 !.activeLighthouses = IF @ < FirstFree(x) + 1 THEN FirstFree(x) + 1 ELSE @]
  ELSE x

\* What survive_get_bsd_idx does to the context; a slot taken is cleared, its
\* decoder with it.
Claim(x, c) ==
  IF x.lh_version = 0 /\ x.bsd[c].mode = FreeMode
  THEN [x EXCEPT !.bsd[c] = Claimed(c), !.decoder[c] = -1, !.activeLighthouses = @ + 1]
  ELSE IF x.lh_version # 0 /\ x.bsd_map[c] = -1 /\ Free(x) # {}
  THEN [x EXCEPT !.bsd[FirstFree(x)] = Claimed(c), !.decoder[FirstFree(x)] = -1,
                 !.bsd_map[c] = FirstFree(x),
                 !.activeLighthouses = IF @ < FirstFree(x) + 1 THEN FirstFree(x) + 1 ELSE @]
  ELSE x
-----------------------------------------------------------------------------
(* survive_process_gen2.c                                                  *)

\* survive_default_gen_detected_process.
GenDetected(x, g) ==
  IF x.lh_version # -1 THEN [x EXCEPT !.lh_version = 3]
  ELSE LET reset == g # x.lh_version_configed /\ x.lh_version_configed # -1
           table == [i \in Slots |-> IF reset
                                     THEN [x.bsd[i] EXCEPT !.mode = FreeMode,
                                             !.OOTXSet = FALSE, !.pose = None]
                                     ELSE x.bsd[i]]
       IN  SaveConfig([x EXCEPT !.bsd = table, !.lh_version = g, !.gen = g])

\* survive_notify_gen1 and survive_notify_gen2.
Notices(x, g) == Forced \in {-1, g} /\ x.lh_version # g
Notify(x, g)  == IF Notices(x, g) THEN GenDetected(x, g) ELSE x

\* survive_ootx_behavior: a decoder for the slot, of the context's generation.
Attach(x, i) ==
  IF x.decoder[i] # -1 THEN x
  ELSE [x EXCEPT !.decoder[i] = IF x.lh_version = 0 THEN 0 ELSE 1]

\* Mutant of Receive: the position of the previous station is kept.
ReceiveKeepsPose(x, i, p) ==
  LET b == x.bsd[i]
      doSave == \/ b.id # p.id \/ ~b.OOTXSet \/ p.upChanged
                \/ x.decoder[i] = 0 /\ b.mode # p.mode
  IN IF doSave
     THEN Store([x EXCEPT !.bsd[i] = [mode |-> p.mode, id |-> p.id,
                                      OOTXSet |-> TRUE, pose |-> b.pose]], i)
     ELSE x

\* ootx_packet_clbk_d_gen2 and ootx_packet_cblk_d_gen1, with the hook
\* ootx_received.
Receive(x, i, p) ==
  LET b == x.bsd[i]
      doSave == \/ b.id # p.id \/ ~b.OOTXSet \/ p.upChanged
                \/ x.decoder[i] = 0 /\ b.mode # p.mode
  IN IF doSave
     THEN Store([x EXCEPT !.bsd[i] = [mode |-> p.mode, id |-> p.id,
                                      OOTXSet |-> TRUE, pose |-> None]], i)
     ELSE x

\* The bit that light of generation g brings, and the packet it completes.
Ootx(x, i, g, p) ==
  IF p = NoBit THEN x
  ELSE IF p = OneBit \/ Attach(x, i).decoder[i] # g THEN Attach(x, i)
  ELSE Receive(Attach(x, i), i, p)
-----------------------------------------------------------------------------
Init ==
  /\ \E force \in BOOLEAN :
       ctx = Load([gen |-> -1, lh |-> [i \in Slots |-> Unused]], force)
  /\ gens = {}

Running == ctx.state = "running"

Detected(x, g) == gens' = IF Notices(x, g) THEN gens \cup {g} ELSE gens

\* survive_startup: force-calibrate, then what is known is broadcast, which
\* stores it.
Startup ==
  /\ ctx.state = "init"
  /\ LET known(i) == i < ctx.activeLighthouses
         table == [i \in Slots |-> IF ctx.force /\ known(i)
                                   THEN [ctx.bsd[i] EXCEPT !.pose = None] ELSE ctx.bsd[i]]
         told(i) == known(i) /\ (table[i].OOTXSet \/ table[i].pose # None)
     IN ctx' = SaveConfig([ctx EXCEPT !.state = "running", !.force = FALSE, !.bsd = table,
                             !.lh_config = [i \in Slots |-> IF told(i) THEN table[i]
                                                            ELSE ctx.lh_config[i]]])
  /\ UNCHANGED gens

\* The generation is detected by a report's kind or by handle_lightcap.
Detect(g) ==
  /\ Running
  /\ ctx' = Notify(ctx, g) /\ Detected(ctx, g)

\* survive_default_sync_process: light of generation 2.
Sync(c, p) ==
  /\ Running
  /\ LET i == Idx(ctx, c)
         x == Claim(ctx, c)
     IN ctx' = IF i = -1 THEN x ELSE Ootx(x, i, 1, p)
  /\ UNCHANGED gens

\* survive_default_sweep_process; a sweep with an angle goes on to
\* survive_default_sweep_angle_process.
Sweep(c, angle) ==
  /\ Running /\ Idx(ctx, c) # -1
  /\ LET x == Notify(Claim(ctx, c), 1)
     IN ctx' = IF angle THEN Claim(x, c) ELSE x
  /\ Detected(ctx, 1)

\* survive_default_light_process: light of generation 1.
Light(c, p) ==
  /\ Running /\ Idx(ctx, c) # -1
  /\ ctx' = Ootx(Notify(Claim(ctx, c), 0), Idx(ctx, c), 0, p)
  /\ Detected(ctx, 0)

\* survive_default_raw_lighthouse_pose_process.  s is the station whose light the
\* optimizer worked with: run_mpfit_find_3d_structure and solve_global_scene give
\* up the context lock while they solve, the latter from scenes it keeps, and light
\* is kept by slot.  So it may be the station that was on the slot before, or one
\* whose packet has yet to come.  (Or survive_default_external_pose_process, for
\* the station of the slot.)
Pose(i, s) ==
  /\ Running /\ i < ctx.activeLighthouses
  /\ ctx' = Store([ctx EXCEPT !.bsd[i].pose = s], i)
  /\ UNCHANGED gens

\* survive_lighthouse_adjust_confidence: a position that seems bad is given up,
\* and nothing is saved.
AdjustConfidence(i) ==
  /\ Running
  /\ ctx' = [ctx EXCEPT !.bsd[i].pose = None]
  /\ UNCHANGED gens

\* survive_kalman_tracker_lost_tracking with allowLHReset, when no object has a
\* pose, and survive_reset_lighthouse_positions: every position is given up, and
\* nothing is saved.
LoseTracking ==
  /\ Running
  /\ ctx' = [ctx EXCEPT !.bsd = [i \in Slots |-> IF i < ctx.activeLighthouses
                                                THEN [ctx.bsd[i] EXCEPT !.pose = None]
                                                ELSE ctx.bsd[i]]]
  /\ UNCHANGED gens

\* survive_close, and the next start.
Close(force) ==
  /\ Running
  /\ ctx' = Load(SaveConfig(ctx).file, force)
  /\ UNCHANGED gens

\* The process dies, and the next start.
Crash(force) ==
  /\ ctx' = Load(ctx.file, force)
  /\ UNCHANGED gens

Next ==
  \/ Startup
  \/ \E g \in {0, 1} : Detect(g)
  \/ \E c \in Channels :
       \/ \E p \in Bits({c}) : Sync(c, p)
       \/ \E angle \in BOOLEAN : Sweep(c, angle)
  \/ \E c \in {0, 1}, p \in Bits(Channels) : Light(c, p)
  \/ \E i \in Slots : \/ \E s \in Stations : Pose(i, s)
                      \/ AdjustConfidence(i)
  \/ LoseTracking
  \/ \E force \in BOOLEAN : Close(force) \/ Crash(force)

Spec == Init /\ [][Next]_vars
-----------------------------------------------------------------------------
(* A reset of the table for another generation leaves bsd_map and          *)
(* activeLighthouses as they were; the properties that this breaks speak   *)
(* of systems where it has not happened.                                   *)

\* Types.
TypeOK == ctx \in Context /\ gens \subseteq {0, 1}

\* bsd_map and the modes of bsd are each other's inverse, on a system of
\* generation 2: no two channels write to one slot, and no channel has two,
\* through packets, crashes and restarts (survive_get_bsd_idx).
MapAgrees ==
  gens \subseteq {1} =>
    /\ \A c \in Channels : ctx.bsd_map[c] # -1 => ctx.bsd[ctx.bsd_map[c]].mode = c
    /\ \A i \in Slots : ctx.bsd[i].mode # FreeMode => ctx.bsd_map[ctx.bsd[i].mode] = i

\* What the file has of a slot is what the table has.
Saved(x, i) == x.file.lh[i] = IF x.bsd[i].OOTXSet THEN x.bsd[i] ELSE Unused

\* What is known of a station is in the file before the handler that learnt it
\* returns, and nothing else is: a crash loses nothing, and no station comes
\* back that a reset has removed (config_save writes lh_config where OOTXSet).
\* Only a position that was given up may still be in the file.
Durable ==
  \A i \in Slots :
    \/ Saved(ctx, i)
    \/ ctx.bsd[i].OOTXSet /\ ctx.bsd[i] = [ctx.file.lh[i] EXCEPT !.pose = None]

\* Table and file part only where a position is given up without a save: every
\* other handler that changes the table has saved when it returns (config_save),
\* and a start reads all that the file has.
UnsavedResets ==
  [][\A i \in Slots : Saved(ctx, i) => \/ Saved(ctx', i)
                                       \/ AdjustConfidence(i) \/ LoseTracking]_vars

\* The station of slot i has another's position, in the table or in the file.
Astray(x, i) == \/ x.bsd[i].pose \notin {None, x.bsd[i].id}
                \/ x.file.lh[i].pose \notin {None, x.file.lh[i].id}

\* A station gets another's position only from an optimizer that worked with the
\* other's light, never because it comes on a channel, a slot is taken, a
\* position is given up or the table is read; and such a position is not handed
\* on to a third (survive_reset_lighthouse_position).
PositionOfStation ==
  [][\A i \in Slots : Astray(ctx', i) =>
       \/ \E s \in Stations : s # ctx.bsd[i].id /\ Pose(i, s)
       \/ Astray(ctx, i) /\ ctx'.bsd[i].id = ctx.bsd[i].id]_vars

\* The loops over activeLighthouses stay within bsd as long as one generation
\* is seen.
CountInTable == gens # {0, 1} => ctx.activeLighthouses <= NLighthouses

\* A channel whose station is known keeps its slot for good, across packets of
\* other stations, crashes and restarts, on a system of generation 2.
SlotStable ==
  [][\A c \in Channels :
       LET i == ctx.bsd_map[c]
       IN gens' \subseteq {1} /\ i # -1 /\ ctx.bsd[i].OOTXSet => ctx'.bsd_map[c] = i]_vars

\* "Force calibrate flag set -- clearing position on all lighthouses"
\* (survive_startup): no lighthouse has a position then.
AllCleared ==
  [][Startup /\ ctx.force => \A i \in Slots : ctx'.bsd[i].pose = None]_vars
=============================================================================
