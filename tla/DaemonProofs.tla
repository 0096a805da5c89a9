---------------------------- MODULE DaemonProofs ----------------------------
(***************************************************************************)
(* The invariants of DaemonState, for any set of maps and any timeout.     *)
(***************************************************************************)
EXTENDS DaemonState, TLAPS

USE DEF DaemonStates, ReloadTypes, WaitStates

(* Init establishes the inductive invariant. *)
LEMMA InitInv == Init => Inv
<1> SUFFICES ASSUME Init PROVE Inv
  OBVIOUS
<1>1. delayed_reconfig \in BOOLEAN /\ startup_done \in BOOLEAN
  BY Zenon DEF Init
<1>2. TypeOK
  BY <1>1, TimeoutAssumption, MaxCreatesAssumption DEF Init, TypeOK
<1>3. Safety
  BY DEF Init, Safety, DelayHasReason, SleeperIsWoken, NoWaiterTornDown,
         NotifyConsistent, Startup, Handshake, need_to_delay_reconfig, TicksLeft, Waiting
<1> QED
  BY <1>2, <1>3 DEF Inv

(* What a post of a new state leaves well-typed. *)
LEMMA PostType ==
    ASSUME TypeOK, NEW s \in DaemonStates, post_config_state(s)
    PROVE  /\ running_state' \in DaemonStates
           /\ startup_done' \in BOOLEAN
           /\ sd' \in {"starting", "ready", "reloading", "stopping"}
           /\ asleep' \subseteq {"child", "checker", "uevq"}
<1>1. startup_done' \in BOOLEAN
  BY Zenon DEF TypeOK, post_config_state, do_sd_notify, stateVars
<1>2. sd' \in {"starting", "ready", "reloading", "stopping"}
  BY DEF TypeOK, post_config_state, do_sd_notify, stateVars
<1>3. running_state' \in DaemonStates /\ asleep' \subseteq {"child", "checker", "uevq"}
  BY DEF TypeOK, post_config_state, stateVars
<1> QED
  BY <1>1, <1>2, <1>3

USE DEF Safety, DelayHasReason, SleeperIsWoken, NoWaiterTornDown, NotifyConsistent,
        Startup, Handshake, ChildIdle, stateVars, confVars, mapVars, CondWait, VecsFree

(* Every step of the main thread preserves the invariant. *)
LEMMA ChildInv == Inv /\ Child => Inv'
<1> SUFFICES ASSUME Inv, Child PROVE Inv'
  OBVIOUS
<1> USE DEF Inv
<1>1. CASE ChildStarts
  <2>1. TypeOK'
    BY <1>1, PostType DEF TypeOK, ChildStarts
  <2>2. Safety'
    BY <1>1 DEF TypeOK, ChildStarts, post_config_state, do_sd_notify,
       need_to_delay_reconfig, TicksLeft, Waiting
  <2> QED
    BY <2>1, <2>2
<1>2. CASE ChildFails
  <2>1. TypeOK'
    BY <1>2 DEF TypeOK, ChildFails
  <2>2. Safety'
    BY <1>2 DEF TypeOK, ChildFails, post_config_state, do_sd_notify,
       need_to_delay_reconfig, TicksLeft, Waiting
  <2> QED
    BY <2>1, <2>2
<1>3. CASE ChildWaitsForListener
  <2>1. TypeOK'
    BY <1>3 DEF TypeOK, ChildWaitsForListener
  <2>2. Safety'
    BY <1>3 DEF TypeOK, ChildWaitsForListener, post_config_state, do_sd_notify,
       need_to_delay_reconfig, TicksLeft, Waiting
  <2> QED
    BY <2>1, <2>2
<1>4. CASE ChildCreatesThreads
  <2>1. TypeOK'
    BY <1>4 DEF TypeOK, ChildCreatesThreads
  <2>2. Safety'
    BY <1>4 DEF TypeOK, ChildCreatesThreads, post_config_state, do_sd_notify,
       need_to_delay_reconfig, TicksLeft, Waiting
  <2> QED
    BY <2>1, <2>2
<1>5. CASE ChildSleeps
  <2>1. TypeOK'
    BY <1>5 DEF TypeOK, ChildSleeps
  <2>2. Safety'
    BY <1>5 DEF TypeOK, ChildSleeps, post_config_state, do_sd_notify,
       need_to_delay_reconfig, TicksLeft, Waiting
  <2> QED
    BY <2>1, <2>2
<1>6. CASE ChildWakes
  <2>1. TypeOK'
    BY <1>6, PostType DEF TypeOK, ChildWakes
  <2>2. Safety'
    BY <1>6 DEF TypeOK, ChildWakes, post_config_state, do_sd_notify,
       need_to_delay_reconfig, TicksLeft, Waiting
  <2> QED
    BY <2>1, <2>2
<1>7. CASE ChildTakesRequest
  <2>1. TypeOK'
    <3>1. delayed_reconfig' \in BOOLEAN
      BY <1>7, Zenon DEF ChildTakesRequest
    <3> QED
      BY <1>7, <3>1 DEF TypeOK, ChildTakesRequest
  <2>2. Safety'
    BY <1>7 DEF TypeOK, ChildTakesRequest, post_config_state, do_sd_notify,
       need_to_delay_reconfig, TicksLeft, Waiting
  <2> QED
    BY <2>1, <2>2
<1>8. CASE ChildDelays
  <2>1. TypeOK'
    BY <1>8 DEF TypeOK, ChildDelays
  <2>2. Safety'
    BY <1>8 DEF TypeOK, ChildDelays, post_config_state, do_sd_notify,
       need_to_delay_reconfig, TicksLeft, Waiting
  <2> QED
    BY <2>1, <2>2
<1>9. CASE ChildReconfigured
  <2>1. TypeOK'
    BY <1>9, TimeoutAssumption DEF TypeOK, ChildReconfigured
  <2>2. Safety'
    BY <1>9, TimeoutAssumption DEF TypeOK, ChildReconfigured, post_config_state, do_sd_notify,
       need_to_delay_reconfig, TicksLeft, Waiting
  <2> QED
    BY <2>1, <2>2
<1>10. CASE ChildReconfigureFails
  <2>1. TypeOK'
    BY <1>10, TimeoutAssumption, PostType DEF TypeOK, ChildReconfigureFails, exit_daemon
  <2>2. Safety'
    BY <1>10 DEF TypeOK, ChildReconfigureFails, exit_daemon, post_config_state, do_sd_notify,
       need_to_delay_reconfig, TicksLeft, Waiting
  <2> QED
    BY <2>1, <2>2
<1>11. CASE ChildPostsIdle
  <2>1. TypeOK'
    BY <1>11, PostType DEF TypeOK, ChildPostsIdle
  <2>2. Safety'
    <3>1. SleeperIsWoken' /\ NotifyConsistent' /\ Startup' /\ Handshake'
      BY <1>11 DEF TypeOK, ChildPostsIdle, post_config_state, do_sd_notify
    <3>2. DelayHasReason' /\ NoWaiterTornDown' /\ TicksLeft'
      BY <1>11 DEF TypeOK, ChildPostsIdle, post_config_state, do_sd_notify,
         need_to_delay_reconfig, TicksLeft, Waiting
    <3> QED
      BY <3>1, <3>2
  <2> QED
    BY <2>1, <2>2
<1> QED
  BY <1>1, <1>2, <1>3, <1>4, <1>5, <1>6, <1>7, <1>8, <1>9, <1>10, <1>11 DEF Child

(* The variables of config_lock stay well-typed in the functions of main.c. *)
ConfType ==
    /\ running_state \in DaemonStates
    /\ startup_done \in BOOLEAN
    /\ sd \in {"starting", "ready", "reloading", "stopping"}
    /\ asleep \subseteq {"child", "checker", "uevq"}
    /\ reconfigure_pending \in ReloadTypes
    /\ delayed_reconfig \in BOOLEAN

LEMMA UnblockType == ASSUME TypeOK, unblock_reconfigure PROVE ConfType'
<1>1. delayed_reconfig' \in BOOLEAN
  BY Zenon DEF unblock_reconfigure
<1>2. reconfigure_pending' \in ReloadTypes
  BY DEF TypeOK, unblock_reconfigure
<1>3. CASE delayed_reconfig /\ running_state = "IDLE"
  BY <1>1, <1>2, <1>3, PostType DEF ConfType, unblock_reconfigure
<1>4. CASE ~(delayed_reconfig /\ running_state = "IDLE")
  BY <1>1, <1>2, <1>4 DEF ConfType, TypeOK, unblock_reconfigure
<1> QED
  BY <1>3, <1>4

LEMMA ScheduleType ==
    ASSUME TypeOK, NEW t \in {"WEAK", "YES"}, schedule_reconfigure(t) PROVE ConfType'
<1>1. reconfigure_pending' \in ReloadTypes /\ delayed_reconfig' \in BOOLEAN
  BY DEF TypeOK, schedule_reconfigure
<1>2. CASE running_state = "IDLE"
  BY <1>1, <1>2, PostType DEF ConfType, schedule_reconfigure
<1>3. CASE running_state # "IDLE"
  BY <1>1, <1>3 DEF ConfType, TypeOK, schedule_reconfigure
<1> QED
  BY <1>2, <1>3

LEMMA ExitType == ASSUME TypeOK, exit_daemon PROVE ConfType'
BY PostType DEF TypeOK, ConfType, exit_daemon

LEMMA NoConfType == ASSUME TypeOK, UNCHANGED confVars PROVE ConfType'
BY DEF TypeOK, ConfType

(***************************************************************************)
(* A change of the map table, as far as the handshake sees it: if the last *)
(* map stops waiting, the main thread is unblocked.                        *)
(***************************************************************************)
MapType ==
    /\ wait_for_udev \in [Maps -> WaitStates]
    /\ uev_wait_tick \in [Maps -> 0..uev_wait_timeout]
    /\ creates \in 0..MaxCreates
    /\ TicksLeft

MapStep ==
    \/ unblock_reconfigure
    \/ /\ UNCHANGED confVars
       /\ need_to_delay_reconfig => need_to_delay_reconfig'

LEMMA MapStepInv ==
    ASSUME Inv, MapStep, MapType',
           UNCHANGED <<child, uxlsnr, reload_type>>,
           reload_type # "NONE", child # "reconf",
           uevq' \in {"off", "recv", "gate", "handle"},
           checker' \in {"off", "top", "check", "post", "exit"},
           running_state = "RUNNING" => checker' \in {"check", "post"}
    PROVE  Inv'
<1>1. TypeOK'
  BY UnblockType, NoConfType DEF Inv, MapStep, MapType, ConfType, TypeOK
<1>2. CASE unblock_reconfigure
  BY <1>1, <1>2
     DEF Inv, TypeOK, MapType, unblock_reconfigure, post_config_state, do_sd_notify
<1>3. CASE UNCHANGED confVars /\ (need_to_delay_reconfig => need_to_delay_reconfig')
  BY <1>1, <1>3 DEF Inv, MapType
<1> QED
  BY <1>2, <1>3 DEF MapStep

LEMMA RemoveMapStep ==
    ASSUME TypeOK, TicksLeft, NEW M \in SUBSET Maps, remove_map(M) PROVE MapStep /\ MapType'
<1>1. MapType'
  BY TimeoutAssumption DEF TypeOK, MapType, TicksLeft, Waiting, remove_map
<1>2. CASE \E m \in M : Waiting(m)
  BY <1>1, <1>2 DEF remove_map, MapStep
<1>3. CASE ~\E m \in M : Waiting(m)
  BY <1>1, <1>3 DEF TypeOK, remove_map, MapStep, need_to_delay_reconfig, TicksLeft, Waiting
<1> QED
  BY <1>2, <1>3

LEMMA EvAddMapStep ==
    ASSUME TypeOK, TicksLeft, NEW m \in Maps, ev_add_map(m) PROVE MapStep /\ MapType'
<1>1. CASE remove_map({m})
  BY <1>1, RemoveMapStep
<1>2. CASE ~remove_map({m})
  <2>1. MapType'
    BY <1>2, TimeoutAssumption DEF TypeOK, MapType, TicksLeft, Waiting, ev_add_map
  <2>2. CASE Waiting(m) /\ \A n \in Maps \ {m} : ~Waiting(n)
    BY <1>2, <2>1, <2>2 DEF ev_add_map, MapStep, Waiting, InTable
  <2>3. CASE ~(Waiting(m) /\ \A n \in Maps \ {m} : ~Waiting(n))
    <3>1. UNCHANGED confVars
      BY <1>2, <2>3 DEF ev_add_map
    <3>2. wait_for_udev' = [wait_for_udev EXCEPT ![m] = "DONE"]
      BY <1>2 DEF ev_add_map
    <3>3. need_to_delay_reconfig => need_to_delay_reconfig'
      BY <2>3, <3>2 DEF TypeOK, need_to_delay_reconfig, TicksLeft, Waiting
    <3> QED
      BY <2>1, <3>1, <3>3 DEF MapStep
  <2> QED
    BY <2>2, <2>3
<1> QED
  BY <1>1, <1>2

LEMMA CreateMapStep ==
    ASSUME TypeOK, TicksLeft, NEW m \in Maps, CreateMap(m) PROVE MapStep /\ MapType'
<1>1. MapType'
  BY TimeoutAssumption, MaxCreatesAssumption DEF TypeOK, MapType, TicksLeft, Waiting, CreateMap
<1>2. need_to_delay_reconfig'
  BY DEF TypeOK, CreateMap, need_to_delay_reconfig, TicksLeft, Waiting
<1> QED
  BY <1>1, <1>2 DEF CreateMap, MapStep

LEMMA DeferReloadStep ==
    ASSUME TypeOK, TicksLeft, NEW m \in Maps, DeferReload(m) PROVE MapStep /\ MapType'
<1>1. MapType'
  BY DEF TypeOK, MapType, TicksLeft, Waiting, DeferReload
<1>2. need_to_delay_reconfig'
  BY DEF TypeOK, DeferReload, need_to_delay_reconfig, TicksLeft, Waiting
<1> QED
  BY <1>1, <1>2 DEF DeferReload, MapStep

LEMMA CheckerFinishedStep ==
    ASSUME TypeOK, TicksLeft,
           NEW L \in SUBSET Maps, NEW F \in SUBSET Maps, NEW K \in SUBSET Maps,
           checker_finished(L, F, K)
    PROVE  MapStep /\ MapType'
<1> DEFINE unblocks == \/ \E m \in L : Waiting(m)
                       \/ /\ Expired(L) # {}
                          /\ \A m \in Maps \ (L \cup Expired(L)) : ~Waiting(m)
<1>1. MapType'
  BY TimeoutAssumption
     DEF TypeOK, MapType, TicksLeft, Waiting, Expired, checker_finished, missing_uev_wait_tick
<1>2. CASE unblocks
  BY <1>1, <1>2 DEF checker_finished, MapStep
<1>3. CASE ~unblocks
  <2>1. UNCHANGED confVars
    BY <1>3 DEF checker_finished
  <2>2. need_to_delay_reconfig => need_to_delay_reconfig'
    BY <1>3 DEF TypeOK, checker_finished, need_to_delay_reconfig, Waiting, Expired
  <2> QED
    BY <1>1, <2>1, <2>2 DEF MapStep
<1> QED
  BY <1>2, <1>3

(* Every step of the checker loop preserves the invariant. *)
LEMMA CheckerInv == Inv /\ Checker => Inv'
<1> SUFFICES ASSUME Inv, Checker PROVE Inv'
  OBVIOUS
<1>1. CASE CheckerSleeps
  BY <1>1, SMTT(30) DEF Inv, TypeOK, CheckerSleeps, need_to_delay_reconfig, TicksLeft, Waiting
<1>2. CASE CheckerRuns
  <2>1. TypeOK'
    <3>1. CASE running_state = "IDLE"
      <4>1. post_config_state("RUNNING")
        BY <1>2, <3>1 DEF CheckerRuns
      <4> QED
        BY <1>2, <4>1, PostType, SMTT(30) DEF Inv, TypeOK, CheckerRuns
    <3>2. CASE running_state # "IDLE"
      <4>1. UNCHANGED confVars
        BY <1>2, <3>2 DEF CheckerRuns
      <4> QED
        BY <1>2, <4>1, NoConfType, SMTT(30) DEF Inv, TypeOK, ConfType, CheckerRuns
    <3> QED
      BY <3>1, <3>2
  <2>2. Safety'
    BY <1>2 DEF Inv, TypeOK, CheckerRuns, post_config_state, do_sd_notify,
       need_to_delay_reconfig, TicksLeft, Waiting
  <2> QED
    BY <2>1, <2>2 DEF Inv
<1>3. CASE CheckerFinishes
  <2>1. PICK L \in SUBSET Maps, F \in SUBSET Maps, K \in SUBSET Maps : checker_finished(L, F, K)
    <3>1. \A L \in SUBSET Maps : Expired(L) \subseteq Maps /\ {m \in Maps \ L : Waiting(m)} \subseteq Maps
      BY DEF Expired
    <3> QED
      BY <1>3, <3>1, Zenon DEF CheckerFinishes
  <2>2. MapStep /\ MapType'
    BY <2>1, CheckerFinishedStep DEF Inv
  <2> QED
    BY <1>3, <2>2, MapStepInv DEF Inv, TypeOK, CheckerFinishes
<1>4. CASE CheckerPostsIdle
  <2>1. TypeOK'
    BY <1>4, PostType DEF Inv, TypeOK, CheckerPostsIdle
  <2>2. Safety'
    <3> USE DEF Inv, TypeOK, CheckerPostsIdle, post_config_state, do_sd_notify
    <3>1. NotifyConsistent' /\ Startup'
      BY <1>4
    <3>2. SleeperIsWoken' /\ Handshake'
      BY <1>4
    <3>3. DelayHasReason' /\ NoWaiterTornDown' /\ TicksLeft'
      BY <1>4 DEF need_to_delay_reconfig, TicksLeft, Waiting
    <3> QED
      BY <3>1, <3>2, <3>3
  <2> QED
    BY <2>1, <2>2 DEF Inv
<1> QED
  BY <1>1, <1>2, <1>3, <1>4 DEF Checker

(* Every step of the uevent dispatcher preserves the invariant. *)
LEMMA UevqInv == Inv /\ Uevq => Inv'
<1> SUFFICES ASSUME Inv, Uevq PROVE Inv'
  OBVIOUS
<1>1. CASE UevqReceives
  <2>1. TypeOK'
    BY <1>1 DEF Inv, TypeOK, UevqReceives
  <2>2. Safety'
    BY <1>1 DEF Inv, TypeOK, UevqReceives, need_to_delay_reconfig, TicksLeft, Waiting
  <2> QED
    BY <2>1, <2>2 DEF Inv
<1>3. CASE UevqSleeps
  BY <1>3, SMTT(30) DEF Inv, TypeOK, UevqSleeps, need_to_delay_reconfig, TicksLeft, Waiting
<1>4. CASE UevqPasses
  BY <1>4, SMTT(30) DEF Inv, TypeOK, UevqPasses, need_to_delay_reconfig, TicksLeft, Waiting
<1>2. CASE UevqHandles
  <2>1. PICK m \in Maps :
            \/ ev_add_map(m)
            \/ remove_map({m} \cap {n \in Maps : InTable(n)})
            \/ CreateMap(m)
            \/ DeferReload(m)
    BY <1>2 DEF UevqHandles
  <2>2. MapStep /\ MapType'
    BY <2>1, EvAddMapStep, RemoveMapStep, CreateMapStep, DeferReloadStep DEF Inv
  <2> QED
    BY <1>2, <2>2, MapStepInv DEF Inv, TypeOK, UevqHandles
<1> QED
  BY <1>1, <1>2, <1>3, <1>4 DEF Uevq

(* Every step of the listener preserves the invariant. *)
LEMMA UxlsnrInv == Inv /\ Uxlsnr => Inv'
<1> SUFFICES ASSUME Inv, Uxlsnr PROVE Inv'
  OBVIOUS
<1>1. CASE ListenerFails \/ Terminate
  <2>1. TypeOK'
    BY <1>1, ExitType DEF Inv, TypeOK, ConfType, ListenerFails, Terminate
  <2>2. Safety'
    BY <1>1 DEF Inv, TypeOK, ListenerFails, Terminate, exit_daemon, post_config_state,
       do_sd_notify, need_to_delay_reconfig, TicksLeft, Waiting
  <2> QED
    BY <2>1, <2>2 DEF Inv
<1>2. CASE ListenerStarts
  <2>1. TypeOK'
    BY <1>2, PostType DEF Inv, TypeOK, ListenerStarts
  <2>2. Safety'
    BY <1>2, SMTT(30) DEF Inv, TypeOK, ListenerStarts, post_config_state,
       do_sd_notify, need_to_delay_reconfig, TicksLeft, Waiting
  <2> QED
    BY <2>1, <2>2 DEF Inv
<1>3. CASE ListenerReady
  BY <1>3, SMTT(30) DEF Inv, TypeOK, ListenerReady, need_to_delay_reconfig, TicksLeft, Waiting
<1>4. ASSUME NEW t \in {"WEAK", "YES"}, Reconfigure(t) PROVE Inv'
  <2>1. TypeOK'
    BY <1>4, ScheduleType DEF Inv, TypeOK, ConfType, Reconfigure
  <2>2. Safety'
    BY <1>4, SMTT(30) DEF Inv, TypeOK, Reconfigure, schedule_reconfigure, post_config_state,
       do_sd_notify, need_to_delay_reconfig, TicksLeft, Waiting
  <2> QED
    BY <2>1, <2>2 DEF Inv
<1>5. ASSUME NEW m \in Maps, MapRemoved(m) PROVE Inv'
  <2>1. MapStep /\ MapType'
    BY <1>5, RemoveMapStep DEF Inv, MapRemoved
  <2> QED
    BY <1>5, <2>1, MapStepInv DEF Inv, TypeOK, MapRemoved, InTable
<1> QED
  BY <1>1, <1>2, <1>3, <1>4, <1>5 DEF Uxlsnr

LEMMA NextInv == Inv /\ [Next]_vars => Inv'
<1> SUFFICES ASSUME Inv, [Next]_vars PROVE Inv'
  OBVIOUS
<1>1. CASE UNCHANGED vars
  BY <1>1, SMTT(30) DEF Inv, TypeOK, vars, need_to_delay_reconfig, TicksLeft, Waiting
<1> QED
  BY <1>1, ChildInv, CheckerInv, UevqInv, UxlsnrInv DEF Next, Exited

LEMMA InvHolds == Spec => []Inv
BY InitInv, NextInv, PTL DEF Spec

(* A delayed reconfiguration always has a map it waits for, and a request. *)
THEOREM DelayHasReasonHolds == Spec => []DelayHasReason
<1>1. Inv => DelayHasReason
  BY DEF Inv
<1> QED
  BY <1>1, InvHolds, PTL

(* child() is never left sleeping on a request that nobody will wake it for. *)
THEOREM SleeperIsWokenHolds == Spec => []SleeperIsWoken
<1>1. Inv => SleeperIsWoken
  BY DEF Inv
<1> QED
  BY <1>1, InvHolds, PTL

(* reconfigure() never tears down a map that waits for its uevent. *)
THEOREM NoWaiterTornDownHolds == Spec => []NoWaiterTornDown
<1>1. Inv => NoWaiterTornDown
  BY DEF Inv
<1> QED
  BY <1>1, InvHolds, PTL

(* What systemd has been told agrees with the state of the daemon. *)
THEOREM NotifyConsistentHolds == Spec => []NotifyConsistent
<1>1. Inv => NotifyConsistent
  BY DEF Inv
<1> QED
  BY <1>1, InvHolds, PTL

(* No post of a late state leaves DAEMON_SHUTDOWN. *)
THEOREM ShutdownIsFinalHolds == Spec => ShutdownIsFinal
<1>1. [Next]_vars => [running_state = "SHUTDOWN" => running_state' = "SHUTDOWN"]_vars
  <2> SUFFICES ASSUME Next, running_state = "SHUTDOWN" PROVE running_state' = "SHUTDOWN"
    OBVIOUS
  <2> USE DEF post_config_state, unblock_reconfigure, exit_daemon
  <2>1. CASE Child
    BY <2>1 DEF Child, ChildStarts, ChildFails, ChildWaitsForListener, ChildCreatesThreads,
        ChildSleeps, ChildWakes, ChildTakesRequest, ChildDelays, ChildReconfigured,
        ChildReconfigureFails, ChildPostsIdle
  <2>2. CASE Checker
    BY <2>2 DEF Checker, CheckerSleeps, CheckerRuns, CheckerFinishes, CheckerPostsIdle,
        checker_finished
  <2>3. CASE Uevq
    BY <2>3 DEF Uevq, UevqReceives, UevqSleeps, UevqPasses, UevqHandles, ev_add_map,
        remove_map, CreateMap, DeferReload
  <2>4. CASE Uxlsnr
    BY <2>4 DEF Uxlsnr, ListenerFails, ListenerStarts, ListenerReady, Terminate,
        Reconfigure, schedule_reconfigure, MapRemoved, remove_map
  <2> QED
    BY <2>1, <2>2, <2>3, <2>4 DEF Next, Exited, vars
<1> QED
  BY <1>1, PTL DEF Spec, ShutdownIsFinal

(* A recorded request is kept, or strengthened, until it is served in full. *)
THEOREM RequestKeptHolds == Spec => RequestKept
<1> DEFINE kept == reconfigure_pending # "NONE" /\ reconfigure_pending' # reconfigure_pending =>
                      \/ reconfigure_pending' = "YES"
                      \/ (child' = "reconf" /\ reload_type' = reconfigure_pending)
<1>1. Inv /\ [Next]_vars => [kept]_vars
  <2> SUFFICES ASSUME Inv, Next, reconfigure_pending # "NONE",
                      reconfigure_pending' # reconfigure_pending
               PROVE  \/ reconfigure_pending' = "YES"
                      \/ (child' = "reconf" /\ reload_type' = reconfigure_pending)
    OBVIOUS
  <2> USE DEF exit_daemon, unblock_reconfigure
  <2>1. CASE Child
    BY <2>1 DEF Inv, TypeOK, Child, ChildStarts, ChildFails, ChildWaitsForListener,
        ChildCreatesThreads, ChildSleeps, ChildWakes, ChildTakesRequest, ChildDelays,
        ChildReconfigured, ChildReconfigureFails, ChildPostsIdle
  <2>2. CASE Checker
    BY <2>2 DEF Checker, CheckerSleeps, CheckerRuns, CheckerFinishes, CheckerPostsIdle,
        checker_finished
  <2>3. CASE Uevq
    BY <2>3 DEF Uevq, UevqReceives, UevqSleeps, UevqPasses, UevqHandles, ev_add_map,
        remove_map, CreateMap, DeferReload
  <2>4. CASE Uxlsnr
    BY <2>4 DEF Inv, TypeOK, Uxlsnr, ListenerFails, ListenerStarts, ListenerReady, Terminate,
        Reconfigure, schedule_reconfigure, MapRemoved, remove_map
  <2> QED
    BY <2>1, <2>2, <2>3, <2>4 DEF Next, Exited, vars
<1> QED
  BY <1>1, InvHolds, PTL DEF Spec, RequestKept
=============================================================================
