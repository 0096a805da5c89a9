----------------------------- MODULE DaemonState -----------------------------
(***************************************************************************)
(* The state of multipathd and the handshake by which its threads start,   *)
(* reconfigure and stop the daemon (multipathd/main.c): running_state and  *)
(* the two flags beside it under config_lock, the condition variable       *)
(* config_cond, and the part of vecs the handshake depends on: which maps  *)
(* still wait for their creation uevent.                                   *)
(*                                                                         *)
(* A step is one critical section of config_lock.  Critical sections of    *)
(* vecs->lock are one step too, except the main thread's: the others touch *)
(* the state of config_lock at most once, in unblock_reconfigure().        *)
(***************************************************************************)
EXTENDS Naturals, FiniteSets

CONSTANTS
    Maps,               \* names of multipath maps
    uev_wait_timeout,   \* checker ticks to wait for a creation uevent
    MaxCreates          \* bound: maps created by uevents, not by reconfigure()

ASSUME TimeoutAssumption == uev_wait_timeout \in Nat \ {0}
ASSUME MaxCreatesAssumption == MaxCreates \in Nat

VARIABLES
    running_state,
    reconfigure_pending,
    delayed_reconfig,
    startup_done,       \* static variable of do_sd_notify()
    sd,                 \* what systemd has been told
    asleep,             \* threads blocked on config_cond
    child,              \* where the main thread is
    checker,            \* ... the checker loop
    uevq,               \* ... the uevent dispatcher
    uxlsnr,             \* ... the client listener
    reload_type,        \* argument of the last reconfigure()
    wait_for_udev,      \* per map; "NOMAP" if the map is not in mpvec
    uev_wait_tick,
    creates

stateVars == <<running_state, startup_done, sd>>
confVars  == <<running_state, startup_done, sd, asleep,
               reconfigure_pending, delayed_reconfig>>
mapVars   == <<wait_for_udev, uev_wait_tick, creates>>
vars      == <<confVars, child, checker, uevq, uxlsnr, reload_type, mapVars>>

DaemonStates == {"INIT", "START", "CONFIGURE", "IDLE", "RUNNING", "SHUTDOWN"}
ReloadTypes == {"NONE", "WEAK", "YES"}
WaitStates  == {"NOMAP", "DONE", "STARTED", "RELOAD"}

(* Type invariant: the variables have the types of the C declarations. *)
TypeOK ==
    /\ running_state \in DaemonStates
    /\ reconfigure_pending \in ReloadTypes
    /\ delayed_reconfig \in BOOLEAN
    /\ startup_done \in BOOLEAN
    /\ sd \in {"starting", "ready", "reloading", "stopping"}
    /\ asleep \subseteq {"child", "checker", "uevq"}
    /\ child \in {"init", "start", "loop", "lock", "reconf", "post", "exit"}
    /\ checker \in {"off", "top", "check", "post", "exit"}
    /\ uevq \in {"off", "recv", "gate", "handle"}
    /\ uxlsnr \in {"off", "start", "wait", "listen", "exit"}
    /\ reload_type \in ReloadTypes
    /\ wait_for_udev \in [Maps -> WaitStates]
    /\ uev_wait_tick \in [Maps -> 0..uev_wait_timeout]
    /\ creates \in 0..MaxCreates

Init ==
    /\ running_state = "INIT"
    /\ reconfigure_pending = "NONE"
    /\ delayed_reconfig = FALSE
    /\ startup_done = FALSE
    /\ sd = "starting"
    /\ asleep = {}
    /\ child = "init"
    /\ checker = "off"
    /\ uevq = "off"
    /\ uxlsnr = "off"
    /\ reload_type = "NONE"
    /\ wait_for_udev = [m \in Maps |-> "NOMAP"]
    /\ uev_wait_tick = [m \in Maps |-> 0]
    /\ creates = 0

-----------------------------------------------------------------------------
(* The state functions of main.c, each called with config_lock held. *)

(* Mutant: a shutdown during a reconfiguration is not announced. *)
NotifyForgetsStop(old, new) ==
    LET ready == old = "CONFIGURE" /\ new = "IDLE" IN
    /\ startup_done' = (startup_done \/ ready)
    /\ sd' = IF new = "SHUTDOWN" /\ old # "CONFIGURE" THEN "stopping"
             ELSE IF ready THEN "ready"
             ELSE IF new = "CONFIGURE" /\ startup_done THEN "reloading"
             ELSE sd

(* Messages to systemd; at most the last one of a call is visible. *)
do_sd_notify(old, new) ==
    LET ready == old = "CONFIGURE" /\ new = "IDLE" IN
    /\ startup_done' = (startup_done \/ ready)
    /\ sd' = IF new = "SHUTDOWN" THEN "stopping"
             ELSE IF ready THEN "ready"
             ELSE IF new = "CONFIGURE" /\ startup_done THEN "reloading"
             ELSE sd

(* Mutant: the final state can be left again. *)
PostAlways(state) ==
    IF state # running_state
    THEN /\ running_state' = state
         /\ asleep' = {}
         /\ do_sd_notify(running_state, state)
    ELSE UNCHANGED <<stateVars, asleep>>

post_config_state(state) ==
    IF state # running_state /\ running_state # "SHUTDOWN"
    THEN /\ running_state' = state
         /\ asleep' = {}
         /\ do_sd_notify(running_state, state)
    ELSE UNCHANGED <<stateVars, asleep>>

(* Mutant: an idle main thread is not told. *)
UnblockSilently ==
    /\ delayed_reconfig' = FALSE
    /\ UNCHANGED <<stateVars, asleep, reconfigure_pending>>

unblock_reconfigure ==
    /\ delayed_reconfig' = FALSE
    /\ UNCHANGED reconfigure_pending
    /\ IF delayed_reconfig /\ running_state = "IDLE"
       THEN post_config_state("CONFIGURE")
       ELSE UNCHANGED <<stateVars, asleep>>

(* Mutant: a weaker request replaces a stronger one. *)
ScheduleOverwrites(type) ==
    /\ IF running_state \in {"IDLE", "CONFIGURE", "RUNNING"}
       THEN reconfigure_pending' = type
       ELSE UNCHANGED reconfigure_pending
    /\ IF running_state = "IDLE"
       THEN post_config_state("CONFIGURE")
       ELSE UNCHANGED <<stateVars, asleep>>
    /\ UNCHANGED delayed_reconfig

schedule_reconfigure(type) ==
    /\ IF running_state \in {"IDLE", "CONFIGURE", "RUNNING"}
       THEN reconfigure_pending' = IF "YES" \in {type, reconfigure_pending}
                                   THEN "YES" ELSE "WEAK"
       ELSE UNCHANGED reconfigure_pending
    /\ IF running_state = "IDLE"
       THEN post_config_state("CONFIGURE")
       ELSE UNCHANGED <<stateVars, asleep>>
    /\ UNCHANGED delayed_reconfig

exit_daemon ==
    /\ post_config_state("SHUTDOWN")
    /\ UNCHANGED <<reconfigure_pending, delayed_reconfig>>

(* pthread_cond_wait(&config_cond, &config_lock) *)
CondWait(t) ==
    /\ asleep' = asleep \cup {t}
    /\ UNCHANGED <<stateVars, reconfigure_pending, delayed_reconfig>>

Waiting(m) == wait_for_udev[m] \in {"STARTED", "RELOAD"}

need_to_delay_reconfig == \E m \in Maps : Waiting(m)

(* vecs->lock is taken across steps only by the main thread. *)
VecsFree == child # "reconf"

-----------------------------------------------------------------------------
(* child(): the main thread. *)

(* Up to the creation of the listener. *)
ChildStarts ==
    /\ child = "init"
    /\ post_config_state("START")
    /\ child' = "start"
    /\ uxlsnr' = "start"
    /\ UNCHANGED <<reconfigure_pending, delayed_reconfig, checker, uevq,
                   reload_type, mapVars>>

(* Something could not be set up, or the listener did not start. *)
ChildFails ==
    /\ child \in {"init", "start"}
    /\ "child" \notin asleep
    /\ child = "start" => running_state # "START"
    /\ child' = "exit"
    /\ UNCHANGED <<confVars, checker, uevq, uxlsnr, reload_type, mapVars>>

ChildWaitsForListener ==
    /\ child = "start"
    /\ "child" \notin asleep
    /\ running_state = "START"
    /\ CondWait("child")
    /\ UNCHANGED <<child, checker, uevq, uxlsnr, reload_type, mapVars>>

ChildCreatesThreads ==
    /\ child = "start"
    /\ "child" \notin asleep
    /\ running_state = "CONFIGURE"
    /\ child' = "loop"
    /\ checker' = "top"
    /\ uevq' = "recv"
    /\ UNCHANGED <<confVars, uxlsnr, reload_type, mapVars>>

(* Mutant: the main loop does not look for a shutdown. *)
ChildIdleIgnoresStop ==
    /\ running_state # "CONFIGURE"
    /\ reconfigure_pending = "NONE" \/ delayed_reconfig

(* Nothing to do in the main loop: not configuring, no request to serve. *)
ChildIdle ==
    /\ running_state \notin {"CONFIGURE", "SHUTDOWN"}
    /\ reconfigure_pending = "NONE" \/ delayed_reconfig

ChildSleeps ==
    /\ child = "loop"
    /\ "child" \notin asleep
    /\ ChildIdle
    /\ CondWait("child")
    /\ UNCHANGED <<child, checker, uevq, uxlsnr, reload_type, mapVars>>

ChildWakes ==
    /\ child = "loop"
    /\ "child" \notin asleep
    /\ ~ChildIdle
    /\ post_config_state("CONFIGURE")
    /\ child' = IF running_state = "SHUTDOWN" THEN "exit" ELSE "lock"
    /\ UNCHANGED <<reconfigure_pending, delayed_reconfig, checker, uevq,
                   uxlsnr, reload_type, mapVars>>

(* Mutant: the request is served in spite of maps that wait for udev. *)
ChildIgnoresWaiters ==
    /\ child = "lock"
    /\ reload_type' = IF reconfigure_pending = "YES" THEN "YES" ELSE "WEAK"
    /\ reconfigure_pending' = "NONE"
    /\ delayed_reconfig' = FALSE
    /\ child' = "reconf"
    /\ UNCHANGED <<stateVars, asleep, checker, uevq, uxlsnr, mapVars>>

(* lock(&vecs->lock), and the request is taken *)
ChildTakesRequest ==
    /\ child = "lock"
    /\ ~need_to_delay_reconfig
    /\ reload_type' = IF reconfigure_pending = "YES" THEN "YES" ELSE "WEAK"
    /\ reconfigure_pending' = "NONE"
    /\ delayed_reconfig' = FALSE
    /\ child' = "reconf"
    /\ UNCHANGED <<stateVars, asleep, checker, uevq, uxlsnr, mapVars>>

ChildDelays ==
    /\ child = "lock"
    /\ need_to_delay_reconfig
    /\ delayed_reconfig' = TRUE
    /\ child' = "post"
    /\ UNCHANGED <<stateVars, asleep, reconfigure_pending, checker, uevq,
                   uxlsnr, reload_type, mapVars>>

(***************************************************************************)
(* reconfigure() has ended: all maps were forgotten and set up again, some *)
(* of them newly created (configure()); a shutdown cuts this short.        *)
(***************************************************************************)
ChildReconfigured ==
    /\ child = "reconf"
    /\ wait_for_udev' \in [Maps -> {"NOMAP", "DONE", "STARTED"}]
    /\ uev_wait_tick' = [m \in Maps |-> IF wait_for_udev'[m] = "STARTED"
                                        THEN uev_wait_timeout ELSE 0]
    /\ child' = "post"
    /\ UNCHANGED <<confVars, checker, uevq, uxlsnr, reload_type, creates>>

(* reconfigure() failed before or after the old maps were forgotten. *)
ChildReconfigureFails ==
    /\ child = "reconf"
    /\ \/ UNCHANGED <<wait_for_udev, uev_wait_tick>>
       \/ /\ wait_for_udev' = [m \in Maps |-> "NOMAP"]
          /\ uev_wait_tick' = [m \in Maps |-> 0]
    /\ exit_daemon
    /\ child' = "loop"
    /\ UNCHANGED <<checker, uevq, uxlsnr, reload_type, creates>>

ChildPostsIdle ==
    /\ child = "post"
    /\ post_config_state("IDLE")
    /\ child' = "loop"
    /\ UNCHANGED <<reconfigure_pending, delayed_reconfig, checker, uevq,
                   uxlsnr, reload_type, mapVars>>

-----------------------------------------------------------------------------
(* Changes of the map table made with vecs->lock held. *)

(* Mutant: a removed map that was waited for blocks the main thread. *)
RemoveQuietly(M) ==
    /\ wait_for_udev' = [m \in Maps |-> IF m \in M THEN "NOMAP" ELSE wait_for_udev[m]]
    /\ uev_wait_tick' = [m \in Maps |-> IF m \in M THEN 0 ELSE uev_wait_tick[m]]
    /\ UNCHANGED <<confVars, creates>>

(* remove_map() and remove_map_callback() *)
remove_map(M) ==
    /\ wait_for_udev' = [m \in Maps |-> IF m \in M THEN "NOMAP" ELSE wait_for_udev[m]]
    /\ uev_wait_tick' = [m \in Maps |-> IF m \in M THEN 0 ELSE uev_wait_tick[m]]
    /\ UNCHANGED creates
    /\ IF \E m \in M : Waiting(m)
       THEN unblock_reconfigure
       ELSE UNCHANGED confVars

InTable(m) == wait_for_udev[m] # "NOMAP"

(* The creation uevent, or another change uevent, of a map. *)
ev_add_map(m) ==
    IF InTable(m)
    THEN \/ /\ wait_for_udev[m] = "RELOAD"      \* update_map() lost the map
            /\ remove_map({m})
         \/ /\ wait_for_udev' = [wait_for_udev EXCEPT ![m] = "DONE"]
            /\ uev_wait_tick' = [uev_wait_tick EXCEPT ![m] = 0]
            /\ UNCHANGED creates
            /\ IF Waiting(m) /\ \A n \in Maps \ {m} : ~Waiting(n)
               THEN unblock_reconfigure
               ELSE UNCHANGED confVars
    ELSE /\ wait_for_udev' = [wait_for_udev EXCEPT ![m] = "DONE"]
         /\ UNCHANGED <<confVars, uev_wait_tick, creates>>

(* domap() creates the map in the kernel for a path of a uevent. *)
CreateMap(m) ==
    /\ creates < MaxCreates
    /\ wait_for_udev' = [wait_for_udev EXCEPT ![m] = "STARTED"]
    /\ uev_wait_tick' = [uev_wait_tick EXCEPT ![m] = uev_wait_timeout]
    /\ creates' = creates + 1
    /\ UNCHANGED confVars

(* A path event of a map that is being created leaves the work for later. *)
DeferReload(m) ==
    /\ wait_for_udev[m] = "STARTED"
    /\ wait_for_udev' = [wait_for_udev EXCEPT ![m] = "RELOAD"]
    /\ UNCHANGED <<confVars, uev_wait_tick, creates>>

(* Mutant: the counter runs although the map does not wait. *)
TickAlways(m) == uev_wait_tick[m] - 1

missing_uev_wait_tick(m) == IF Waiting(m) THEN uev_wait_tick[m] - 1 ELSE 0

(***************************************************************************)
(* checker_finished(): a map that is gone from the kernel is removed       *)
(* (Lost); a waiting map is one tick closer to its timeout, after which    *)
(* its delayed update may remove it (Failed); one that needs a reload      *)
(* while it waits is marked.                                               *)
(***************************************************************************)
Expired(Lost) == {m \in Maps \ Lost : Waiting(m) /\ uev_wait_tick[m] = 1}

checker_finished(Lost, Failed, Mark) ==
    /\ wait_for_udev' = [m \in Maps |->
                            IF m \in Lost \cup (Failed \cap Expired(Lost)) THEN "NOMAP"
                            ELSE IF m \in Expired(Lost) THEN "DONE"
                            ELSE IF m \in Mark /\ Waiting(m) THEN "RELOAD"
                            ELSE wait_for_udev[m]]
    /\ uev_wait_tick' = [m \in Maps |->
                            IF m \in Lost THEN 0 ELSE missing_uev_wait_tick(m)]
    /\ UNCHANGED creates
    /\ IF \/ \E m \in Lost : Waiting(m)
          \/ /\ Expired(Lost) # {}
             /\ \A m \in Maps \ (Lost \cup Expired(Lost)) : ~Waiting(m)
       THEN unblock_reconfigure
       ELSE UNCHANGED confVars

-----------------------------------------------------------------------------
(* checkerloop() *)

CheckerSleeps ==
    /\ checker = "top"
    /\ "checker" \notin asleep
    /\ running_state \notin {"RUNNING", "IDLE", "SHUTDOWN"}
    /\ CondWait("checker")
    /\ UNCHANGED <<child, checker, uevq, uxlsnr, reload_type, mapVars>>

(* set_config_state(DAEMON_RUNNING) *)
CheckerRuns ==
    /\ checker = "top"
    /\ "checker" \notin asleep
    /\ running_state \in {"RUNNING", "IDLE", "SHUTDOWN"}
    /\ IF running_state = "IDLE"
       THEN post_config_state("RUNNING")
       ELSE UNCHANGED <<stateVars, asleep>>
    /\ checker' = IF running_state = "SHUTDOWN" THEN "exit" ELSE "check"
    /\ UNCHANGED <<reconfigure_pending, delayed_reconfig, child, uevq,
                   uxlsnr, reload_type, mapVars>>

CheckerFinishes ==
    /\ checker = "check"
    /\ VecsFree
    /\ \E Lost \in SUBSET {m \in Maps : InTable(m)} :
       \E Failed \in SUBSET Expired(Lost), Mark \in SUBSET {m \in Maps \ Lost : Waiting(m)} :
            checker_finished(Lost, Failed, Mark)
    /\ checker' = "post"
    /\ UNCHANGED <<child, uevq, uxlsnr, reload_type>>

(* post_config_state(DAEMON_IDLE), then sleep for a second *)
CheckerPostsIdle ==
    /\ checker = "post"
    /\ post_config_state("IDLE")
    /\ checker' = "top"
    /\ UNCHANGED <<reconfigure_pending, delayed_reconfig, child, uevq,
                   uxlsnr, reload_type, mapVars>>

-----------------------------------------------------------------------------
(* uevqloop(): uev_trigger() for each uevent *)

UevqReceives ==
    /\ uevq = "recv"
    /\ uevq' = "gate"
    /\ UNCHANGED <<confVars, child, checker, uxlsnr, reload_type, mapVars>>

UevqSleeps ==
    /\ uevq = "gate"
    /\ "uevq" \notin asleep
    /\ running_state \notin {"IDLE", "RUNNING", "SHUTDOWN"}
    /\ CondWait("uevq")
    /\ UNCHANGED <<child, checker, uevq, uxlsnr, reload_type, mapVars>>

UevqPasses ==
    /\ uevq = "gate"
    /\ "uevq" \notin asleep
    /\ running_state \in {"IDLE", "RUNNING", "SHUTDOWN"}
    /\ uevq' = IF running_state = "SHUTDOWN" THEN "recv" ELSE "handle"
    /\ UNCHANGED <<confVars, child, checker, uxlsnr, reload_type, mapVars>>

UevqHandles ==
    /\ uevq = "handle"
    /\ VecsFree
    /\ \E m \in Maps :
            \/ ev_add_map(m)
            \/ remove_map({m} \cap {n \in Maps : InTable(n)})   \* remove uevents
            \/ CreateMap(m)
            \/ DeferReload(m)
    /\ uevq' = "recv"
    /\ UNCHANGED <<child, checker, uxlsnr, reload_type>>

-----------------------------------------------------------------------------
(* uxlsnrloop(): clients and signals.  Signals are only delivered there. *)

ListenerFails ==
    /\ uxlsnr = "start"
    /\ exit_daemon
    /\ uxlsnr' = "exit"
    /\ UNCHANGED <<child, checker, uevq, reload_type, mapVars>>

ListenerStarts ==
    /\ uxlsnr = "start"
    /\ post_config_state("CONFIGURE")
    /\ uxlsnr' = "wait"
    /\ UNCHANGED <<reconfigure_pending, delayed_reconfig, child, checker, uevq,
                   reload_type, mapVars>>

(* wait_for_state_change_if(DAEMON_CONFIGURE, 50), over and over *)
ListenerReady ==
    /\ uxlsnr = "wait"
    /\ running_state # "CONFIGURE"
    /\ uxlsnr' = "listen"
    /\ UNCHANGED <<confVars, child, checker, uevq, reload_type, mapVars>>

(* A termination signal, "multipathd shutdown", or a failure of poll(). *)
Terminate ==
    /\ uxlsnr \in {"wait", "listen"}
    /\ exit_daemon
    /\ UNCHANGED <<child, checker, uevq, uxlsnr, reload_type, mapVars>>

(* SIGHUP or "multipathd reconfigure" (WEAK), "reconfigure all" (YES) *)
Reconfigure(type) ==
    /\ uxlsnr = "listen"
    /\ schedule_reconfigure(type)
    /\ UNCHANGED <<child, checker, uevq, uxlsnr, reload_type, mapVars>>

(* A client, or the dm event thread, finds or makes a map gone. *)
MapRemoved(m) ==
    /\ uxlsnr = "listen"
    /\ VecsFree
    /\ InTable(m)
    /\ remove_map({m})
    /\ UNCHANGED <<child, checker, uevq, uxlsnr, reload_type>>

(* The process ends with the main thread. *)
Exited == child = "exit" /\ UNCHANGED vars

-----------------------------------------------------------------------------
Child ==
    \/ ChildStarts \/ ChildFails \/ ChildWaitsForListener \/ ChildCreatesThreads
    \/ ChildSleeps \/ ChildWakes \/ ChildTakesRequest \/ ChildDelays
    \/ ChildReconfigured \/ ChildReconfigureFails \/ ChildPostsIdle

Checker == CheckerSleeps \/ CheckerRuns \/ CheckerFinishes \/ CheckerPostsIdle

Uevq == UevqReceives \/ UevqSleeps \/ UevqPasses \/ UevqHandles

Uxlsnr ==
    \/ ListenerFails \/ ListenerStarts \/ ListenerReady \/ Terminate
    \/ \E type \in {"WEAK", "YES"} : Reconfigure(type)
    \/ \E m \in Maps : MapRemoved(m)

Next == Child \/ Checker \/ Uevq \/ Uxlsnr \/ Exited

Spec == Init /\ [][Next]_vars

(* The main thread can go on, the checker loop can, and it can start a round. *)
ChildReady == child # "exit" /\ (child \in {"start", "loop"} => "child" \notin asleep)
CheckerReady ==
    \/ checker = "top" /\ "checker" \notin asleep
    \/ checker = "check" /\ VecsFree
    \/ checker = "post"
RoundReady ==
    /\ checker = "top" /\ "checker" \notin asleep
    /\ running_state \in {"RUNNING", "IDLE", "SHUTDOWN"}

(***************************************************************************)
(* Every thread that can run does: the critical sections of the others are *)
(* short.  Nobody needs to send a uevent, a command or a signal.  Weak     *)
(* fairness of the steps of a thread, and strong fairness for the checker  *)
(* loop: clients that request reconfigurations without end may change the  *)
(* state before it gets config_lock, but not each time the state is IDLE.  *)
(***************************************************************************)
FairSpec ==
    /\ Spec
    /\ []<>~ChildReady \/ []<><<Child>>_vars
    /\ []<>~CheckerReady \/ []<><<Checker>>_vars
    /\ []<>RoundReady => []<><<CheckerRuns>>_vars
    /\ []<>(uxlsnr # "start") \/ []<><<ListenerFails \/ ListenerStarts>>_vars
    /\ WF_vars(ListenerReady)

-----------------------------------------------------------------------------
(* Properties *)

(***************************************************************************)
(* A delayed reconfiguration is delayed for a reason: whenever nobody      *)
(* holds vecs->lock, there is a map that waits for udev, and a request is  *)
(* recorded.  Otherwise child() would sleep for ever: it tests             *)
(* delayed_reconfig "to avoid a busy loop".                                *)
(***************************************************************************)
DelayHasReason ==
    delayed_reconfig => need_to_delay_reconfig /\ reconfigure_pending # "NONE"

(***************************************************************************)
(* No lost wakeup: while child() sleeps in its main loop with a request to *)
(* serve that nothing delays, the checker loop is between setting RUNNING  *)
(* and posting IDLE, and so will wake it ("Otherwise it will wake up when  *)
(* state switches to IDLE").                                               *)
(***************************************************************************)
SleeperIsWoken ==
    "child" \in asleep /\ child = "loop" /\ ~ChildIdle =>
        running_state = "RUNNING" /\ checker \in {"check", "post"}

(* Maps are only torn down by reconfigure() when none waits for udev. *)
NoWaiterTornDown == child = "reconf" => ~need_to_delay_reconfig

(***************************************************************************)
(* systemd hears READY=1 for the first time after the first configuration, *)
(* and RELOADING=1 is always followed by another message when the state    *)
(* leaves CONFIGURE.                                                       *)
(***************************************************************************)
NotifyConsistent ==
    /\ sd \in {"ready", "reloading"} => startup_done /\ reload_type # "NONE"
    /\ sd = "reloading" => running_state = "CONFIGURE"
    /\ running_state = "SHUTDOWN" => sd = "stopping"

(* DAEMON_SHUTDOWN is final: no late post of IDLE or RUNNING revives it. *)
ShutdownIsFinal == [][running_state = "SHUTDOWN" => running_state' = "SHUTDOWN"]_vars

(***************************************************************************)
(* A request is neither forgotten nor weakened: it stays recorded until    *)
(* child() takes it for a reconfigure() that is at least as strong.        *)
(***************************************************************************)
RequestKept ==
    [][reconfigure_pending # "NONE" /\ reconfigure_pending' # reconfigure_pending =>
          \/ reconfigure_pending' = "YES"
          \/ (child' = "reconf" /\ reload_type' = reconfigure_pending)]_vars

(* Every recorded request is served, unless the daemon is stopped first. *)
RequestServed ==
    /\ (reconfigure_pending # "NONE") ~> (child = "reconf" \/ running_state = "SHUTDOWN")
    /\ (reconfigure_pending = "YES") ~>
            ((child = "reconf" /\ reload_type = "YES") \/ running_state = "SHUTDOWN")

(* A daemon told to stop stops: the main thread leaves its loop. *)
ShutdownObeyed == (running_state = "SHUTDOWN") ~> (child = "exit")

-----------------------------------------------------------------------------
(* The inductive invariant. *)

(* Until the first reconfigure() there are no maps, and nobody may ask for one. *)
Startup ==
    /\ child = "init" => running_state = "INIT" /\ uxlsnr = "off"
    /\ child \in {"init", "start"} => reload_type = "NONE"
    /\ child \in {"loop", "lock", "reconf", "post"} => running_state \notin {"INIT", "START"}
    /\ uxlsnr = "start" => running_state = "START" /\ child = "start"
    /\ uxlsnr \in {"wait", "listen"} => running_state \notin {"INIT", "START"}
    /\ reload_type = "NONE" =>
          /\ running_state \in {"INIT", "START", "CONFIGURE", "SHUTDOWN"}
          /\ reconfigure_pending = "NONE"
          /\ ~startup_done
          /\ child \notin {"reconf", "post"}
          /\ checker \in {"off", "top", "exit"}
          /\ uevq \in {"off", "recv", "gate"}
          /\ uxlsnr = "listen" => running_state = "SHUTDOWN"
          /\ \A m \in Maps : wait_for_udev[m] = "NOMAP"

(* Who is in which state, and why the main thread is about to reconfigure. *)
Handshake ==
    /\ running_state = "RUNNING" => checker \in {"check", "post"}
    /\ "child" \in asleep => child \in {"start", "loop"}
    /\ "child" \in asleep /\ child = "loop" => running_state \in {"IDLE", "RUNNING"}
    /\ child = "loop" /\ running_state = "CONFIGURE" =>
          reconfigure_pending # "NONE" \/ reload_type = "NONE"
    /\ child = "lock" => reconfigure_pending # "NONE" \/ reload_type = "NONE"

(* A map that waits has not timed out. *)
TicksLeft == \A m \in Maps : Waiting(m) => uev_wait_tick[m] > 0

Safety ==
    /\ DelayHasReason
    /\ SleeperIsWoken
    /\ NoWaiterTornDown
    /\ NotifyConsistent
    /\ Startup
    /\ Handshake
    /\ TicksLeft

Inv == TypeOK /\ Safety
=============================================================================
