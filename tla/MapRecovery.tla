---------------------------- MODULE MapRecovery -----------------------------
(***************************************************************************)
(* Path states and I/O queueing of one multipath map.                      *)
(*                                                                         *)
(* The checker loop (multipathd/main.c) starts the checkers of the paths   *)
(* that are due, applies their results with update_path_state() and ends   *)
(* its round with checker_finished().  Device-mapper events and operator   *)
(* commands change the same map in between; all hold vecs->lock, which the *)
(* loop may release between two paths.  When no path is left,              *)
(* no_path_retry decides how long the kernel queues I/O: recovery mode     *)
(* (libmultipath/structs_vec.c) counts down and then stops queueing.       *)
(*                                                                         *)
(* The state of multipathd and of the kernel for the map is the record     *)
(* "map"; an operator per function of the code maps it to its next value.  *)
(* The arguments read, loaded and ok tell whether the status was read, the *)
(* table loaded and the message sent; bad is the set of paths for which    *)
(* the message failed.                                                     *)
(***************************************************************************)
EXTENDS Integers

CONSTANTS Paths,         \* the paths of the map
          ConfRetry,     \* values of no_path_retry in the configuration
          checkint,      \* conf->checkint
          Results,       \* states that a check can find
          ImplicitTpgs,  \* the target supports implicit TPGS only
          Faults,        \* what may fail: "read", "load", "message"
          Operator       \* an operator uses the client

NO_PATH_RETRY_UNDEF == 0
NO_PATH_RETRY_FAIL  == -1
NO_PATH_RETRY_QUEUE == -2

ASSUME RetryAssumption == ConfRetry \subseteq (Nat \cup {NO_PATH_RETRY_FAIL, NO_PATH_RETRY_QUEUE})
ASSUME CheckintAssumption == checkint \in Nat \ {0}
ASSUME ResultsAssumption == Results \subseteq {"UP", "GHOST", "DOWN"}

VARIABLES
  map,      \* the map, in multipathd and in the kernel
  real,     \* state of each path that a completed check would find
  conf,     \* no_path_retry in the configuration
  phase,    \* of the checker loop
  started,  \* paths with is_checked = CHECK_PATH_STARTED
  checked   \* mpp->checker_count # 0

loop == <<phase, started, checked>>
vars == <<map, real, conf, loop>>

ActiveStates == {"UP", "GHOST"}
PathStates   == ActiveStates \cup {"DOWN", "PENDING", "UNCHECKED"}
DmStates     == {"ACTIVE", "FAILED"}
Features     == {"queue", "other", "NULL"}

MapRecord ==
    [ alive            : BOOLEAN,                        \* in mpvec
      state            : [Paths -> PathStates],          \* pp->state
      enabled          : [Paths -> BOOLEAN],             \* the checker is
      dmstate          : [Paths -> DmStates \cup {"UNDEF"}],
      pg               : BOOLEAN,                        \* mpp->pg # NULL
      features         : Features,                       \* mpp->features
      no_path_retry    : Int,
      in_recovery      : BOOLEAN,
      retry_tick       : Nat,
      disable_queueing : BOOLEAN,
      queueing         : BOOLEAN,                        \* kernel
      dm               : [Paths -> DmStates] ]           \* kernel

\* The variables have their types; retry_tick counts only in recovery mode.
TypeOK ==
    /\ map \in MapRecord
    /\ real \in [Paths -> Results]
    /\ conf \in ConfRetry
    /\ phase \in {"idle", "update"}
    /\ started \subseteq Paths
    /\ checked \in BOOLEAN
    /\ map.retry_tick > 0 => map.in_recovery

-----------------------------------------------------------------------------
(* libmultipath: the mode of the map.                                      *)

\* count_active_paths() > 0; a map without path groups has no active path.
UpPath(m) == \E p \in Paths : m.state[p] \in ActiveStates
Active(m) == m.pg /\ UpPath(m)

Pending(m) == m.pg /\ \E p \in Paths : m.state[p] = "PENDING"

(* Mutant: the features change although the message failed. *)
FeatureWithoutMessage(m, enable, ok) ==
    [m EXCEPT !.queueing = IF ok THEN enable ELSE @,
              !.features = IF enable THEN "queue"
                           ELSE IF @ = "queue" THEN "other" ELSE @]

dm_queue_if_no_path(m, enable, ok) ==
    IF ~ok THEN m
    ELSE [m EXCEPT !.queueing = enable,
                   !.features = IF enable THEN "queue"
                                ELSE IF @ = "queue" THEN "other" ELSE @]

(* Mutant: a countdown that is under way starts anew. *)
EnterAlways(m) ==
    IF m.no_path_retry <= 0 THEN m
    ELSE [m EXCEPT !.in_recovery = TRUE,
                   !.retry_tick = m.no_path_retry * checkint + 1]

enter_recovery_mode(m) ==
    IF m.in_recovery \/ m.no_path_retry <= 0 THEN m
    ELSE [m EXCEPT !.in_recovery = TRUE,
                   !.retry_tick = m.no_path_retry * checkint + 1]

leave_recovery_mode(m, ok) ==
    LET left == [m EXCEPT !.in_recovery = FALSE, !.retry_tick = 0] IN
    IF m.in_recovery /\ (m.no_path_retry = NO_PATH_RETRY_QUEUE \/ m.no_path_retry > 0)
    THEN dm_queue_if_no_path(left, TRUE, ok)
    ELSE left

\* A map with active paths leaves recovery mode, one without enters it; one
\* that has timed out stops queueing again if it still does.
RetryActive(m, ok) ==
    leave_recovery_mode(IF m.features # "queue" /\ ~m.in_recovery
                        THEN dm_queue_if_no_path(m, TRUE, ok) ELSE m, ok)

RetryInactive(m, ok) ==
    LET stopped == IF m.features # "other" /\ m.in_recovery /\ m.retry_tick = 0
                   THEN dm_queue_if_no_path(m, FALSE, ok) ELSE m
    IN IF Pending(m) THEN stopped ELSE enter_recovery_mode(stopped)

set_no_path_retry(m, ok) ==
    IF m.no_path_retry = NO_PATH_RETRY_UNDEF THEN m
    ELSE IF m.no_path_retry = NO_PATH_RETRY_FAIL
    THEN IF m.features # "other" THEN dm_queue_if_no_path(m, FALSE, ok) ELSE m
    ELSE IF m.no_path_retry = NO_PATH_RETRY_QUEUE
    THEN IF m.features # "queue" THEN dm_queue_if_no_path(m, TRUE, ok) ELSE m
    ELSE IF Active(m) THEN RetryActive(m, ok) ELSE RetryInactive(m, ok)

update_queue_mode_del_path(m) == IF Active(m) THEN m ELSE enter_recovery_mode(m)

update_queue_mode_add_path(m, ok) ==
    IF Active(m) THEN leave_recovery_mode(m, ok) ELSE m

-----------------------------------------------------------------------------
(* libmultipath: what is read from and written to the kernel.              *)

\* update_multipath_strings(): a failure leaves no path groups, no features.
update_multipath_strings(m, ok) ==
    IF ok THEN [m EXCEPT !.pg = TRUE, !.dmstate = m.dm,
                         !.features = IF m.queueing THEN "queue" ELSE "other"]
    ELSE [m EXCEPT !.pg = FALSE, !.features = "NULL"]

\* setup_multipath(): a map that cannot be read is removed.
setup_multipath(m, read, ok) ==
    IF read THEN set_no_path_retry(update_multipath_strings(m, TRUE), ok)
    ELSE [m EXCEPT !.alive = FALSE]

\* sync_map_state() tells the kernel which paths work.
SyncFails(m) == {p \in Paths : m.dmstate[p] # "FAILED" /\ m.state[p] = "DOWN"}
SyncReinstates(m) ==
    {p \in Paths : m.dmstate[p] # "ACTIVE" /\ m.state[p] \in ActiveStates}

sync_map_state(m, bad) ==
    IF ~m.pg THEN m
    ELSE [m EXCEPT !.dm = [p \in Paths |-> IF p \in bad THEN @[p]
                                           ELSE IF p \in SyncFails(m) THEN "FAILED"
                                           ELSE IF p \in SyncReinstates(m) THEN "ACTIVE"
                                           ELSE @[p]]]

\* assemble_map(): the features of the new table.
(* Mutant: the new table queues although the retries are used up. *)
AssembleAlways(m) == m.no_path_retry \notin {NO_PATH_RETRY_UNDEF, NO_PATH_RETRY_FAIL}

(* Mutant: recovery mode alone keeps the new table from queueing. *)
AssembleIgnoresTick(m) ==
    \/ m.no_path_retry = NO_PATH_RETRY_QUEUE
    \/ m.no_path_retry > 0 /\ ~(m.in_recovery /\ ~Active(m))

assemble_map(m) ==
    \/ m.no_path_retry = NO_PATH_RETRY_QUEUE
    \/ m.no_path_retry > 0 /\ ~(m.in_recovery /\ m.retry_tick = 0 /\ ~Active(m))

\* reload_map(): setup_map() selects the properties anew, domap() loads the
\* table, in which the kernel takes every path as active.
reload_map(m, loaded) ==
    LET set  == [m EXCEPT !.disable_queueing = FALSE, !.no_path_retry = conf, !.pg = TRUE]
        load == [set EXCEPT !.features = IF assemble_map(set) THEN "queue" ELSE "other"]
    IN IF loaded
       THEN [load EXCEPT !.queueing = assemble_map(set), !.dm = [p \in Paths |-> "ACTIVE"]]
       ELSE load

reload_and_sync_map(m, loaded, read, ok, bad) ==
    LET setup == setup_multipath(reload_map(m, loaded), read, ok) IN
    IF setup.alive THEN sync_map_state(setup, bad) ELSE setup

-----------------------------------------------------------------------------
(* multipathd: the result of one check.                                    *)

fail_path(m, p, del_active, ok) ==
    LET failed == IF ok THEN [m EXCEPT !.dm[p] = "FAILED"] ELSE m IN
    IF del_active THEN update_queue_mode_del_path(failed) ELSE failed

\* Reinstating the path is a message of its own.
reinstate_path(m, p, ok, okq) ==
    IF ok THEN update_queue_mode_add_path([m EXCEPT !.dm[p] = "ACTIVE"], okq) ELSE m

\* A stand-by path of an implicit target is not reinstated as the only one.
DisableReinstate(m, newstate) == newstate = "GHOST" /\ ~Active(m) /\ ImplicitTpgs

(* Mutant: a path that stays up is never reinstated. *)
ReinstateOnChange(m, p, newstate, ok, okq) ==
    LET old == m.state[p]
        new == [m EXCEPT !.state[p] = newstate]
    IN IF old = newstate /\ newstate \in ActiveStates THEN new
       ELSE IF newstate = "DOWN"
       THEN IF old # newstate \/ m.dmstate[p] # "FAILED"
            THEN fail_path(new, p, old \in ActiveStates, ok) ELSE new
       ELSE IF DisableReinstate(m, newstate) THEN new ELSE reinstate_path(new, p, ok, okq)

\* update_path_state() for a check that found "newstate".
update_path_state(m, p, newstate, ok, okq) ==
    LET old == m.state[p]
        new == [m EXCEPT !.state[p] = newstate]
    IN IF newstate = "DOWN"
       THEN IF old # newstate \/ m.dmstate[p] # "FAILED"
            THEN fail_path(new, p, old \in ActiveStates, ok) ELSE new
       ELSE IF old # newstate \/ m.dmstate[p] # "ACTIVE"
       THEN IF DisableReinstate(m, newstate) THEN new ELSE reinstate_path(new, p, ok, okq)
       ELSE new

-----------------------------------------------------------------------------
(* The checker loop.                                                       *)

Reads    == IF "read" \in Faults THEN BOOLEAN ELSE {TRUE}
Loads    == IF "load" \in Faults THEN BOOLEAN ELSE {TRUE}
Messages == IF "message" \in Faults THEN BOOLEAN ELSE {TRUE}
Bads     == IF "message" \in Faults THEN SUBSET Paths ELSE {{}}

\* check_paths() starts the checkers of the paths that are due.
check_paths(S) ==
    /\ phase = "idle"
    /\ phase' = "update"
    /\ started' = IF map.alive THEN S ELSE {}
    /\ checked' = (started' # {})
    /\ UNCHANGED <<map, real, conf>>

\* update_path(): the check has completed, or the path is offline in sysfs.
update_path(p) ==
    /\ phase = "update"
    /\ p \in started
    /\ map.alive
    /\ map.enabled[p] \/ real[p] = "DOWN"
    /\ started' = started \ {p}
    /\ \E ok, okq \in Messages : map' = update_path_state(map, p, real[p], ok, okq)
    /\ UNCHANGED <<real, conf, phase, checked>>

\* It has not, the checker is disabled, or the path lost its map: the state
\* of the path is kept.
SkipPath(p) ==
    /\ phase = "update"
    /\ p \in started
    /\ started' = started \ {p}
    /\ UNCHANGED <<map, real, conf, phase, checked>>

do_sync_mpp(m, read, ok) ==
    LET synced == update_multipath_strings(m, read) IN
    IF read THEN set_no_path_retry(synced, ok)
    ELSE [synced EXCEPT !.dmstate = [p \in Paths |-> "UNDEF"]]

\* sync_mpp(): the map is read if a path was checked or sync_tick is up.
sync_mpp(m) ==
    {do_sync_mpp(m, read, ok) : read \in Reads, ok \in Messages}
        \cup (IF checked THEN {} ELSE {m})

Reloads(m) ==
    {reload_and_sync_map(m, loaded, read, ok, bad) :
        loaded \in Loads, read \in Reads, ok \in Messages, bad \in Bads}

(* Mutant: ticks are taken when none is left. *)
TickUnguarded(m, ok) ==
    LET ticked == [m EXCEPT !.retry_tick = @ - 1] IN
    IF ticked.retry_tick = 0 THEN dm_queue_if_no_path(ticked, FALSE, ok) ELSE ticked

retry_count_tick(m, ok) ==
    IF m.retry_tick = 0 THEN m
    ELSE LET ticked == [m EXCEPT !.retry_tick = @ - 1] IN
         IF ticked.retry_tick = 0 THEN dm_queue_if_no_path(ticked, FALSE, ok) ELSE ticked

\* The map is read, reloaded if its groups or priorities call for it, and
\* its recovery ticks.
checker_finished ==
    /\ phase = "update"
    /\ started = {}
    /\ phase' = "idle"
    /\ \/ /\ map.alive
          /\ \E synced \in sync_mpp(map) :
                \E m \in {synced} \cup Reloads(synced), ok \in Messages :
                   map' = IF m.alive THEN retry_count_tick(m, ok) ELSE m
       \/ ~map.alive /\ UNCHANGED map
    /\ UNCHANGED <<real, conf, started, checked>>

-----------------------------------------------------------------------------
(* Events and commands.                                                    *)

\* update_multipath() for a dm event: paths the kernel failed are down.
DmFailed(m) == {p \in Paths : m.dmstate[p] = "FAILED" /\ m.state[p] # "DOWN"}

MarkFailed(m) ==
    LET S    == DmFailed(m)
        down == [m EXCEPT !.state = [p \in Paths |-> IF p \in S THEN "DOWN" ELSE @[p]]]
    IN IF \E p \in S : m.state[p] \in ActiveStates
       THEN update_queue_mode_del_path(down) ELSE down

update_multipath ==
    /\ map.alive
    /\ \E read \in Reads, ok \in Messages :
          LET setup == setup_multipath(map, read, ok) IN
          map' = IF setup.alive THEN MarkFailed(setup) ELSE setup
    /\ UNCHANGED <<real, conf, loop>>

\* alloc_multipath()
NewMap ==
    [ alive |-> FALSE, state |-> [p \in Paths |-> "UNCHECKED"],
      enabled |-> [p \in Paths |-> TRUE], dmstate |-> [p \in Paths |-> "UNDEF"],
      pg |-> FALSE, features |-> "NULL", no_path_retry |-> NO_PATH_RETRY_UNDEF,
      in_recovery |-> FALSE, retry_tick |-> 0, disable_queueing |-> FALSE,
      queueing |-> FALSE, dm |-> [p \in Paths |-> "ACTIVE"] ]

\* add_map_without_path() and update_map(), configure(): the map is
\* registered (anew) and loaded; the checks of some of its paths are pending.
Registered(S) ==
    [NewMap EXCEPT !.alive = TRUE, !.pg = TRUE,
                   !.state = [p \in Paths |-> IF p \in S THEN "PENDING" ELSE real[p]],
                   !.queueing = map.queueing, !.dm = map.dm]

update_map ==
    /\ ~map.alive
    /\ \E S \in SUBSET Paths : map' \in Reloads(Registered(S))
    /\ checked' = FALSE
    /\ UNCHANGED <<real, conf, phase, started>>

\* "disablequeueing map"
cli_disable_queueing ==
    /\ Operator
    /\ map.alive
    /\ \E ok \in Messages :
          map' = set_no_path_retry(
                    [map EXCEPT !.retry_tick = 0, !.no_path_retry = NO_PATH_RETRY_FAIL,
                                !.disable_queueing = TRUE], ok)
    /\ UNCHANGED <<real, conf, loop>>

\* "restorequeueing map"
cli_restore_queueing ==
    /\ Operator
    /\ map.alive
    /\ map.disable_queueing
    /\ \E ok \in Messages :
          map' = set_no_path_retry(
                    [map EXCEPT !.disable_queueing = FALSE, !.no_path_retry = conf], ok)
    /\ UNCHANGED <<real, conf, loop>>

\* "fail path", which stops the checks of the path
cli_fail(p) ==
    /\ Operator
    /\ map.alive
    /\ map' = [map EXCEPT !.dm[p] = "FAILED", !.enabled[p] = FALSE]
    /\ UNCHANGED <<real, conf, loop>>

\* "reinstate path"
cli_reinstate(p) ==
    /\ Operator
    /\ map.alive
    /\ \E ok \in Messages :
          map' = [map EXCEPT !.enabled[p] = TRUE, !.state[p] = "UNCHECKED",
                             !.dm[p] = IF ok THEN "ACTIVE" ELSE @]
    /\ UNCHANGED <<real, conf, loop>>

\* The kernel fails a path on an I/O error.
KernelFails(p) ==
    /\ map.dm[p] = "ACTIVE"
    /\ map' = [map EXCEPT !.dm[p] = "FAILED"]
    /\ UNCHANGED <<real, conf, loop>>

\* A path breaks, or comes back.
RealChanges(p, s) ==
    /\ s # real[p]
    /\ real' = [real EXCEPT ![p] = s]
    /\ UNCHANGED <<map, conf, loop>>

-----------------------------------------------------------------------------
Init ==
    /\ \E q \in BOOLEAN, d \in [Paths -> DmStates] :
          map = [NewMap EXCEPT !.queueing = q, !.dm = d]
    /\ real \in [Paths -> Results]
    /\ conf \in ConfRetry
    /\ phase = "idle"
    /\ started = {}
    /\ checked = FALSE

Checker ==
    \/ \E S \in SUBSET Paths : check_paths(S)
    \/ \E p \in Paths : update_path(p) \/ SkipPath(p)
    \/ checker_finished

Next ==
    \/ Checker
    \/ update_multipath
    \/ update_map
    \/ cli_disable_queueing
    \/ cli_restore_queueing
    \/ \E p \in Paths :
          \/ cli_fail(p) \/ cli_reinstate(p) \/ KernelFails(p)
          \/ \E s \in Results : RealChanges(p, s)

Spec == Init /\ [][Next]_vars

\* update_path(p) has something to do.
CanUpdate(p) ==
    phase = "update" /\ p \in started /\ map.alive /\ (map.enabled[p] \/ real[p] = "DOWN")

\* The checker loop goes on, every path is due again and again and its check
\* completes in some of these rounds, and maps are registered.  In the order
\* of the conjuncts: weak fairness of Checker (always enabled) and update_map
\* (enabled unless the map is alive), strong fairness of check_paths and
\* update_path.
FairSpec ==
    /\ Spec
    /\ []<><<Checker>>_vars
    /\ []<>map.alive \/ []<><<update_map>>_vars
    /\ \A p \in Paths :
          /\ SF_vars(\E S \in SUBSET Paths : p \in S /\ check_paths(S))
          /\ []<>CanUpdate(p) => []<><<update_path(p)>>_vars

-----------------------------------------------------------------------------
(* Properties.                                                             *)

\* snprint_queueing(): what "show maps" prints for the map.
snprint_queueing(m) ==
    IF m.no_path_retry = NO_PATH_RETRY_FAIL THEN "off"
    ELSE IF m.no_path_retry = NO_PATH_RETRY_QUEUE THEN "on"
    ELSE IF m.no_path_retry = NO_PATH_RETRY_UNDEF THEN "-"
    ELSE IF m.retry_tick > 0 THEN "sec"
    ELSE IF Active(m) THEN "chk" ELSE "off"

\* The features multipathd knows say what the kernel does, so that a message
\* is sent whenever, and only when, the mode has to change; after a failed
\* read they are unknown.
FeaturesTrackKernel ==
    map.alive /\ map.features # "NULL" => (map.features = "queue") = map.queueing

\* While a map counts down in recovery mode the kernel queues its I/O: the
\* time "show maps" prints is the time until queueing is disabled.
RecoveryQueues == map.alive /\ snprint_queueing(map) = "sec" => map.queueing

\* A map that has timed out does not queue again before a path of it works,
\* whatever reloads, dm events and rounds of the checker come first.
TimedOut(m) == m.alive /\ m.in_recovery /\ m.retry_tick = 0 /\ m.no_path_retry > 0

StaysTimedOut ==
    [][TimedOut(map) /\ ~map.queueing /\ map'.queueing /\ map'.alive
          => UpPath(map) \/ UpPath(map')]_vars

\* Without a working path, nothing prolongs the recovery mode of a map: the
\* ticks that are left only become fewer.
CountdownOnlyFalls ==
    [][map.alive /\ map.in_recovery /\ ~UpPath(map) /\ map'.alive /\ map'.in_recovery
          => map'.retry_tick <= map.retry_tick]_vars

\* When all paths stay down, a limited number of retries ends: the kernel
\* stops queueing for good.
QueueingStops ==
    <>[](\A p \in Paths : real[p] = "DOWN") /\ conf > 0 => <>[]~map.queueing

\* A path that stays up is used by the kernel again and again, however often
\* it was failed, and the map queues again.
PathComesBack ==
    \A p \in Paths :
       <>[](real[p] = "UP") => []<>(map.dm[p] = "ACTIVE" /\ (conf > 0 => map.queueing))
=============================================================================
