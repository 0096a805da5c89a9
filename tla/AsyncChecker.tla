---------------------------- MODULE AsyncChecker ----------------------------
(***************************************************************************)
(* The path checker of one path (checkers.c, async_checker.c), run in a    *)
(* runner thread.  The checker loop starts a check and polls it; a check   *)
(* that times out is abandoned the first time (its thread may live on as a *)
(* zombie beside the next check), and waited for the second time.          *)
(*                                                                         *)
(* The module composes the checker with Runner: it drives the API calls of *)
(* that module, and the runner threads run beside it.                      *)
(***************************************************************************)
EXTENDS Runner

CONSTANTS
    MAX_NR_TIMEOUTS,    \* timed-out runners to abandon in a row
    SysfsUp,            \* may a device be found to be up, or not to be?
    NULL

ASSUME MaxTimeoutsAssumption == MAX_NR_TIMEOUTS \in Nat
ASSUME NullAssumption == NULL \notin Ctx
ASSUME SysfsAssumption == SysfsUp \subseteq BOOLEAN

VARIABLES
    rtx,            \* acc->rtx
    nr_timeouts,    \* acc->nr_timeouts
    rstate,         \* acc->rdata.state
    path_state,     \* c->path_state
    disable,        \* c->disable
    sysfs_up,       \* pp->sysfs_state == PATH_UP
    apc,            \* where the checker loop is in the checker code
    reported        \* history: path_state is what the checker function returned

accVars   == <<rtx, nr_timeouts, rstate, path_state, disable, sysfs_up, apc, reported>>
asyncVars == <<vars, accVars>>

(***************************************************************************)
(* "RESULT" stands for the states a checker function finds, other than     *)
(* PENDING, which it may return, too: tur does so for a target port group  *)
(* in transition.                                                          *)
(***************************************************************************)
PathState == {"UNCHECKED", "PENDING", "TIMEOUT", "RESULT"}
Found     == {"RESULT", "PENDING"}

AsyncTypeOK ==
    /\ rtx \in Ctx \cup {NULL}
    /\ nr_timeouts \in 0..(MAX_NR_TIMEOUTS + 1)
    /\ rstate \in PathState
    /\ path_state \in PathState
    /\ disable \in BOOLEAN
    /\ sysfs_up \in BOOLEAN
    /\ reported \in BOOLEAN
    /\ apc \in {"out", "poll", "drop", "free"}

AsyncInit ==
    /\ Init
    /\ rtx = NULL
    /\ nr_timeouts = 0
    /\ rstate = "UNCHECKED"
    /\ path_state = "UNCHECKED"
    /\ disable = FALSE
    /\ sysfs_up = FALSE
    /\ reported = FALSE
    /\ apc = "out"

-----------------------------------------------------------------------------
(***************************************************************************)
(* path_sysfs_state().  The checker is neither started nor polled while    *)
(* the device is blocked, offline or gone (start_path_check(),             *)
(* get_new_state(), pathinfo()).                                           *)
(***************************************************************************)
PathSysfsState ==
    /\ apc = "out"
    /\ sysfs_up' \in SysfsUp
    /\ UNCHANGED <<vars, rtx, nr_timeouts, rstate, path_state, disable, apc, reported>>

(* checker_check() with no runner at work: a new one is started. *)
CheckStarts(r) ==
    /\ apc = "out"
    /\ sysfs_up /\ ~disable
    /\ rtx = NULL
    /\ GetRunner(r)
    /\ rtx' = r
    /\ rstate' = "PENDING"
    /\ path_state' = "PENDING"
    /\ reported' = FALSE
    /\ UNCHANGED <<nr_timeouts, disable, sysfs_up, apc>>

(***************************************************************************)
(* checker_check() in synchronous mode, or after get_runner() failed for   *)
(* lack of memory or of a thread: the function is called directly, and     *)
(* acc->rdata.state keeps the PENDING set before the call.                 *)
(***************************************************************************)
CheckRunsSync ==
    /\ apc = "out"
    /\ sysfs_up /\ ~disable
    /\ rtx = NULL
    /\ UNCHANGED vars \/ \E r \in Ctx : GetRunnerFails(r)
    /\ rstate' = "PENDING"
    /\ path_state' \in Found
    /\ reported' = TRUE
    /\ UNCHANGED <<rtx, nr_timeouts, disable, sysfs_up, apc>>

(***************************************************************************)
(* The runner is polled, by checker_check() whenever there is one and by   *)
(* checker_get_state() while the path is PENDING.                          *)
(***************************************************************************)
CheckPolls ==
    /\ apc = "out"
    /\ sysfs_up
    /\ ~disable \/ path_state = "PENDING"
    /\ rtx # NULL
    /\ CheckRunner(rtx)
    /\ apc' = "poll"
    /\ UNCHANGED <<rtx, nr_timeouts, rstate, path_state, disable, sysfs_up, reported>>

(* checker_check() of a disabled checker: a runner is left alone. *)
CheckDisabled ==
    /\ apc = "out"
    /\ sysfs_up /\ disable
    /\ path_state' = "UNCHECKED"
    /\ reported' = FALSE
    /\ UNCHANGED <<vars, rtx, nr_timeouts, rstate, disable, sysfs_up, apc>>

(* cli_fail() and cli_reinstate(). *)
CheckerDisable ==
    /\ apc = "out"
    /\ disable' = TRUE
    /\ path_state' = "UNCHECKED"
    /\ reported' = FALSE
    /\ UNCHANGED <<vars, rtx, nr_timeouts, rstate, sysfs_up, apc>>

CheckerEnable ==
    /\ apc = "out"
    /\ disable' = FALSE
    /\ UNCHANGED <<vars, rtx, nr_timeouts, rstate, path_state, sysfs_up, apc, reported>>

PollDone(st) ==
    /\ apc = "poll"
    /\ call[rtx] = "held"
    /\ ret[rtx] = st

(* check_runner_state(): still running. *)
PollRunning ==
    /\ PollDone(RUNNING)
    /\ path_state' = rstate
    /\ apc' = "out"
    /\ UNCHANGED <<vars, rtx, nr_timeouts, rstate, disable, sysfs_up, reported>>

(* Mutant: a dead runner is waited for, like a cancelled one. *)
PollFinishedKeepsDead ==
    /\ PollDone(DONE)
    /\ rstate' \in IF taken[rtx] = "out" THEN Found ELSE {"PENDING"}
    /\ nr_timeouts' = 0
    /\ ReleaseRunner(rtx)
    /\ apc' = "drop"
    /\ reported' = TRUE
    /\ UNCHANGED <<rtx, path_state, disable, sysfs_up>>

(* check_runner_state(): a result or a dead thread; the runner is released. *)
PollFinished ==
    /\ PollDone(DONE) \/ PollDone(DEAD)
    /\ rstate' \in IF ret[rtx] = DEAD THEN {"TIMEOUT"}
                   ELSE IF taken[rtx] = "out" THEN Found ELSE {"PENDING"}
    /\ nr_timeouts' = 0
    /\ ReleaseRunner(rtx)
    /\ apc' = "drop"
    /\ reported' = (ret[rtx] = DONE)
    /\ UNCHANGED <<rtx, path_state, disable, sysfs_up>>

(* Mutant: the pointer is dropped, but not the reference. *)
PollAbandonsLeaks ==
    /\ PollDone(CANCELLED)
    /\ nr_timeouts < MAX_NR_TIMEOUTS
    /\ nr_timeouts' = nr_timeouts + 1
    /\ rstate' = "TIMEOUT"
    /\ path_state' = "TIMEOUT"
    /\ rtx' = NULL
    /\ apc' = "out"
    /\ UNCHANGED <<vars, disable, sysfs_up, reported>>

(* Mutant: the state of the abandoned check is left as it was. *)
PollAbandonsPending ==
    /\ PollDone(CANCELLED)
    /\ nr_timeouts < MAX_NR_TIMEOUTS
    /\ nr_timeouts' = nr_timeouts + 1
    /\ ReleaseRunner(rtx)
    /\ apc' = "drop"
    /\ UNCHANGED <<rtx, rstate, path_state, disable, sysfs_up, reported>>

(* check_runner_state(): timed out; abandon the runner. *)
PollAbandons ==
    /\ PollDone(CANCELLED)
    /\ nr_timeouts < MAX_NR_TIMEOUTS
    /\ nr_timeouts' = nr_timeouts + 1
    /\ rstate' = "TIMEOUT"
    /\ ReleaseRunner(rtx)
    /\ apc' = "drop"
    /\ UNCHANGED <<rtx, path_state, disable, sysfs_up, reported>>

(* Mutant: every poll of a cancelled runner counts as a timeout. *)
PollWaitsCounts ==
    /\ PollDone(CANCELLED)
    /\ nr_timeouts >= MAX_NR_TIMEOUTS
    /\ nr_timeouts' = nr_timeouts + 1
    /\ rstate' = "TIMEOUT"
    /\ path_state' = "TIMEOUT"
    /\ apc' = "out"
    /\ UNCHANGED <<vars, rtx, disable, sysfs_up, reported>>

(* check_runner_state(): timed out; wait for the runner. *)
PollWaits ==
    /\ PollDone(CANCELLED)
    /\ nr_timeouts >= MAX_NR_TIMEOUTS
    /\ nr_timeouts' = MAX_NR_TIMEOUTS + 1
    /\ rstate' = "TIMEOUT"
    /\ path_state' = "TIMEOUT"
    /\ apc' = "out"
    /\ UNCHANGED <<vars, rtx, disable, sysfs_up, reported>>

(* release_runner() has returned. *)
DropReturns ==
    /\ apc = "drop"
    /\ call[rtx] = "null"
    /\ rtx' = NULL
    /\ path_state' = rstate
    /\ apc' = "out"
    /\ UNCHANGED <<vars, nr_timeouts, rstate, disable, sysfs_up, reported>>

(* Mutant: the runner's reference is dropped without cancelling it. *)
CheckerPutNoCancel ==
    /\ apc = "out"
    /\ rtx # NULL
    /\ call' = [call EXCEPT ![rtx] = "put"]
    /\ apc' = "free"
    /\ UNCHANGED <<ctxVars, thrVars, op, retry, ret, taken, rtx, nr_timeouts,
                   rstate, path_state, disable, sysfs_up, reported>>

(***************************************************************************)
(* checker_put(), when the path is freed or its checker is replaced; the   *)
(* next start_checker() makes a new context.                               *)
(***************************************************************************)
CheckerPut ==
    /\ apc = "out"
    /\ IF rtx = NULL
       THEN /\ UNCHANGED <<vars, apc>>
            /\ nr_timeouts' = 0
            /\ rstate' = "UNCHECKED"
            /\ path_state' = "UNCHECKED"
            /\ disable' = FALSE
            /\ reported' = FALSE
       ELSE /\ ReleaseRunner(rtx)
            /\ apc' = "free"
            /\ UNCHANGED <<nr_timeouts, rstate, path_state, disable, reported>>
    /\ UNCHANGED <<rtx, sysfs_up>>

PutReturns ==
    /\ apc = "free"
    /\ call[rtx] = "null"
    /\ rtx' = NULL
    /\ nr_timeouts' = 0
    /\ rstate' = "UNCHECKED"
    /\ path_state' = "UNCHECKED"
    /\ disable' = FALSE
    /\ apc' = "out"
    /\ reported' = FALSE
    /\ UNCHANGED <<vars, sysfs_up>>

-----------------------------------------------------------------------------
(* The steps of the runners themselves, and of the API call in progress. *)
RunnerStep ==
    /\ \E r \in Ctx : Expire(r) \/ ThreadStep(r) \/ FuncStep(r) \/ CallStep(r)
    /\ UNCHANGED accVars

PollReturns == PollRunning \/ PollFinished \/ PollAbandons \/ PollWaits

AsyncNext ==
    \/ PathSysfsState
    \/ \E r \in Ctx : CheckStarts(r)
    \/ CheckRunsSync
    \/ CheckPolls
    \/ CheckDisabled
    \/ CheckerDisable
    \/ CheckerEnable
    \/ PollReturns
    \/ DropReturns
    \/ CheckerPut
    \/ PutReturns
    \/ RunnerStep

AsyncSpec == AsyncInit /\ [][AsyncNext]_asyncVars

(***************************************************************************)
(* Runner threads are scheduled, calls return, the checker loop comes back *)
(* to a path that is up in sysfs again and again, and checker timeouts are *)
(* never zero (select_checker_timeout()).  The checker function itself may *)
(* hang, and the device may be blocked or offline for ever.                *)
(***************************************************************************)
AsyncFairSpec ==
    /\ AsyncSpec
    /\ \A r \in Ctx :
         /\ WF_asyncVars(ThreadStep(r) /\ UNCHANGED accVars)
         /\ WF_asyncVars(CallStep(r) /\ UNCHANGED accVars)
         /\ WF_asyncVars(Expire(r) /\ UNCHANGED accVars)
    /\ WF_asyncVars(CheckPolls)
    /\ WF_asyncVars(PollReturns \/ DropReturns \/ PutReturns)

-----------------------------------------------------------------------------
(***************************************************************************)
(* The checker never loses a runner: a context it still has a reference to *)
(* is the one in acc->rtx.                                                 *)
(***************************************************************************)
OwnsOnlyRtx == \A r \in Ctx : CallerHolds(r) => r = rtx

(***************************************************************************)
(* A path is PENDING only while a runner is at work on it, unless the      *)
(* checker function itself has said so, and between two calls acc->rtx is  *)
(* never left pointing to a released runner: not after timeouts, dead      *)
(* threads, abandoned runners or a fallback to synchronous mode.           *)
(* Otherwise the checker loop would wait for a result that nobody          *)
(* produces.                                                               *)
(***************************************************************************)
PendingHasRunner ==
    apc = "out" =>
        /\ path_state = "PENDING" /\ ~reported => rtx # NULL
        /\ rtx # NULL => CallerHolds(rtx)

(* The runner's status changed to CANCELLED before its thread had started. *)
CancelledEarly(r) == status[r] = CANCELLED /\ ~cancelReq[r]

(***************************************************************************)
(* A check does not occupy the checker for ever, even if the checker       *)
(* function hangs: a result, the timeout or the forced release of the      *)
(* runner clears acc->rtx.  The exceptions are a checker that the user has *)
(* disabled, a device that is not up in sysfs, for which nobody polls the  *)
(* checker, and a runner that was cancelled before its thread had started  *)
(* (EarlyCancelReleased in Runner).  Once the checker is enabled again or  *)
(* the device is back, the check must settle.                              *)
(***************************************************************************)
CheckSettles ==
    \A r \in Ctx : rtx = r ~> (rtx # r \/ disable \/ ~sysfs_up \/ CancelledEarly(r))
=============================================================================
