------------------------------- MODULE Runner -------------------------------
(***************************************************************************)
(* Runner threads of libmpathutil/runner.c.                                *)
(*                                                                         *)
(* A caller starts a detached thread for a function that may hang, polls   *)
(* it with check_runner(), and drops it with release_runner().  The two    *)
(* sides share one reference-counted context and coordinate by compare-    *)
(* and-exchange on its status alone; every such atomic access is a step of *)
(* its own here.  Ctx is the set of memory blocks a context can occupy; a  *)
(* block can be allocated again once it has been freed.                    *)
(*                                                                         *)
(* The caller is the most general one: it may poll or release any context  *)
(* it holds at any time.  Calls on one context are made by one thread at a *)
(* time (the checkers run under the vecs lock).                            *)
(***************************************************************************)
EXTENDS Naturals

CONSTANT Ctx            \* memory blocks for struct runner_context

VARIABLES
    status,     \* rctx->status
    refcnt,     \* reference count of the shared pointer that holds rctx
    expired,    \* the deadline of rctx has passed
    thr,        \* program counter of the runner thread
    thrSt,      \* local variable st of cleanup_context()
    output,     \* what runner_func has left in rctx->data
    cancelReq,  \* pthread_cancel() has been called on the thread
    call,       \* program counter of the caller, per context
    op,         \* which API call the caller is executing
    retry,      \* local variable retry of cancel_runner()
    ret,        \* value returned by the last check_runner()
    taken       \* the data that check_runner() copied to its caller

ctxVars  == <<status, refcnt, expired>>
thrVars  == <<thr, thrSt, output, cancelReq>>
callVars == <<call, op, retry, ret, taken>>
vars     == <<ctxVars, thrVars, callVars>>

-----------------------------------------------------------------------------
IDLE      == "IDLE"
RUNNING   == "RUNNING"
DONE      == "DONE"
CANCELLED == "CANCELLED"
DEAD      == "DEAD"
Status == {IDLE, RUNNING, DONE, CANCELLED, DEAD}

(***************************************************************************)
(* "none": no thread; "start": created, before the cmpxchg of              *)
(* runner_thread(); "func": in runner_func; then the steps of              *)
(* cleanup_context(); "gone": the pthread_t is no longer valid.            *)
(***************************************************************************)
ThrPC == {"none", "start", "func", "cleanup", "spin", "finish", "put", "gone"}

(***************************************************************************)
(* "null": the caller holds no pointer; "held": it does, and is outside    *)
(* the API; the others are points inside check_runner(), cancel_runner()   *)
(* and release_runner().                                                   *)
(***************************************************************************)
CallPC == {"null", "held", "deadline", "cancel", "cancelIdle", "kill",
           "markDead", "put"}

Output == {"in", "part", "out"}     \* input only, being written, complete
NoData == "nothing"                 \* the caller's buffer was not filled

TypeOK ==
    /\ status \in [Ctx -> Status]
    /\ refcnt \in [Ctx -> 0..2]
    /\ expired \in [Ctx -> BOOLEAN]
    /\ thr \in [Ctx -> ThrPC]
    /\ thrSt \in [Ctx -> Status]
    /\ output \in [Ctx -> Output]
    /\ cancelReq \in [Ctx -> BOOLEAN]
    /\ call \in [Ctx -> CallPC]
    /\ op \in [Ctx -> {"check", "release"}]
    /\ retry \in [Ctx -> {0, 1}]
    /\ ret \in [Ctx -> Status]
    /\ taken \in [Ctx -> Output \cup {NoData}]

Init ==
    /\ status = [r \in Ctx |-> IDLE]
    /\ refcnt = [r \in Ctx |-> 0]
    /\ expired = [r \in Ctx |-> FALSE]
    /\ thr = [r \in Ctx |-> "none"]
    /\ thrSt = [r \in Ctx |-> IDLE]
    /\ output = [r \in Ctx |-> "in"]
    /\ cancelReq = [r \in Ctx |-> FALSE]
    /\ call = [r \in Ctx |-> "null"]
    /\ op = [r \in Ctx |-> "check"]
    /\ retry = [r \in Ctx |-> 1]
    /\ ret = [r \in Ctx |-> RUNNING]
    /\ taken = [r \in Ctx |-> NoData]

-----------------------------------------------------------------------------
(***************************************************************************)
(* The caller starts a runner.  The second reference, taken before the     *)
(* thread exists, is the thread's own.                                     *)
(***************************************************************************)
GetRunner(r) ==
    /\ call[r] = "null"
    /\ refcnt[r] = 0
    /\ refcnt' = [refcnt EXCEPT ![r] = 2]
    /\ status' = [status EXCEPT ![r] = IDLE]
    /\ expired' = [expired EXCEPT ![r] = FALSE]
    /\ thr' = [thr EXCEPT ![r] = "start"]
    /\ thrSt' = [thrSt EXCEPT ![r] = IDLE]
    /\ output' = [output EXCEPT ![r] = "in"]
    /\ cancelReq' = [cancelReq EXCEPT ![r] = FALSE]
    /\ call' = [call EXCEPT ![r] = "held"]
    /\ op' = [op EXCEPT ![r] = "check"]
    /\ ret' = [ret EXCEPT ![r] = RUNNING]
    /\ taken' = [taken EXCEPT ![r] = NoData]
    /\ UNCHANGED retry

(* pthread_create() fails: both references are dropped again. *)
GetRunnerFails(r) ==
    /\ call[r] = "null"
    /\ refcnt[r] = 0
    /\ status' = [status EXCEPT ![r] = IDLE]
    /\ output' = [output EXCEPT ![r] = "in"]
    /\ expired' = [expired EXCEPT ![r] = FALSE]
    /\ UNCHANGED <<refcnt, thr, thrSt, cancelReq, callVars>>

(* Time passes beyond rctx->deadline.  Runners without a timeout never expire. *)
Expire(r) ==
    /\ refcnt[r] > 0
    /\ ~expired[r]
    /\ expired' = [expired EXCEPT ![r] = TRUE]
    /\ UNCHANGED <<status, refcnt, thrVars, callVars>>

-----------------------------------------------------------------------------
(* The runner thread.  runner_func only runs if the runner is still IDLE. *)
ThreadStart(r) ==
    /\ thr[r] = "start"
    /\ IF status[r] = IDLE
       THEN /\ status' = [status EXCEPT ![r] = RUNNING]
            /\ thr' = [thr EXCEPT ![r] = "func"]
       ELSE /\ thr' = [thr EXCEPT ![r] = "cleanup"]
            /\ UNCHANGED status
    /\ UNCHANGED <<refcnt, expired, thrSt, output, cancelReq, callVars>>

(* runner_func writes some of its results. *)
FuncWrites(r) ==
    /\ thr[r] = "func"
    /\ output[r] = "in"
    /\ output' = [output EXCEPT ![r] = "part"]
    /\ UNCHANGED <<ctxVars, thr, thrSt, cancelReq, callVars>>

FuncReturns(r) ==
    /\ thr[r] = "func"
    /\ output' = [output EXCEPT ![r] = "out"]
    /\ thr' = [thr EXCEPT ![r] = "cleanup"]
    /\ UNCHANGED <<ctxVars, thrSt, cancelReq, callVars>>

(* runner_func reaches a cancellation point with a cancellation pending. *)
FuncCancelled(r) ==
    /\ thr[r] = "func"
    /\ cancelReq[r]
    /\ thr' = [thr EXCEPT ![r] = "cleanup"]
    /\ UNCHANGED <<ctxVars, thrSt, output, cancelReq, callVars>>

(* Mutant: the status is set to DONE whatever it was. *)
CleanupSetsDone(r) ==
    /\ thr[r] = "cleanup"
    /\ thrSt' = [thrSt EXCEPT ![r] = RUNNING]
    /\ status' = [status EXCEPT ![r] = DONE]
    /\ thr' = [thr EXCEPT ![r] = "put"]
    /\ UNCHANGED <<refcnt, expired, output, cancelReq, callVars>>

(* cleanup_context(), first cmpxchg. *)
CleanupExchange(r) ==
    /\ thr[r] = "cleanup"
    /\ thrSt' = [thrSt EXCEPT ![r] = status[r]]
    /\ status' = [status EXCEPT ![r] = IF @ = RUNNING THEN DONE ELSE @]
    /\ thr' = [thr EXCEPT ![r] = IF status[r] = RUNNING THEN "put"
                                 ELSE IF status[r] = CANCELLED THEN "spin"
                                 ELSE "finish"]
    /\ UNCHANGED <<refcnt, expired, output, cancelReq, callVars>>

(* The sched_yield() loop goes round as long as the status is CANCELLED. *)
SpinTurns(r) ==
    /\ thr[r] = "spin"
    /\ status[r] = CANCELLED
    /\ UNCHANGED vars

(* Mutant: cleanup_context() does not wait for cancel_runner(). *)
SpinSkipped(r) ==
    /\ thr[r] = "spin"
    /\ thr' = [thr EXCEPT ![r] = "finish"]
    /\ UNCHANGED <<ctxVars, thrSt, output, cancelReq, callVars>>

SpinEnds(r) ==
    /\ thr[r] = "spin"
    /\ status[r] # CANCELLED
    /\ thr' = [thr EXCEPT ![r] = "finish"]
    /\ UNCHANGED <<ctxVars, thrSt, output, cancelReq, callVars>>

(* cleanup_context(), second cmpxchg. *)
CleanupFinish(r) ==
    /\ thr[r] = "finish"
    /\ status' = [status EXCEPT ![r] = IF @ = thrSt[r] THEN DEAD ELSE @]
    /\ thr' = [thr EXCEPT ![r] = "put"]
    /\ UNCHANGED <<refcnt, expired, thrSt, output, cancelReq, callVars>>

(* Mutant: the thread also drops the reference of its creator. *)
ThreadPutsTwice(r) ==
    /\ thr[r] = "put"
    /\ refcnt' = [refcnt EXCEPT ![r] = @ - 2]
    /\ thr' = [thr EXCEPT ![r] = "gone"]
    /\ UNCHANGED <<status, expired, thrSt, output, cancelReq, callVars>>

ThreadPut(r) ==
    /\ thr[r] = "put"
    /\ refcnt' = [refcnt EXCEPT ![r] = @ - 1]
    /\ thr' = [thr EXCEPT ![r] = "gone"]
    /\ UNCHANGED <<status, expired, thrSt, output, cancelReq, callVars>>

-----------------------------------------------------------------------------
(* check_runner() up to the point where it looks at the deadline. *)
CheckRunner(r) ==
    /\ call[r] = "held"
    /\ op' = [op EXCEPT ![r] = "check"]
    /\ IF status[r] \in {IDLE, RUNNING}
       THEN /\ call' = [call EXCEPT ![r] = "deadline"]
            /\ UNCHANGED <<ret, taken>>
       ELSE /\ ret' = [ret EXCEPT ![r] = status[r]]
            /\ taken' = [taken EXCEPT ![r] =
                            IF status[r] = DONE THEN output[r] ELSE NoData]
            /\ UNCHANGED call
    /\ UNCHANGED <<ctxVars, thrVars, retry>>

(* check_runner() compares the deadline with the clock. *)
CheckDeadline(r) ==
    /\ call[r] = "deadline"
    /\ IF expired[r]
       THEN /\ call' = [call EXCEPT ![r] = "cancel"]
            /\ retry' = [retry EXCEPT ![r] = 1]
            /\ UNCHANGED <<ret, taken>>
       ELSE /\ call' = [call EXCEPT ![r] = "held"]
            /\ ret' = [ret EXCEPT ![r] = RUNNING]
            /\ taken' = [taken EXCEPT ![r] = NoData]
            /\ UNCHANGED retry
    /\ UNCHANGED <<ctxVars, thrVars, op>>

ReleaseRunner(r) ==
    /\ call[r] = "held"
    /\ op' = [op EXCEPT ![r] = "release"]
    /\ call' = [call EXCEPT ![r] = "cancel"]
    /\ retry' = [retry EXCEPT ![r] = 1]
    /\ UNCHANGED <<ctxVars, thrVars, ret, taken>>

(***************************************************************************)
(* cancel_runner() returns v to check_runner(), which returns it to its    *)
(* caller without data, or to release_runner(), which drops the reference. *)
(***************************************************************************)
CancelReturns(r, v) ==
    IF op[r] = "check"
    THEN /\ call' = [call EXCEPT ![r] = "held"]
         /\ ret' = [ret EXCEPT ![r] = v]
         /\ taken' = [taken EXCEPT ![r] = NoData]
    ELSE /\ call' = [call EXCEPT ![r] = "put"]
         /\ UNCHANGED <<ret, taken>>

(* cancel_runner(), first cmpxchg and the switch on its result. *)
CancelExchange(r) ==
    /\ call[r] = "cancel"
    /\ \/ /\ status[r] = RUNNING
          /\ status' = [status EXCEPT ![r] = CANCELLED]
          /\ call' = [call EXCEPT ![r] = "kill"]
          /\ UNCHANGED <<retry, ret, taken>>
       \/ /\ status[r] = IDLE
          /\ retry[r] = 1
          /\ retry' = [retry EXCEPT ![r] = 0]
          /\ call' = [call EXCEPT ![r] = "cancelIdle"]
          /\ UNCHANGED <<status, ret, taken>>
       \/ /\ status[r] = IDLE => retry[r] = 0
          /\ status[r] # RUNNING
          /\ CancelReturns(r, IF status[r] = DONE THEN DEAD ELSE status[r])
          /\ UNCHANGED <<status, retry>>
    /\ UNCHANGED <<refcnt, expired, thrVars, op>>

(* Mutant: a runner found IDLE is left alone. *)
CancelIdleIgnores(r) ==
    /\ call[r] = "cancelIdle"
    /\ CancelReturns(r, CANCELLED)
    /\ UNCHANGED <<ctxVars, thrVars, op, retry>>

(* cancel_runner(), the race with thread startup. *)
CancelIdle(r) ==
    /\ call[r] = "cancelIdle"
    /\ IF status[r] = IDLE
       THEN /\ status' = [status EXCEPT ![r] = CANCELLED]
            /\ CancelReturns(r, CANCELLED)
       ELSE /\ call' = [call EXCEPT ![r] = "cancel"]
            /\ UNCHANGED <<status, ret, taken>>
    /\ UNCHANGED <<refcnt, expired, thrVars, op, retry>>

PthreadCancel(r) ==
    /\ call[r] = "kill"
    /\ cancelReq' = [cancelReq EXCEPT ![r] = TRUE]
    /\ call' = [call EXCEPT ![r] = "markDead"]
    /\ UNCHANGED <<ctxVars, thr, thrSt, output, op, retry, ret, taken>>

(* Mutant: the assertion, and the cmpxchg inside it, are compiled out. *)
MarkDeadDropped(r) ==
    /\ call[r] = "markDead"
    /\ CancelReturns(r, CANCELLED)
    /\ UNCHANGED <<ctxVars, thrVars, op, retry>>

MarkDead(r) ==
    /\ call[r] = "markDead"
    /\ status' = [status EXCEPT ![r] = IF @ = CANCELLED THEN DEAD ELSE @]
    /\ CancelReturns(r, CANCELLED)
    /\ UNCHANGED <<refcnt, expired, thrVars, op, retry>>

ReleasePut(r) ==
    /\ call[r] = "put"
    /\ refcnt' = [refcnt EXCEPT ![r] = @ - 1]
    /\ call' = [call EXCEPT ![r] = "null"]
    /\ UNCHANGED <<status, expired, thrVars, op, retry, ret, taken>>

-----------------------------------------------------------------------------
(* Steps of the thread outside runner_func: nothing in them can block. *)
ThreadStep(r) ==
    \/ ThreadStart(r)
    \/ CleanupExchange(r)
    \/ SpinTurns(r)
    \/ SpinEnds(r)
    \/ CleanupFinish(r)
    \/ ThreadPut(r)

FuncStep(r) == FuncWrites(r) \/ FuncReturns(r) \/ FuncCancelled(r)

(* Steps inside an API call. *)
CallStep(r) ==
    \/ CheckDeadline(r)
    \/ CancelExchange(r)
    \/ CancelIdle(r)
    \/ PthreadCancel(r)
    \/ MarkDead(r)
    \/ ReleasePut(r)

Next ==
    \E r \in Ctx :
        \/ GetRunner(r)
        \/ GetRunnerFails(r)
        \/ Expire(r)
        \/ ThreadStep(r)
        \/ FuncStep(r)
        \/ CheckRunner(r)
        \/ ReleaseRunner(r)
        \/ CallStep(r)

Spec == Init /\ [][Next]_vars

(***************************************************************************)
(* The scheduler runs every runnable thread, and API calls do not block.   *)
(* runner_func may hang for ever, so FuncStep is not fair.                 *)
(***************************************************************************)
FairSpec ==
    /\ Spec
    /\ \A r \in Ctx : WF_vars(ThreadStep(r)) /\ WF_vars(CallStep(r))

-----------------------------------------------------------------------------
ThreadHolds(r) == thr[r] \notin {"none", "gone"}
CallerHolds(r) == call[r] # "null"

(***************************************************************************)
(* The reference count is exactly the number of sides that can still touch *)
(* the context.  So neither release_runner() nor cleanup_context() frees   *)
(* a context the other side uses, none is freed twice, and none that both  *)
(* sides have dropped is kept.                                             *)
(***************************************************************************)
RefsExact ==
    \A r \in Ctx :
        refcnt[r] = (IF CallerHolds(r) THEN 1 ELSE 0) + (IF ThreadHolds(r) THEN 1 ELSE 0)

(***************************************************************************)
(* When cancel_runner() calls pthread_cancel(), the thread has not         *)
(* terminated: the purpose of the wait loop in cleanup_context().          *)
(***************************************************************************)
CancelTargetsLiveThread ==
    \A r \in Ctx : call[r] = "kill" => thr[r] \in {"func", "cleanup", "spin"}

(***************************************************************************)
(* The assertion in cancel_runner() holds: nobody else moves a runner out  *)
(* of CANCELLED between the cmpxchg and the one that marks it DEAD.        *)
(***************************************************************************)
CancelAssertHolds ==
    \A r \in Ctx : call[r] \in {"kill", "markDead"} => status[r] = CANCELLED

(***************************************************************************)
(* Data that check_runner() hands to its caller is the complete result of  *)
(* runner_func, and it is handed over only together with RUNNER_DONE.      *)
(***************************************************************************)
ResultComplete ==
    \A r \in Ctx : taken[r] # NoData => taken[r] = "out" /\ ret[r] = DONE

(***************************************************************************)
(* check_runner() never returns RUNNER_IDLE: one retry is enough to settle *)
(* the race of cancel_runner() with the start of the thread.               *)
(***************************************************************************)
NeverReturnsIdle == \A r \in Ctx : ret[r] # IDLE

(***************************************************************************)
(* After release_runner() has cancelled a runner whose thread has not      *)
(* started, runner_func will not be run any more.                          *)
(***************************************************************************)
ReleasedNeverStarts ==
    \A r \in Ctx :
        call[r] \in {"put", "null"} /\ thr[r] = "start" => status[r] = CANCELLED

(***************************************************************************)
(* DONE and DEAD are final: a caller that has seen one of them will not    *)
(* see a different status of the same runner later.                        *)
(***************************************************************************)
FinalStatusStable ==
    [][\A r \in Ctx :
         status[r] \in {DONE, DEAD} /\ refcnt[r] > 0 => status'[r] = status[r]]_vars

(***************************************************************************)
(* Once both sides are through with a runner whose function was started,   *)
(* its context is freed: cleanup_context() gets out of its loop.           *)
(***************************************************************************)
StartedContextsFreed ==
    \A r \in Ctx :
        (call[r] = "null" /\ thr[r] \in {"cleanup", "spin", "finish", "put"}
            /\ (output[r] = "out" \/ cancelReq[r])) ~> refcnt[r] = 0

-----------------------------------------------------------------------------
(***************************************************************************)
(* The inductive invariant: what the position of the thread and of the     *)
(* caller say about the status.                                            *)
(***************************************************************************)
ThreadPosition ==
    \A r \in Ctx :
        /\ thr[r] = "none" => call[r] = "null"
        /\ thr[r] = "start" => status[r] \in {IDLE, CANCELLED} /\ ~cancelReq[r]
        /\ thr[r] = "func" => status[r] \in {RUNNING, CANCELLED, DEAD}
        /\ thr[r] = "cleanup" => /\ status[r] \in {RUNNING, CANCELLED, DEAD}
                                 /\ status[r] = RUNNING => output[r] = "out"
        /\ thr[r] = "spin" => status[r] \in {CANCELLED, DEAD}
        /\ thr[r] = "finish" => status[r] = DEAD
        /\ thr[r] \in {"put", "gone"} /\ call[r] # "null" =>
               /\ status[r] \in {DONE, DEAD}
               /\ status[r] = DONE => output[r] = "out"
        /\ cancelReq[r] /\ thr[r] \in {"func", "cleanup"} => status[r] # RUNNING

CallerPosition ==
    \A r \in Ctx :
        /\ call[r] \in {"kill", "markDead"} =>
               status[r] = CANCELLED /\ thr[r] \in {"func", "cleanup", "spin"}
        /\ call[r] = "cancelIdle" => retry[r] = 0
        /\ call[r] = "cancel" /\ retry[r] = 0 => status[r] # IDLE

Inv ==
    /\ TypeOK
    /\ RefsExact
    /\ ThreadPosition
    /\ CallerPosition
    /\ ResultComplete
    /\ NeverReturnsIdle
    /\ ReleasedNeverStarts

-----------------------------------------------------------------------------
(***************************************************************************)
(* "the cmpxchg in runner_thread() will return CANCELLED, and the context  *)
(* will be relased there" (cancel_runner(), cancelling in state IDLE).     *)
(***************************************************************************)
EarlyCancelReleased ==
    \A r \in Ctx :
        (thr[r] = "start" /\ status[r] = CANCELLED) ~> thr[r] = "gone"
=============================================================================
