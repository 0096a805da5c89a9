------------------------- MODULE AsyncCheckerProofs -------------------------
(***************************************************************************)
(* Proofs about AsyncChecker, for every set of contexts: it uses the API   *)
(* of the runners as Runner allows, and never loses its runner.            *)
(***************************************************************************)
EXTENDS AsyncChecker, RunnerProofs

(* While the checker is inside a call on its runner, acc->rtx is a context. *)
CallHasRtx == rtx \in Ctx \cup {NULL} /\ (apc # "out" => rtx \in Ctx)

LEMMA CallHasRtxNext == CallHasRtx /\ [AsyncNext]_asyncVars => CallHasRtx'
<1> SUFFICES ASSUME CallHasRtx, [AsyncNext]_asyncVars PROVE CallHasRtx'
  OBVIOUS
<1> USE DEF CallHasRtx, accVars
<1>1. ASSUME NEW r \in Ctx, CheckStarts(r) PROVE CallHasRtx'
  BY <1>1 DEF CheckStarts
<1>2. CASE \/ PathSysfsState \/ CheckRunsSync \/ CheckPolls
           \/ CheckDisabled \/ CheckerDisable \/ CheckerEnable
  BY <1>2 DEF PathSysfsState, CheckRunsSync, CheckPolls, CheckDisabled, CheckerDisable,
              CheckerEnable
<1>3. CASE PollReturns
  BY <1>3 DEF PollReturns, PollDone, PollRunning, PollFinished, PollAbandons, PollWaits
<1>4. CASE DropReturns \/ CheckerPut \/ PutReturns
  BY <1>4 DEF DropReturns, CheckerPut, PutReturns
<1>5. CASE RunnerStep
  BY <1>5 DEF RunnerStep
<1>6. CASE UNCHANGED asyncVars
  BY <1>6 DEF asyncVars
<1>7. QED
  BY <1>1, <1>2, <1>3, <1>4, <1>5, <1>6 DEF AsyncNext

(* A step of the checker is a step of Runner, or leaves its variables alone. *)
LEMMA AsyncStepIsRunnerStep == CallHasRtx /\ [AsyncNext]_asyncVars => [Next]_vars
<1> SUFFICES ASSUME CallHasRtx, [AsyncNext]_asyncVars PROVE [Next]_vars
  OBVIOUS
<1>1. ASSUME NEW r \in Ctx, CheckStarts(r) PROVE Next
  BY <1>1 DEF CheckStarts, Next
<1>2. CASE CheckRunsSync
  BY <1>2 DEF CheckRunsSync, Next
<1>3. CASE CheckPolls
  BY <1>3 DEF CheckPolls, CallHasRtx, Next
<1>4. CASE PathSysfsState \/ CheckDisabled \/ CheckerDisable \/ CheckerEnable
  BY <1>4 DEF PathSysfsState, CheckDisabled, CheckerDisable, CheckerEnable
<1>5. CASE PollReturns
  BY <1>5 DEF PollReturns, PollDone, PollRunning, PollFinished, PollAbandons, PollWaits,
              CallHasRtx, Next
<1>6. CASE DropReturns \/ PutReturns
  BY <1>6 DEF DropReturns, PutReturns
<1>7. CASE CheckerPut
  BY <1>7 DEF CheckerPut, CallHasRtx, Next
<1>8. CASE RunnerStep
  BY <1>8 DEF RunnerStep, Next
<1>9. CASE UNCHANGED asyncVars
  BY <1>9 DEF asyncVars
<1>10. QED
  BY <1>1, <1>2, <1>3, <1>4, <1>5, <1>6, <1>7, <1>8, <1>9 DEF AsyncNext

(***************************************************************************)
(* The checkers use the runner API as Runner allows, so everything proved  *)
(* about Runner holds for the runners of the path checkers.                *)
(***************************************************************************)
THEOREM AsyncCheckerImplementsRunner == AsyncSpec => Spec
<1>1. AsyncInit => Init /\ CallHasRtx
  BY DEF AsyncInit, CallHasRtx
<1>2. QED
  BY <1>1, CallHasRtxNext, AsyncStepIsRunnerStep, PTL DEF AsyncSpec, Spec

(* A context that is not in use is only acquired by get_runner(). *)
LEMMA RunnerStepKeepsOwner ==
  ASSUME TypeOK, NEW r \in Ctx, NEW s \in Ctx, call[s] = "null",
         \/ Expire(r) \/ ThreadStep(r) \/ FuncStep(r) \/ CheckRunner(r)
         \/ ReleaseRunner(r) \/ CallStep(r) \/ GetRunnerFails(r)
  PROVE  call'[s] = "null"
<1> USE DEF TypeOK, callVars, ctxVars, thrVars
<1>1. CASE Expire(r) \/ GetRunnerFails(r) \/ ThreadStep(r) \/ FuncStep(r)
  BY <1>1 DEF Expire, GetRunnerFails, ThreadStep, ThreadStart, CleanupExchange, SpinTurns,
              SpinEnds, CleanupFinish, ThreadPut, FuncStep, FuncWrites, FuncReturns,
              FuncCancelled, vars
<1>2. CASE CheckRunner(r) \/ ReleaseRunner(r)
  BY <1>2 DEF CheckRunner, ReleaseRunner
<1>3. CASE CheckDeadline(r) \/ PthreadCancel(r) \/ ReleasePut(r)
  BY <1>3 DEF CheckDeadline, PthreadCancel, ReleasePut
<1>4. CASE CancelExchange(r) \/ CancelIdle(r) \/ MarkDead(r)
  <2>1. CASE CancelExchange(r)
    BY <2>1 DEF CancelExchange, CancelReturns
  <2>2. CASE CancelIdle(r)
    BY <2>2 DEF CancelIdle, CancelReturns
  <2>3. CASE MarkDead(r)
    BY <2>3 DEF MarkDead, CancelReturns
  <2>4. QED
    BY <1>4, <2>1, <2>2, <2>3
<1>5. QED
  BY <1>1, <1>2, <1>3, <1>4 DEF CallStep

(* The checker holds no reference to a runner other than acc->rtx. *)
THEOREM OwnsOnlyRtxHolds == AsyncSpec => []OwnsOnlyRtx
<1>1. AsyncInit => CallHasRtx /\ OwnsOnlyRtx
  BY DEF AsyncInit, CallHasRtx, OwnsOnlyRtx, Init, CallerHolds
<1>2. TypeOK /\ CallHasRtx /\ OwnsOnlyRtx /\ [AsyncNext]_asyncVars => OwnsOnlyRtx'
  <2> SUFFICES ASSUME TypeOK, CallHasRtx, OwnsOnlyRtx, [AsyncNext]_asyncVars,
                      NEW s \in Ctx, call'[s] # "null"
               PROVE  s = rtx'
    BY DEF OwnsOnlyRtx, CallerHolds
  <2> USE NullAssumption DEF OwnsOnlyRtx, CallerHolds, CallHasRtx, accVars, callVars
  <2>1. ASSUME NEW r \in Ctx, CheckStarts(r) PROVE s = rtx'
    BY <2>1 DEF CheckStarts, GetRunner, TypeOK
  <2>2. CASE CheckRunsSync
    BY <2>2, RunnerStepKeepsOwner DEF CheckRunsSync, vars
  <2>3. CASE CheckPolls
    BY <2>3, RunnerStepKeepsOwner DEF CheckPolls
  <2>4. CASE PathSysfsState \/ CheckDisabled \/ CheckerDisable \/ CheckerEnable
    BY <2>4 DEF PathSysfsState, CheckDisabled, CheckerDisable, CheckerEnable, vars
  <2>5. CASE PollReturns
    BY <2>5, RunnerStepKeepsOwner DEF PollReturns, PollDone, PollRunning, PollFinished,
       PollAbandons, PollWaits, vars
  <2>6. CASE DropReturns \/ PutReturns
    BY <2>6 DEF DropReturns, PutReturns, vars
  <2>7. CASE CheckerPut
    BY <2>7, RunnerStepKeepsOwner DEF CheckerPut, vars
  <2>8. CASE RunnerStep
    BY <2>8, RunnerStepKeepsOwner DEF RunnerStep
  <2>9. CASE UNCHANGED asyncVars
    BY <2>9 DEF asyncVars, vars
  <2>10. QED
    BY <2>1, <2>2, <2>3, <2>4, <2>5, <2>6, <2>7, <2>8, <2>9 DEF AsyncNext
<1>3. Inv => TypeOK
  BY DEF Inv
<1>4. QED
  BY <1>1, <1>2, <1>3, CallHasRtxNext, AsyncCheckerImplementsRunner, InvHolds, PTL
     DEF AsyncSpec

-----------------------------------------------------------------------------
(***************************************************************************)
(* What the position of the checker loop says about its fields.  A check   *)
(* that is over leaves a state other than PENDING behind, or what its      *)
(* function returned (PollSettled).                                        *)
(***************************************************************************)
OutHoldsRtx == apc = "out" /\ rtx # NULL => call[rtx] = "held"
PollSettled ==
    /\ apc = "drop" => rstate # "PENDING" \/ reported
    /\ apc = "out" /\ path_state = "PENDING" /\ ~reported => rtx # NULL
AsyncInv == CallHasRtx /\ OutHoldsRtx /\ PollSettled

(* A context that the caller holds outside the API is not touched by runners. *)
LEMMA RunnerStepKeepsHeld ==
  ASSUME TypeOK, NEW r \in Ctx, NEW s \in Ctx, call[s] = "held",
         \/ Expire(r) \/ ThreadStep(r) \/ FuncStep(r) \/ CallStep(r) \/ GetRunnerFails(r)
  PROVE  call'[s] = "held"
<1> USE DEF TypeOK, callVars, ctxVars, thrVars
<1>1. CASE Expire(r) \/ GetRunnerFails(r) \/ ThreadStep(r) \/ FuncStep(r)
  BY <1>1, Zenon DEF Expire, GetRunnerFails, ThreadStep, ThreadStart, CleanupExchange, SpinTurns,
              SpinEnds, CleanupFinish, ThreadPut, FuncStep, FuncWrites, FuncReturns,
              FuncCancelled, vars
<1>2. CASE CheckDeadline(r) \/ PthreadCancel(r) \/ ReleasePut(r)
  BY <1>2 DEF CheckDeadline, PthreadCancel, ReleasePut
<1>3. CASE CancelExchange(r)
  BY <1>3 DEF CancelExchange, CancelReturns
<1>4. CASE CancelIdle(r)
  BY <1>4 DEF CancelIdle, CancelReturns
<1>5. CASE MarkDead(r)
  BY <1>5 DEF MarkDead, CancelReturns
<1>6. QED
  BY <1>1, <1>2, <1>3, <1>4, <1>5 DEF CallStep

(* Every step of the checker, and of the runners beside it, preserves AsyncInv. *)
LEMMA AsyncNextInv == TypeOK /\ AsyncInv /\ [AsyncNext]_asyncVars => AsyncInv'
<1> SUFFICES ASSUME TypeOK, AsyncInv, [AsyncNext]_asyncVars
             PROVE  OutHoldsRtx' /\ PollSettled'
  BY CallHasRtxNext DEF AsyncInv
<1> USE NullAssumption DEF AsyncInv, CallHasRtx, OutHoldsRtx, PollSettled, accVars
<1>1. ASSUME NEW r \in Ctx, CheckStarts(r) PROVE OutHoldsRtx' /\ PollSettled'
  BY <1>1 DEF CheckStarts, GetRunner, TypeOK
<1>2. CASE CheckRunsSync
  BY <1>2 DEF CheckRunsSync
<1>3. CASE CheckPolls
  BY <1>3 DEF CheckPolls
<1>4. CASE PathSysfsState \/ CheckDisabled \/ CheckerDisable \/ CheckerEnable
  BY <1>4 DEF PathSysfsState, CheckDisabled, CheckerDisable, CheckerEnable, vars, callVars
<1>5. CASE PollRunning
  BY <1>5 DEF PollRunning, PollDone, vars, callVars
<1>6. CASE PollWaits
  BY <1>6 DEF PollWaits, PollDone, vars, callVars
<1>7. CASE PollFinished
  <2>1. apc' = "drop" /\ (ret[rtx] = DONE \/ ret[rtx] = DEAD)
    BY <1>7 DEF PollFinished, PollDone
  <2>2. CASE ret[rtx] = DONE
    <3>1. reported'
      BY <1>7, <2>2 DEF PollFinished
    <3>2. QED
      BY <2>1, <3>1
  <2>3. CASE ret[rtx] = DEAD
    <3>1. rstate' = "TIMEOUT"
      BY <1>7, <2>3 DEF PollFinished
    <3>2. QED
      BY <2>1, <3>1
  <2>4. QED
    BY <2>1, <2>2, <2>3
<1>8. CASE PollAbandons
  <2>1. apc' = "drop" /\ rstate' = "TIMEOUT"
    BY <1>8 DEF PollAbandons
  <2>2. QED
    BY <2>1
<1>9. CASE DropReturns
  <2>1. /\ apc = "drop" /\ apc' = "out" /\ rtx' = NULL
        /\ path_state' = rstate /\ reported' = reported
    BY <1>9 DEF DropReturns
  <2>2. QED
    BY <2>1
<1>10. CASE PutReturns
  BY <1>10 DEF PutReturns
<1>11. CASE CheckerPut
  <2>1. CASE rtx = NULL
    <3>1. rtx' = NULL /\ path_state' = "UNCHECKED" /\ apc' = "out"
      BY <1>11, <2>1 DEF CheckerPut
    <3>2. QED
      BY <3>1
  <2>2. CASE rtx # NULL
    <3>1. apc' = "free"
      BY <1>11, <2>2 DEF CheckerPut
    <3>2. QED
      BY <3>1
  <2>3. QED
    BY <2>1, <2>2
<1>12. CASE RunnerStep
  <2>1. UNCHANGED accVars
    BY <1>12 DEF RunnerStep
  <2>2. ASSUME apc = "out", rtx # NULL PROVE call'[rtx] = "held"
    <3>1. rtx \in Ctx /\ call[rtx] = "held"
      BY <2>2
    <3>2. QED
      BY <1>12, <3>1, RunnerStepKeepsHeld DEF RunnerStep
  <2>3. QED
    BY <2>1, <2>2
<1>13. CASE UNCHANGED asyncVars
  BY <1>13 DEF asyncVars, vars, callVars
<1>14. QED
  BY <1>1, <1>2, <1>3, <1>4, <1>5, <1>6, <1>7, <1>8, <1>9, <1>10, <1>11, <1>12, <1>13
     DEF AsyncNext, PollReturns

(* The inductive invariant of the checker holds in every reachable state. *)
LEMMA AsyncInvHolds == AsyncSpec => []AsyncInv
<1>1. AsyncInit => AsyncInv
  BY DEF AsyncInit, AsyncInv, CallHasRtx, OutHoldsRtx, PollSettled
<1>2. Inv => TypeOK
  BY DEF Inv
<1>3. QED
  BY <1>1, <1>2, AsyncNextInv, AsyncCheckerImplementsRunner, InvHolds, PTL DEF AsyncSpec

(***************************************************************************)
(* The checker does not wait for a runner that is not there: whatever way  *)
(* check_runner_state(), checker_put() and the runner threads interleave,  *)
(* a path that is PENDING has a runner the checker holds, unless the       *)
(* checker function itself returned PENDING.                               *)
(***************************************************************************)
THEOREM PendingHasRunnerHolds == AsyncSpec => []PendingHasRunner
<1>1. AsyncInv => PendingHasRunner
  BY DEF AsyncInv, OutHoldsRtx, PollSettled, PendingHasRunner, CallerHolds
<1>2. QED
  BY <1>1, AsyncInvHolds, PTL
=============================================================================
