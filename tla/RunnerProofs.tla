---------------------------- MODULE RunnerProofs ----------------------------
(***************************************************************************)
(* Proofs about Runner, for every set of contexts.                         *)
(***************************************************************************)
EXTENDS Runner, TLAPS

USE DEF IDLE, RUNNING, DONE, CANCELLED, DEAD

(* The initial state satisfies the inductive invariant. *)
LEMMA InitInv == Init => Inv
BY DEF Init, Inv, TypeOK, RefsExact, ThreadPosition, CallerPosition,
       ResultComplete, NeverReturnsIdle, ReleasedNeverStarts, CallerHolds,
       ThreadHolds, Status, ThrPC, CallPC, Output, NoData

(* Every step of either side preserves the inductive invariant. *)
LEMMA NextInv == Inv /\ [Next]_vars => Inv'
<1> SUFFICES ASSUME Inv, [Next]_vars PROVE Inv'
  OBVIOUS
<1> USE DEF Inv, TypeOK, RefsExact, ThreadPosition, CallerPosition,
            ResultComplete, NeverReturnsIdle, ReleasedNeverStarts, CallerHolds,
            ThreadHolds, Status, ThrPC, CallPC, Output, NoData,
            ctxVars, thrVars, callVars
<1>1. ASSUME NEW r \in Ctx, GetRunner(r) PROVE Inv'
  BY <1>1 DEF GetRunner
<1>2. ASSUME NEW r \in Ctx, GetRunnerFails(r) PROVE Inv'
  BY <1>2 DEF GetRunnerFails
<1>3. ASSUME NEW r \in Ctx, Expire(r) PROVE Inv'
  BY <1>3 DEF Expire
<1>4. ASSUME NEW r \in Ctx, ThreadStart(r) PROVE Inv'
  BY <1>4, SMTT(30) DEF ThreadStart
<1>5. ASSUME NEW r \in Ctx, CleanupExchange(r) PROVE Inv'
  BY <1>5 DEF CleanupExchange
<1>6. ASSUME NEW r \in Ctx, SpinTurns(r) PROVE Inv'
  BY <1>6 DEF SpinTurns, vars
<1>7. ASSUME NEW r \in Ctx, SpinEnds(r) PROVE Inv'
  BY <1>7 DEF SpinEnds
<1>8. ASSUME NEW r \in Ctx, CleanupFinish(r) PROVE Inv'
  BY <1>8 DEF CleanupFinish
<1>9. ASSUME NEW r \in Ctx, ThreadPut(r) PROVE Inv'
  BY <1>9 DEF ThreadPut
<1>10. ASSUME NEW r \in Ctx, FuncWrites(r) PROVE Inv'
  BY <1>10 DEF FuncWrites
<1>11. ASSUME NEW r \in Ctx, FuncReturns(r) PROVE Inv'
  BY <1>11 DEF FuncReturns
<1>12. ASSUME NEW r \in Ctx, FuncCancelled(r) PROVE Inv'
  BY <1>12 DEF FuncCancelled
<1>13. ASSUME NEW r \in Ctx, CheckRunner(r) PROVE Inv'
  BY <1>13, SMTT(30) DEF CheckRunner
<1>14. ASSUME NEW r \in Ctx, ReleaseRunner(r) PROVE Inv'
  BY <1>14 DEF ReleaseRunner
<1>15. ASSUME NEW r \in Ctx, CheckDeadline(r) PROVE Inv'
  <2>1. CASE expired[r]
    BY <1>15, <2>1, SMTT(30) DEF CheckDeadline
  <2>2. CASE ~expired[r]
    BY <1>15, <2>2, SMTT(30) DEF CheckDeadline
  <2>3. QED
    BY <2>1, <2>2
<1>16. ASSUME NEW r \in Ctx, CancelExchange(r) PROVE Inv'
  <2>1. CASE status[r] = RUNNING
    BY <1>16, <2>1, SMTT(30) DEF CancelExchange
  <2>2. CASE status[r] = IDLE
    BY <1>16, <2>2, SMTT(30) DEF CancelExchange, CancelReturns
  <2>3. CASE status[r] \notin {RUNNING, IDLE}
    BY <1>16, <2>3, SMTT(30) DEF CancelExchange, CancelReturns
  <2>4. QED
    BY <2>1, <2>2, <2>3
<1>17. ASSUME NEW r \in Ctx, CancelIdle(r) PROVE Inv'
  <2>1. CASE status[r] = IDLE /\ op[r] = "check"
    <3>1. /\ status' = [status EXCEPT ![r] = CANCELLED]
          /\ call' = [call EXCEPT ![r] = "held"]
          /\ ret' = [ret EXCEPT ![r] = CANCELLED]
          /\ taken' = [taken EXCEPT ![r] = NoData]
          /\ call[r] = "cancelIdle"
          /\ UNCHANGED <<refcnt, expired, thrVars, op, retry>>
      BY <1>17, <2>1 DEF CancelIdle, CancelReturns
    <3>2. (TypeOK /\ RefsExact)'
      BY <3>1
    <3>3. ThreadPosition'
      BY <3>1, <2>1
    <3>4. CallerPosition'
      BY <3>1
    <3>5. (ResultComplete /\ NeverReturnsIdle /\ ReleasedNeverStarts)'
      BY <3>1
    <3>6. QED
      BY <3>2, <3>3, <3>4, <3>5
  <2>2. CASE status[r] = IDLE /\ op[r] # "check"
    <3>1. /\ status' = [status EXCEPT ![r] = CANCELLED]
          /\ call' = [call EXCEPT ![r] = "put"]
          /\ call[r] = "cancelIdle"
          /\ UNCHANGED <<refcnt, expired, thrVars, op, retry, ret, taken>>
      BY <1>17, <2>2 DEF CancelIdle, CancelReturns
    <3>2. (TypeOK /\ RefsExact)'
      BY <3>1
    <3>3. ThreadPosition'
      BY <3>1, <2>2
    <3>4. CallerPosition'
      BY <3>1
    <3>5. (ResultComplete /\ NeverReturnsIdle /\ ReleasedNeverStarts)'
      BY <3>1
    <3>6. QED
      BY <3>2, <3>3, <3>4, <3>5
  <2>3. CASE status[r] # IDLE
    BY <1>17, <2>3 DEF CancelIdle
  <2>4. QED
    BY <2>1, <2>2, <2>3
<1>18. ASSUME NEW r \in Ctx, PthreadCancel(r) PROVE Inv'
  BY <1>18 DEF PthreadCancel
<1>19. ASSUME NEW r \in Ctx, MarkDead(r) PROVE Inv'
  BY <1>19, SMTT(30) DEF MarkDead, CancelReturns
<1>20. ASSUME NEW r \in Ctx, ReleasePut(r) PROVE Inv'
  <2>1. (TypeOK /\ RefsExact)'
    BY <1>20 DEF ReleasePut
  <2>2. (ThreadPosition /\ CallerPosition)'
    BY <1>20 DEF ReleasePut
  <2>3. (ResultComplete /\ NeverReturnsIdle /\ ReleasedNeverStarts)'
    BY <1>20 DEF ReleasePut
  <2>4. QED
    BY <2>1, <2>2, <2>3
<1>21. CASE UNCHANGED vars
  BY <1>21 DEF vars
<1>22. QED
  BY <1>1, <1>2, <1>3, <1>4, <1>5, <1>6, <1>7, <1>8, <1>9, <1>10, <1>11, <1>12, <1>13, <1>14, <1>15, <1>16, <1>17, <1>18, <1>19, <1>20, <1>21
     DEF Next, ThreadStep, FuncStep, CallStep

(***************************************************************************)
(* Type correctness and every safety invariant of Runner hold in every     *)
(* reachable state: runner contexts are freed exactly when nobody uses     *)
(* them, pthread_cancel() only hits live threads, the assertion of         *)
(* cancel_runner() never fires and callers only get complete results.      *)
(***************************************************************************)
THEOREM InvHolds == Spec => []Inv
BY InitInv, NextInv, PTL DEF Spec

(* The reference count of a context is the number of sides that use it. *)
THEOREM RefsExactHolds == Spec => []RefsExact
BY InvHolds, PTL DEF Inv

(* pthread_cancel() is only called on a thread that has not terminated. *)
THEOREM CancelTargetsLiveThreadHolds == Spec => []CancelTargetsLiveThread
<1>1. Inv => CancelTargetsLiveThread
  BY DEF Inv, CallerPosition, CancelTargetsLiveThread
<1>2. QED
  BY <1>1, InvHolds, PTL

(* The assertion in cancel_runner() never fires. *)
THEOREM CancelAssertHoldsAlways == Spec => []CancelAssertHolds
<1>1. Inv => CancelAssertHolds
  BY DEF Inv, CallerPosition, CancelAssertHolds
<1>2. QED
  BY <1>1, InvHolds, PTL

(* check_runner() only hands out complete results, together with DONE. *)
THEOREM ResultCompleteHolds == Spec => []ResultComplete
BY InvHolds, PTL DEF Inv

(* A runner released before its thread starts never runs its function. *)
THEOREM ReleasedNeverStartsHolds == Spec => []ReleasedNeverStarts
BY InvHolds, PTL DEF Inv

(* DONE and DEAD are final as long as the context is in use. *)
THEOREM FinalStatusStableHolds == Spec => FinalStatusStable
<1> DEFINE Stable == \A r \in Ctx :
             status[r] \in {DONE, DEAD} /\ refcnt[r] > 0 => status'[r] = status[r]
<1>1. ASSUME Inv, [Next]_vars PROVE [Stable]_vars
  <2> SUFFICES ASSUME Next, NEW s \in Ctx, status[s] \in {DONE, DEAD}, refcnt[s] > 0
               PROVE  status'[s] = status[s]
    BY <1>1
  <2> PICK r \in Ctx :
        \/ GetRunner(r) \/ GetRunnerFails(r) \/ Expire(r) \/ ThreadStep(r)
        \/ FuncStep(r) \/ CheckRunner(r) \/ ReleaseRunner(r) \/ CallStep(r)
    BY DEF Next
  <2> USE <1>1 DEF Inv, TypeOK, ThreadPosition, Status, ctxVars
  <2>1. CASE GetRunner(r) \/ GetRunnerFails(r) \/ Expire(r)
    <3>1. CASE GetRunner(r)
      BY <3>1 DEF GetRunner
    <3>2. CASE GetRunnerFails(r)
      BY <3>2 DEF GetRunnerFails, vars
    <3>3. CASE Expire(r)
      BY <3>3 DEF Expire
    <3>4. QED
      BY <2>1, <3>1, <3>2, <3>3
  <2>2. CASE ThreadStep(r)
    <3>1. CASE ThreadStart(r)
      BY <3>1 DEF ThreadStart
    <3>2. CASE CleanupExchange(r)
      BY <3>2 DEF CleanupExchange
    <3>3. CASE SpinTurns(r) \/ SpinEnds(r)
      BY <3>3 DEF SpinTurns, SpinEnds, vars
    <3>4. CASE CleanupFinish(r) \/ ThreadPut(r)
      BY <3>4 DEF CleanupFinish, ThreadPut
    <3>5. QED
      BY <2>2, <3>1, <3>2, <3>3, <3>4 DEF ThreadStep
  <2>3. CASE FuncStep(r)
    BY <2>3 DEF FuncStep, FuncWrites, FuncReturns, FuncCancelled
  <2>4. CASE CheckRunner(r) \/ ReleaseRunner(r)
    BY <2>4 DEF CheckRunner, ReleaseRunner
  <2>5. CASE CallStep(r)
    <3>1. CASE CheckDeadline(r) \/ PthreadCancel(r) \/ ReleasePut(r)
      BY <3>1 DEF CheckDeadline, PthreadCancel, ReleasePut
    <3>2. CASE CancelExchange(r)
      BY <3>2 DEF CancelExchange
    <3>3. CASE CancelIdle(r) \/ MarkDead(r)
      BY <3>3 DEF CancelIdle, MarkDead
    <3>4. QED
      BY <2>5, <3>1, <3>2, <3>3 DEF CallStep
  <2>6. QED
    BY <2>1, <2>2, <2>3, <2>4, <2>5
<1>2. QED
  BY <1>1, InvHolds, PTL DEF Spec, FinalStatusStable
=============================================================================
