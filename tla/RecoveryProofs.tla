--------------------------- MODULE RecoveryProofs ---------------------------
(***************************************************************************)
(* Proofs about MapRecovery, for any paths, retries and faults.            *)
(*                                                                         *)
(* Every function of the code is an operator on the record of the map, so  *)
(* the argument is one lemma per function: it takes a well-formed map to a *)
(* well-formed map (MapOK), keeps the features true to the kernel (Tracks) *)
(* and follows it (Follows): without a working path, recovery mode neither *)
(* ends nor gets more ticks, and a map that is over stays over.            *)
(***************************************************************************)
EXTENDS MapRecovery, TLAPS

MapOK(m) ==
    /\ m \in MapRecord
    /\ m.retry_tick > 0 => m.in_recovery

Tracks(m) == m.features # "NULL" => (m.features = "queue") = m.queueing

\* In recovery mode without a working path, and past the end of it.
Lost(m) == m.in_recovery /\ ~UpPath(m)
Over(m) ==
    /\ Lost(m)
    /\ m.retry_tick = 0
    /\ ~m.queueing
    /\ m.no_path_retry = conf
    /\ conf > 0

Follows(m, n) ==
    /\ Lost(m) => Lost(n) /\ n.retry_tick <= m.retry_tick
    /\ Over(m) => Over(n)

\* What a function of the code does to the mode of a map.
Keeps(m, n) ==
    /\ MapOK(n)
    /\ Tracks(m) => Tracks(n)
    /\ Follows(m, n)
    /\ n.alive = m.alive
    /\ n.no_path_retry = m.no_path_retry
    /\ n.state = m.state

\* The inductive invariant.
Inv ==
    /\ TypeOK
    /\ map.alive => Tracks(map) /\ map.no_path_retry \in {conf, NO_PATH_RETRY_FAIL}

-----------------------------------------------------------------------------
\* The relation between a map and what becomes of it is transitive.
LEMMA KeepsTrans ==
    ASSUME NEW l, NEW m, NEW n, MapOK(l), MapOK(m), Keeps(l, m), Keeps(m, n)
    PROVE  Keeps(l, n)
<1>1. l.retry_tick \in Nat /\ m.retry_tick \in Nat /\ n.retry_tick \in Nat
  BY DEF Keeps, MapOK, MapRecord
<1>2. Follows(l, n)
  BY <1>1 DEF Keeps, Follows
<1> QED
  BY <1>2 DEF Keeps

\* The message that changes the queueing mode.
LEMMA QueueFields ==
    ASSUME NEW m, MapOK(m), NEW enable \in BOOLEAN, NEW ok \in BOOLEAN
    PROVE  LET n == dm_queue_if_no_path(m, enable, ok) IN
           /\ MapOK(n)
           /\ Tracks(m) => Tracks(n)
           /\ n.queueing => m.queueing \/ enable
           /\ n.alive = m.alive
           /\ n.no_path_retry = m.no_path_retry
           /\ n.state = m.state
           /\ n.in_recovery = m.in_recovery
           /\ n.retry_tick = m.retry_tick
           /\ n.pg = m.pg
BY DEF MapOK, MapRecord, dm_queue_if_no_path, Tracks, Features

\* Turning queueing on is only asked for in a map with a working path, or
\* with no_path_retry set to queue.
LEMMA QueueKeeps ==
    ASSUME NEW m, MapOK(m), NEW enable \in BOOLEAN, NEW ok \in BOOLEAN,
           ~enable \/ UpPath(m) \/ m.no_path_retry <= 0
    PROVE  Keeps(m, dm_queue_if_no_path(m, enable, ok))
<1> DEFINE n == dm_queue_if_no_path(m, enable, ok)
<1>1. /\ MapOK(n) /\ (Tracks(m) => Tracks(n)) /\ (n.queueing => m.queueing \/ enable)
      /\ n.alive = m.alive /\ n.no_path_retry = m.no_path_retry /\ n.state = m.state
      /\ n.in_recovery = m.in_recovery /\ n.retry_tick = m.retry_tick
  BY QueueFields
<1>2. m.retry_tick \in Nat /\ m.no_path_retry \in Int
  BY DEF MapOK, MapRecord
<1>3. UpPath(n) <=> UpPath(m)
  BY <1>1 DEF UpPath
<1> HIDE DEF n
<1>4. Follows(m, n)
  BY <1>1, <1>2, <1>3 DEF Follows, Lost, Over
<1> QED
  BY <1>1, <1>4 DEF Keeps, n

\* A number of retries gives a number of ticks.
LEMMA TickType ==
    ASSUME NEW r \in Int, r > 0
    PROVE  r * checkint + 1 \in Nat
BY CheckintAssumption, SMTT(30)

\* enter_recovery_mode() starts no countdown that is under way.
LEMMA EnterKeeps ==
    ASSUME NEW m, MapOK(m)
    PROVE  Keeps(m, enter_recovery_mode(m))
<1>1. CASE m.in_recovery \/ m.no_path_retry <= 0
  <2>1. enter_recovery_mode(m) = m
    BY <1>1 DEF enter_recovery_mode
  <2>2. m.retry_tick \in Nat
    BY DEF MapOK, MapRecord
  <2> QED
    BY <2>1, <2>2 DEF Keeps, Follows
<1>2. CASE ~m.in_recovery /\ ~(m.no_path_retry <= 0)
  <2> DEFINE t == m.no_path_retry * checkint + 1
             n == [m EXCEPT !.in_recovery = TRUE, !.retry_tick = t]
  <2>1. enter_recovery_mode(m) = n
    BY <1>2 DEF enter_recovery_mode
  <2>2. t \in Nat
    BY <1>2, TickType DEF MapOK, MapRecord
  <2> HIDE DEF t
  <2>3. MapOK(n)
    BY <2>2 DEF MapOK, MapRecord
  <2>4. /\ n.features = m.features /\ n.queueing = m.queueing /\ n.alive = m.alive
        /\ n.no_path_retry = m.no_path_retry /\ n.state = m.state
    BY DEF MapOK, MapRecord
  <2>5. Follows(m, n)
    BY <1>2 DEF Follows, Lost, Over
  <2> QED
    BY <2>1, <2>3, <2>4, <2>5 DEF Keeps, Tracks
<1> QED
  BY <1>1, <1>2

\* leave_recovery_mode() is called for maps with a working path.
LEMMA LeaveKeeps ==
    ASSUME NEW m, MapOK(m), UpPath(m), NEW ok \in BOOLEAN
    PROVE  Keeps(m, leave_recovery_mode(m, ok))
<1> DEFINE left == [m EXCEPT !.in_recovery = FALSE, !.retry_tick = 0]
<1>1. MapOK(left)
  <2>1. left \in MapRecord
    BY DEF MapOK, MapRecord
  <2>2. left.retry_tick = 0
    BY DEF MapOK, MapRecord
  <2> QED
    BY <2>1, <2>2 DEF MapOK
<1>2. /\ left.features = m.features /\ left.queueing = m.queueing /\ left.alive = m.alive
      /\ left.no_path_retry = m.no_path_retry /\ left.state = m.state
  BY DEF MapOK, MapRecord
<1>3. UpPath(left)
  BY <1>2 DEF UpPath
<1>4. Keeps(m, left)
  BY <1>1, <1>2 DEF Keeps, Tracks, Follows, Lost, Over
<1>5. leave_recovery_mode(m, ok) \in {left, dm_queue_if_no_path(left, TRUE, ok)}
  BY DEF leave_recovery_mode
<1> HIDE DEF left
<1>6. Keeps(left, dm_queue_if_no_path(left, TRUE, ok))
  BY <1>1, <1>3, QueueKeeps
<1> QED
  BY <1>1, <1>4, <1>5, <1>6, KeepsTrans

\* set_no_path_retry(), in each of its modes.
LEMMA SetKeeps ==
    ASSUME NEW m, MapOK(m), NEW ok \in BOOLEAN
    PROVE  Keeps(m, set_no_path_retry(m, ok))
<1>1. m.no_path_retry \in Int /\ m.retry_tick \in Nat
  BY DEF MapOK, MapRecord
<1>2. Keeps(m, m)
  BY <1>1 DEF Keeps, Follows
<1>3. /\ Keeps(m, dm_queue_if_no_path(m, FALSE, ok))
      /\ m.no_path_retry <= 0 \/ UpPath(m) => Keeps(m, dm_queue_if_no_path(m, TRUE, ok))
  BY <1>1, QueueKeeps
<1>4. MapOK(dm_queue_if_no_path(m, TRUE, ok)) /\ MapOK(dm_queue_if_no_path(m, FALSE, ok))
  BY QueueFields
<1>5. CASE m.no_path_retry \in {NO_PATH_RETRY_UNDEF, NO_PATH_RETRY_FAIL, NO_PATH_RETRY_QUEUE}
  <2>1. m.no_path_retry <= 0
    BY <1>5 DEF NO_PATH_RETRY_UNDEF, NO_PATH_RETRY_FAIL, NO_PATH_RETRY_QUEUE
  <2>2. set_no_path_retry(m, ok) \in
            {m, dm_queue_if_no_path(m, TRUE, ok), dm_queue_if_no_path(m, FALSE, ok)}
    BY <1>5 DEF set_no_path_retry
  <2> QED
    BY <1>2, <1>3, <2>1, <2>2
<1>6. ASSUME Active(m)
      PROVE  Keeps(m, RetryActive(m, ok))
  <2>1. PICK n : /\ n \in {m, dm_queue_if_no_path(m, TRUE, ok)}
                 /\ RetryActive(m, ok) = leave_recovery_mode(n, ok)
    BY DEF RetryActive
  <2>2. UpPath(m)
    BY <1>6 DEF Active
  <2>3. Keeps(m, n) /\ MapOK(n)
    BY <1>2, <1>3, <1>4, <2>1, <2>2
  <2>4. UpPath(n)
    BY <2>2, <2>3 DEF UpPath, Keeps
  <2>5. Keeps(n, leave_recovery_mode(n, ok))
    BY <2>3, <2>4, LeaveKeeps
  <2> QED
    BY <2>1, <2>3, <2>5, KeepsTrans
<1>7. Keeps(m, RetryInactive(m, ok))
  <2>1. PICK n : /\ n \in {m, dm_queue_if_no_path(m, FALSE, ok)}
                 /\ RetryInactive(m, ok) \in {n, enter_recovery_mode(n)}
    BY DEF RetryInactive
  <2>2. Keeps(m, n) /\ MapOK(n)
    BY <1>2, <1>3, <1>4, <2>1
  <2>3. Keeps(n, enter_recovery_mode(n))
    BY <2>2, EnterKeeps
  <2> QED
    BY <2>1, <2>2, <2>3, KeepsTrans
<1> QED
  BY <1>5, <1>6, <1>7 DEF set_no_path_retry

-----------------------------------------------------------------------------
\* A status that was read tells the features and leaves the mode alone.
LEMMA ReadKeeps ==
    ASSUME NEW m, MapOK(m), NEW read \in BOOLEAN
    PROVE  LET n == update_multipath_strings(m, read) IN
           /\ MapOK(n)
           /\ Tracks(n)
           /\ Follows(m, n)
           /\ n.alive = m.alive
           /\ n.no_path_retry = m.no_path_retry
           /\ n.state = m.state
<1> DEFINE n == update_multipath_strings(m, read)
<1>1. n \in MapRecord
  BY DEF MapOK, MapRecord, update_multipath_strings, Features
<1>2. /\ n.alive = m.alive /\ n.no_path_retry = m.no_path_retry /\ n.state = m.state
      /\ n.in_recovery = m.in_recovery /\ n.retry_tick = m.retry_tick /\ n.queueing = m.queueing
  BY DEF MapOK, MapRecord, update_multipath_strings
<1>3. Tracks(n)
  BY DEF MapOK, MapRecord, update_multipath_strings, Tracks
<1>4. m.retry_tick \in Nat
  BY DEF MapOK, MapRecord
<1> HIDE DEF n
<1>5. Follows(m, n)
  BY <1>2, <1>4 DEF Follows, Lost, Over, UpPath
<1> QED
  BY <1>1, <1>2, <1>3, <1>5 DEF n, MapOK

\* setup_multipath() leaves a map whose features are true, or drops it.
LEMMA SetupKeeps ==
    ASSUME NEW m, MapOK(m), NEW read \in BOOLEAN, NEW ok \in BOOLEAN
    PROVE  LET n == setup_multipath(m, read, ok) IN
           /\ MapOK(n)
           /\ n.alive => /\ Tracks(n) /\ Follows(m, n)
                         /\ n.no_path_retry = m.no_path_retry
                         /\ n.state = m.state
<1>1. CASE read
  <2> DEFINE r == update_multipath_strings(m, TRUE)
             n == set_no_path_retry(r, ok)
  <2>1. /\ MapOK(r) /\ Tracks(r) /\ Follows(m, r)
        /\ r.no_path_retry = m.no_path_retry /\ r.state = m.state
    BY ReadKeeps
  <2> HIDE DEF r
  <2>2. Keeps(r, n)
    BY <2>1, SetKeeps
  <2> HIDE DEF n
  <2>3. m.retry_tick \in Nat /\ r.retry_tick \in Nat /\ n.retry_tick \in Nat
    BY <2>1, <2>2 DEF MapOK, MapRecord, Keeps
  <2>4. Follows(m, n)
    BY <2>1, <2>2, <2>3 DEF Keeps, Follows
  <2>5. setup_multipath(m, read, ok) = n
    BY <1>1 DEF setup_multipath, n, r
  <2> QED
    BY <2>1, <2>2, <2>4, <2>5 DEF Keeps
<1>2. CASE ~read
  BY <1>2 DEF setup_multipath, MapOK, MapRecord
<1> QED
  BY <1>1, <1>2

\* A new table queues only if the map may: it is not past its recovery mode.
LEMMA ReloadFollows ==
    ASSUME NEW m, MapOK(m), conf \in Int, NEW loaded \in BOOLEAN
    PROVE  LET n == reload_map(m, loaded) IN
           /\ MapOK(n)
           /\ Follows(m, n)
           /\ n.alive = m.alive
           /\ n.no_path_retry = conf
           /\ n.state = m.state
<1> DEFINE set == [m EXCEPT !.disable_queueing = FALSE, !.no_path_retry = conf, !.pg = TRUE]
           n   == reload_map(m, loaded)
<1>1. /\ set \in MapRecord /\ set.no_path_retry = conf /\ set.state = m.state
      /\ set.alive = m.alive /\ set.in_recovery = m.in_recovery
      /\ set.retry_tick = m.retry_tick /\ set.queueing = m.queueing
  BY DEF MapOK, MapRecord
<1>2. assemble_map(set) \in BOOLEAN
  BY DEF assemble_map
<1>3. n = IF loaded THEN [set EXCEPT !.features = IF assemble_map(set) THEN "queue" ELSE "other",
                                     !.queueing = assemble_map(set),
                                     !.dm = [p \in Paths |-> "ACTIVE"]]
          ELSE [set EXCEPT !.features = IF assemble_map(set) THEN "queue" ELSE "other"]
  BY <1>1 DEF reload_map, MapRecord
<1>4. Over(m) => ~assemble_map(set)
  BY <1>1 DEF Over, Lost, Active, UpPath, assemble_map, NO_PATH_RETRY_QUEUE
<1> HIDE DEF set, n
<1>5. n \in MapRecord
  BY <1>1, <1>2, <1>3 DEF MapRecord, Features, DmStates
<1>6. /\ n.alive = m.alive /\ n.no_path_retry = conf /\ n.state = m.state
      /\ n.in_recovery = m.in_recovery /\ n.retry_tick = m.retry_tick
      /\ n.queueing \in {m.queueing, assemble_map(set)}
  BY <1>1, <1>3 DEF MapRecord
<1>7. m.retry_tick \in Nat
  BY DEF MapOK, MapRecord
<1>8. Follows(m, n)
  BY <1>4, <1>6, <1>7 DEF Follows, Lost, Over, UpPath
<1> QED
  BY <1>5, <1>6, <1>8 DEF n, MapOK

\* Only the paths of the kernel change: the mode of the map is kept.
LEMMA DmKeeps ==
    ASSUME NEW m, MapOK(m), NEW d \in [Paths -> DmStates]
    PROVE  Keeps(m, [m EXCEPT !.dm = d])
<1> DEFINE n == [m EXCEPT !.dm = d]
<1>1. n \in MapRecord
  BY DEF MapOK, MapRecord
<1>2. /\ n.alive = m.alive /\ n.no_path_retry = m.no_path_retry /\ n.state = m.state
      /\ n.in_recovery = m.in_recovery /\ n.retry_tick = m.retry_tick
      /\ n.queueing = m.queueing /\ n.features = m.features
  BY DEF MapOK, MapRecord
<1>3. m.retry_tick \in Nat
  BY DEF MapOK, MapRecord
<1> HIDE DEF n
<1>4. Follows(m, n) /\ MapOK(n) /\ (Tracks(m) => Tracks(n))
  BY <1>1, <1>2, <1>3 DEF Follows, Lost, Over, UpPath, MapOK, Tracks
<1> QED
  BY <1>2, <1>4 DEF Keeps, n

LEMMA SyncStateKeeps ==
    ASSUME NEW m, MapOK(m), NEW bad
    PROVE  Keeps(m, sync_map_state(m, bad))
<1>1. CASE ~m.pg
  <2>1. sync_map_state(m, bad) = m /\ m.retry_tick \in Nat
    BY <1>1 DEF sync_map_state, MapOK, MapRecord
  <2> QED
    BY <2>1 DEF Keeps, Follows
<1>2. CASE m.pg
  <2> DEFINE d == [p \in Paths |-> IF p \in bad THEN m.dm[p]
                                   ELSE IF p \in SyncFails(m) THEN "FAILED"
                                   ELSE IF p \in SyncReinstates(m) THEN "ACTIVE"
                                   ELSE m.dm[p]]
  <2>1. d \in [Paths -> DmStates]
    BY DEF MapOK, MapRecord, DmStates
  <2>2. sync_map_state(m, bad) = [m EXCEPT !.dm = d]
    BY <1>2 DEF sync_map_state, MapOK, MapRecord
  <2> HIDE DEF d
  <2> QED
    BY <2>1, <2>2, DmKeeps
<1> QED
  BY <1>1, <1>2 DEF MapOK, MapRecord

\* A reload ends with features that are true and the configured retries.
LEMMA ReloadSyncFollows ==
    ASSUME NEW m, MapOK(m), conf \in Int, NEW loaded \in BOOLEAN, NEW read \in BOOLEAN,
           NEW ok \in BOOLEAN, NEW bad
    PROVE  LET n == reload_and_sync_map(m, loaded, read, ok, bad) IN
           /\ MapOK(n)
           /\ n.alive => /\ Tracks(n) /\ Follows(m, n)
                         /\ n.no_path_retry = conf
                         /\ n.state = m.state
<1> DEFINE r == reload_map(m, loaded)
           t == setup_multipath(r, read, ok)
           n == sync_map_state(t, bad)
<1>1. MapOK(r) /\ Follows(m, r) /\ r.no_path_retry = conf /\ r.state = m.state
  BY ReloadFollows
<1> HIDE DEF r
<1>2. MapOK(t) /\ (t.alive => /\ Tracks(t) /\ Follows(r, t)
                              /\ t.no_path_retry = conf /\ t.state = m.state)
  BY <1>1, SetupKeeps
<1> HIDE DEF t
<1>3. Keeps(t, n)
  BY <1>2, SyncStateKeeps
<1> HIDE DEF n
<1>4. /\ m.retry_tick \in Nat /\ r.retry_tick \in Nat
      /\ t.retry_tick \in Nat /\ n.retry_tick \in Nat
  BY <1>1, <1>2, <1>3 DEF MapOK, MapRecord, Keeps
<1>5. t.alive => Follows(m, n)
  BY <1>1, <1>2, <1>3, <1>4 DEF Keeps, Follows
<1>6. reload_and_sync_map(m, loaded, read, ok, bad) = IF t.alive THEN n ELSE t
  BY DEF reload_and_sync_map, t, r, n
<1> QED
  BY <1>2, <1>3, <1>5, <1>6 DEF Keeps

\* sync_mpp() reads the map and sets its mode, or learns nothing.
LEMMA DoSyncFollows ==
    ASSUME NEW m, MapOK(m), NEW read \in BOOLEAN, NEW ok \in BOOLEAN
    PROVE  LET n == do_sync_mpp(m, read, ok) IN
           /\ MapOK(n) /\ Tracks(n) /\ Follows(m, n)
           /\ n.alive = m.alive /\ n.no_path_retry = m.no_path_retry /\ n.state = m.state
<1> DEFINE r == update_multipath_strings(m, read)
<1>1. /\ MapOK(r) /\ Tracks(r) /\ Follows(m, r) /\ r.alive = m.alive
      /\ r.no_path_retry = m.no_path_retry /\ r.state = m.state
  BY ReadKeeps
<1> HIDE DEF r
<1>2. m.retry_tick \in Nat /\ r.retry_tick \in Nat
  BY <1>1 DEF MapOK, MapRecord
<1>3. CASE read
  <2> DEFINE n == set_no_path_retry(r, ok)
  <2>1. Keeps(r, n)
    BY <1>1, SetKeeps
  <2> HIDE DEF n
  <2>2. n.retry_tick \in Nat
    BY <2>1 DEF Keeps, MapOK, MapRecord
  <2>3. Follows(m, n)
    BY <1>1, <1>2, <2>1, <2>2 DEF Keeps, Follows
  <2>4. do_sync_mpp(m, read, ok) = n
    BY <1>3 DEF do_sync_mpp, n, r
  <2> QED
    BY <1>1, <2>1, <2>3, <2>4 DEF Keeps
<1>4. CASE ~read
  <2> DEFINE n == [r EXCEPT !.dmstate = [p \in Paths |-> "UNDEF"]]
  <2>1. do_sync_mpp(m, read, ok) = n
    BY <1>4 DEF do_sync_mpp, r
  <2>2. n \in MapRecord
    BY <1>1 DEF MapOK, MapRecord
  <2>3. /\ n.alive = r.alive /\ n.no_path_retry = r.no_path_retry /\ n.state = r.state
        /\ n.in_recovery = r.in_recovery /\ n.retry_tick = r.retry_tick
        /\ n.queueing = r.queueing /\ n.features = r.features
    BY <1>1 DEF MapOK, MapRecord
  <2> HIDE DEF n
  <2>4. MapOK(n) /\ Tracks(n) /\ Follows(m, n)
    BY <1>1, <1>2, <2>2, <2>3 DEF MapOK, Tracks, Follows, Lost, Over, UpPath
  <2> QED
    BY <1>1, <2>1, <2>3, <2>4
<1> QED
  BY <1>3, <1>4

\* A round of the checker takes one tick from the countdown.
LEMMA TickKeeps ==
    ASSUME NEW m, MapOK(m), NEW ok \in BOOLEAN
    PROVE  Keeps(m, retry_count_tick(m, ok))
<1>1. m.retry_tick \in Nat
  BY DEF MapOK, MapRecord
<1>2. CASE m.retry_tick = 0
  <2>1. retry_count_tick(m, ok) = m
    BY <1>2 DEF retry_count_tick
  <2> QED
    BY <1>1, <2>1 DEF Keeps, Follows
<1>3. CASE m.retry_tick # 0
  <2> DEFINE t == [m EXCEPT !.retry_tick = m.retry_tick - 1]
  <2>1. t \in MapRecord
    BY <1>1, <1>3 DEF MapOK, MapRecord
  <2>2. /\ t.alive = m.alive /\ t.no_path_retry = m.no_path_retry /\ t.state = m.state
        /\ t.in_recovery = m.in_recovery /\ t.retry_tick = m.retry_tick - 1
        /\ t.queueing = m.queueing /\ t.features = m.features
    BY DEF MapOK, MapRecord
  <2>3. retry_count_tick(m, ok) = IF t.retry_tick = 0 THEN dm_queue_if_no_path(t, FALSE, ok) ELSE t
    BY <1>3 DEF retry_count_tick
  <2> HIDE DEF t
  <2>4. MapOK(t) /\ Follows(m, t) /\ (Tracks(m) => Tracks(t))
    BY <1>1, <1>3, <2>1, <2>2 DEF MapOK, Follows, Lost, Over, UpPath, Tracks
  <2>5. Keeps(m, t)
    BY <2>2, <2>4 DEF Keeps
  <2>6. Keeps(t, dm_queue_if_no_path(t, FALSE, ok))
    BY <2>4, QueueKeeps
  <2> QED
    BY <2>3, <2>4, <2>5, <2>6, KeepsTrans
<1> QED
  BY <1>2, <1>3

-----------------------------------------------------------------------------
\* What a step may do to a map: CountdownOnlyFalls and StaysTimedOut.
Falls(m, n) ==
    /\ Lost(m) /\ n.in_recovery => n.retry_tick <= m.retry_tick
    /\ Over(m) /\ n.queueing => UpPath(n)

\* A map that follows another falls.
LEMMA FollowsFalls ==
    ASSUME NEW m, NEW n, Follows(m, n)
    PROVE  Falls(m, n)
BY DEF Falls, Follows, Over

\* Taking paths away, or setting them to a state that is not active, keeps
\* the mode; the map may then enter recovery mode.
LEMMA DownFollows ==
    ASSUME NEW m, MapOK(m), NEW st \in [Paths -> PathStates],
           \A p \in Paths : st[p] \in ActiveStates => m.state[p] \in ActiveStates
    PROVE  LET n == [m EXCEPT !.state = st] IN
           /\ MapOK(n) /\ (Tracks(m) => Tracks(n)) /\ Follows(m, n)
           /\ n.alive = m.alive /\ n.no_path_retry = m.no_path_retry
<1> DEFINE n == [m EXCEPT !.state = st]
<1>1. n \in MapRecord
  BY DEF MapOK, MapRecord
<1>2. /\ n.alive = m.alive /\ n.no_path_retry = m.no_path_retry /\ n.state = st
      /\ n.in_recovery = m.in_recovery /\ n.retry_tick = m.retry_tick
      /\ n.queueing = m.queueing /\ n.features = m.features
  BY DEF MapOK, MapRecord
<1>3. m.retry_tick \in Nat
  BY DEF MapOK, MapRecord
<1> HIDE DEF n
<1>4. UpPath(n) => UpPath(m)
  BY <1>2 DEF UpPath
<1> QED
  BY <1>1, <1>2, <1>3, <1>4 DEF n, Follows, Lost, Over, MapOK, Tracks

LEMMA DelPathKeeps ==
    ASSUME NEW m, MapOK(m)
    PROVE  Keeps(m, update_queue_mode_del_path(m))
<1>1. Keeps(m, m)
  BY DEF Keeps, Follows, MapOK, MapRecord
<1> QED
  BY <1>1, EnterKeeps DEF update_queue_mode_del_path

\* update_multipath() takes the paths that the kernel failed as down.
LEMMA MarkFailedFollows ==
    ASSUME NEW m, MapOK(m)
    PROVE  LET n == MarkFailed(m) IN
           /\ MapOK(n) /\ (Tracks(m) => Tracks(n)) /\ Follows(m, n)
           /\ n.alive = m.alive /\ n.no_path_retry = m.no_path_retry
<1> DEFINE st == [p \in Paths |-> IF p \in DmFailed(m) THEN "DOWN" ELSE m.state[p]]
           d  == [m EXCEPT !.state = st]
           n  == MarkFailed(m)
<1>1. st \in [Paths -> PathStates]
  BY DEF MapOK, MapRecord, PathStates
<1>2. \A p \in Paths : st[p] \in ActiveStates => m.state[p] \in ActiveStates
  BY DEF ActiveStates
<1>3. n \in {d, update_queue_mode_del_path(d)}
  BY DEF MarkFailed, MapOK, MapRecord
<1> HIDE DEF st
<1>4. /\ MapOK(d) /\ (Tracks(m) => Tracks(d)) /\ Follows(m, d)
      /\ d.alive = m.alive /\ d.no_path_retry = m.no_path_retry
  BY <1>1, <1>2, DownFollows
<1> HIDE DEF d
<1>5. Keeps(d, update_queue_mode_del_path(d))
  BY <1>4, DelPathKeeps
<1> HIDE DEF n
<1>6. MapOK(n)
  BY <1>3, <1>4, <1>5 DEF Keeps
<1>7. m.retry_tick \in Nat /\ d.retry_tick \in Nat /\ n.retry_tick \in Nat
  BY <1>4, <1>6 DEF MapOK, MapRecord
<1>8. Follows(m, n)
  BY <1>3, <1>4, <1>5, <1>7 DEF Keeps, Follows
<1> QED
  BY <1>3, <1>4, <1>5, <1>6, <1>8 DEF n, Keeps

\* fail_path() in a map whose path has just gone down.
LEMMA FailKeeps ==
    ASSUME NEW m, MapOK(m), NEW p \in Paths, NEW del \in BOOLEAN, NEW ok \in BOOLEAN
    PROVE  Keeps(m, fail_path(m, p, del, ok))
<1> DEFINE f == IF ok THEN [m EXCEPT !.dm[p] = "FAILED"] ELSE m
           d == [m.dm EXCEPT ![p] = "FAILED"]
<1>1. d \in [Paths -> DmStates]
  BY DEF MapOK, MapRecord, DmStates
<1>2. [m EXCEPT !.dm[p] = "FAILED"] = [m EXCEPT !.dm = d]
  BY DEF MapOK, MapRecord
<1>3. Keeps(m, m)
  BY DEF Keeps, Follows, MapOK, MapRecord
<1> HIDE DEF d
<1>4. Keeps(m, f)
  BY <1>1, <1>2, <1>3, DmKeeps
<1>5. fail_path(m, p, del, ok) = IF del THEN update_queue_mode_del_path(f) ELSE f
  BY DEF fail_path
<1> HIDE DEF f
<1>6. MapOK(f)
  BY <1>4 DEF Keeps
<1>7. Keeps(f, update_queue_mode_del_path(f))
  BY <1>6, DelPathKeeps
<1> QED
  BY <1>4, <1>5, <1>6, <1>7, KeepsTrans

\* A map with a working path that is reinstated is out of recovery mode, or
\* as it was.
LEMMA ReinstateKeeps ==
    ASSUME NEW m, MapOK(m), UpPath(m), NEW p \in Paths, NEW ok \in BOOLEAN, NEW okq \in BOOLEAN
    PROVE  LET n == reinstate_path(m, p, ok, okq) IN
           Keeps(m, n) /\ (n.in_recovery => n.retry_tick = m.retry_tick)
<1> DEFINE d == [m.dm EXCEPT ![p] = "ACTIVE"]
           r == [m EXCEPT !.dm = d]
           l == leave_recovery_mode(r, okq)
           n == reinstate_path(m, p, ok, okq)
<1>1. d \in [Paths -> DmStates] /\ [m EXCEPT !.dm[p] = "ACTIVE"] = r
  BY DEF MapOK, MapRecord, DmStates
<1>2. n \in {m, r, l}
  BY <1>1 DEF reinstate_path, update_queue_mode_add_path
<1>3. Keeps(m, m)
  BY DEF Keeps, Follows, MapOK, MapRecord
<1>4. r.retry_tick = m.retry_tick
  BY DEF MapOK, MapRecord
<1> HIDE DEF d, n
<1>5. Keeps(m, r)
  BY <1>1, DmKeeps
<1> HIDE DEF r
<1>6. MapOK(r) /\ UpPath(r)
  BY <1>5 DEF Keeps, UpPath
<1>7. Keeps(r, l)
  BY <1>6, LeaveKeeps
<1>8. ~l.in_recovery
  <2> DEFINE left == [r EXCEPT !.in_recovery = FALSE, !.retry_tick = 0]
  <2>1. left \in MapRecord /\ left.in_recovery = FALSE /\ left.retry_tick = 0
    BY <1>6 DEF MapOK, MapRecord
  <2>2. l \in {left, dm_queue_if_no_path(left, TRUE, okq)}
    BY DEF leave_recovery_mode
  <2> HIDE DEF left, l
  <2>3. MapOK(left)
    BY <2>1 DEF MapOK
  <2>4. dm_queue_if_no_path(left, TRUE, okq).in_recovery = left.in_recovery
    BY <2>3, QueueFields
  <2> QED
    BY <2>1, <2>2, <2>4
<1> HIDE DEF l
<1> QED
  BY <1>2, <1>3, <1>4, <1>5, <1>6, <1>7, <1>8, KeepsTrans DEF n

\* What a path checker may find.
Checked == {"UP", "GHOST", "DOWN"}

\* update_path_state()
LEMMA UpdateFalls ==
    ASSUME NEW m, MapOK(m), NEW p \in Paths, NEW newstate \in Checked,
           NEW ok \in BOOLEAN, NEW okq \in BOOLEAN
    PROVE  LET n == update_path_state(m, p, newstate, ok, okq) IN
           /\ MapOK(n) /\ (Tracks(m) => Tracks(n)) /\ Falls(m, n)
           /\ n.alive = m.alive /\ n.no_path_retry = m.no_path_retry
<1> USE DEF Checked
<1> DEFINE st  == [m.state EXCEPT ![p] = newstate]
           new == [m EXCEPT !.state = st]
           del == m.state[p] \in ActiveStates
           n   == update_path_state(m, p, newstate, ok, okq)
<1>1. /\ st \in [Paths -> PathStates] /\ st[p] = newstate
      /\ \A q \in Paths \ {p} : st[q] = m.state[q]
      /\ [m EXCEPT !.state[p] = newstate] = new
  BY DEF MapOK, MapRecord, PathStates, ActiveStates
<1>2. m.retry_tick \in Nat
  BY DEF MapOK, MapRecord
<1>3. CASE newstate = "DOWN"
  <2>1. n \in {new, fail_path(new, p, del, ok)}
    BY <1>1, <1>3 DEF update_path_state
  <2>2. \A q \in Paths : st[q] \in ActiveStates => m.state[q] \in ActiveStates
    BY <1>1, <1>3 DEF ActiveStates
  <2> HIDE DEF st, n
  <2>3. /\ MapOK(new) /\ (Tracks(m) => Tracks(new)) /\ Follows(m, new)
        /\ new.alive = m.alive /\ new.no_path_retry = m.no_path_retry
    BY <1>1, <2>2, DownFollows
  <2>8. del \in BOOLEAN
    OBVIOUS
  <2> HIDE DEF new, del
  <2>4. Keeps(new, fail_path(new, p, del, ok))
    BY <2>3, <2>8, FailKeeps
  <2>5. MapOK(n)
    BY <2>1, <2>3, <2>4 DEF Keeps
  <2>6. new.retry_tick \in Nat /\ n.retry_tick \in Nat
    BY <2>3, <2>5 DEF MapOK, MapRecord
  <2>7. Follows(m, n)
    BY <1>2, <2>1, <2>3, <2>4, <2>6 DEF Keeps, Follows
  <2> QED
    BY <2>1, <2>3, <2>4, <2>5, <2>7, FollowsFalls DEF n, Keeps
<1>4. CASE newstate \in ActiveStates
  <2>1. n \in {new, reinstate_path(new, p, ok, okq)}
    BY <1>1, <1>4 DEF update_path_state, ActiveStates
  <2> HIDE DEF n
  <2>2. new \in MapRecord
    BY <1>1 DEF MapOK, MapRecord
  <2>3. /\ new.alive = m.alive /\ new.no_path_retry = m.no_path_retry /\ new.state = st
        /\ new.in_recovery = m.in_recovery /\ new.retry_tick = m.retry_tick
        /\ new.queueing = m.queueing /\ new.features = m.features
    BY DEF MapOK, MapRecord
  <2> HIDE DEF new, st
  <2>4. MapOK(new) /\ UpPath(new) /\ (Tracks(m) => Tracks(new))
    BY <1>1, <1>4, <2>2, <2>3 DEF MapOK, UpPath, Tracks
  <2>5. LET r == reinstate_path(new, p, ok, okq)
        IN  Keeps(new, r) /\ (r.in_recovery => r.retry_tick = new.retry_tick)
    BY <2>4, ReinstateKeeps
  <2>6. /\ MapOK(n) /\ (Tracks(m) => Tracks(n)) /\ n.alive = m.alive
        /\ n.no_path_retry = m.no_path_retry /\ n.state = st
        /\ n.in_recovery => n.retry_tick = m.retry_tick
    BY <2>1, <2>3, <2>4, <2>5 DEF Keeps
  <2>7. UpPath(n)
    BY <1>1, <1>4, <2>6 DEF UpPath
  <2> QED
    BY <1>2, <2>6, <2>7 DEF n, Falls
<1> QED
  BY <1>3, <1>4 DEF ActiveStates

-----------------------------------------------------------------------------
\* The machine starts in the invariant.
LEMMA InitInv == Init => Inv
<1> SUFFICES ASSUME Init PROVE Inv
  OBVIOUS
<1>1. PICK q \in BOOLEAN, d \in [Paths -> DmStates] :
         map = [NewMap EXCEPT !.queueing = q, !.dm = d]
  BY DEF Init
<1>2. NewMap \in MapRecord /\ NewMap.alive = FALSE /\ NewMap.retry_tick = 0
  BY DEF NewMap, MapRecord, PathStates, DmStates, Features, NO_PATH_RETRY_UNDEF
<1>3. map \in MapRecord /\ map.alive = FALSE /\ map.retry_tick = 0
  BY <1>1, <1>2 DEF MapRecord
<1>4. /\ real \in [Paths -> Results] /\ conf \in ConfRetry
      /\ phase = "idle" /\ started = {}
  BY DEF Init
<1>5. checked \in BOOLEAN
  BY DEF Init
<1>6. TypeOK
  BY <1>3, <1>4, <1>5 DEF TypeOK
<1> QED
  BY <1>3, <1>6 DEF Inv

\* A step that takes the map to a good one and leaves the configuration.
GoodStep ==
    /\ MapOK(map')
    /\ map'.alive => Tracks(map') /\ map'.no_path_retry \in {conf, NO_PATH_RETRY_FAIL}
    /\ map.alive /\ map'.alive => Falls(map, map')
    /\ conf' = conf

LEMMA ConfType == ASSUME Inv PROVE conf \in Int
BY RetryAssumption DEF Inv, TypeOK, NO_PATH_RETRY_FAIL, NO_PATH_RETRY_QUEUE

LEMMA FaultTypes ==
    /\ Reads \subseteq BOOLEAN /\ Loads \subseteq BOOLEAN /\ Messages \subseteq BOOLEAN
BY DEF Reads, Loads, Messages

\* Whatever reload is possible, it leaves a good map.
LEMMA ReloadsGood ==
    ASSUME NEW m, MapOK(m), conf \in Int, NEW n \in Reloads(m)
    PROVE  /\ MapOK(n)
           /\ n.alive => Tracks(n) /\ Follows(m, n) /\ n.no_path_retry = conf
<1>1. PICK loaded \in Loads, read \in Reads, ok \in Messages, bad \in Bads :
         n = reload_and_sync_map(m, loaded, read, ok, bad)
  BY DEF Reloads
<1> QED
  BY <1>1, FaultTypes, ReloadSyncFollows

\* The checker loop.
LEMMA CheckerGood ==
    ASSUME Inv, Checker
    PROVE  GoodStep
<1>1. /\ MapOK(map) /\ conf \in Int
      /\ map.alive => Tracks(map) /\ map.no_path_retry \in {conf, NO_PATH_RETRY_FAIL}
  BY ConfType DEF Inv, TypeOK, MapOK
<1>2. map.retry_tick \in Nat
  BY <1>1 DEF MapOK, MapRecord
<1>3. ASSUME UNCHANGED <<map, conf>> PROVE GoodStep
  <2>1. Follows(map, map)
    BY <1>2 DEF Follows
  <2> QED
    BY <1>1, <1>3, <2>1, FollowsFalls DEF GoodStep
<1>4. ASSUME NEW S \in SUBSET Paths, check_paths(S) PROVE GoodStep
  BY <1>3, <1>4 DEF check_paths
<1>5. ASSUME NEW p \in Paths, SkipPath(p) PROVE GoodStep
  BY <1>3, <1>5 DEF SkipPath
<1>6. ASSUME NEW p \in Paths, update_path(p) PROVE GoodStep
  <2>1. PICK ok \in Messages, okq \in Messages : map' = update_path_state(map, p, real[p], ok, okq)
    BY <1>6 DEF update_path
  <2>2. real[p] \in Checked
    BY ResultsAssumption DEF Inv, TypeOK, Checked
  <2>3. /\ MapOK(map') /\ (Tracks(map) => Tracks(map')) /\ Falls(map, map')
        /\ map'.alive = map.alive /\ map'.no_path_retry = map.no_path_retry
    <3>1. ok \in BOOLEAN /\ okq \in BOOLEAN
      BY FaultTypes
    <3>2. MapOK(map)
      BY <1>1
    <3>3. LET n == update_path_state(map, p, real[p], ok, okq) IN
          /\ MapOK(n) /\ (Tracks(map) => Tracks(n)) /\ Falls(map, n)
          /\ n.alive = map.alive /\ n.no_path_retry = map.no_path_retry
      BY <2>2, <3>1, <3>2, UpdateFalls
    <3> QED
      BY <2>1, <3>3
  <2> QED
    BY <1>1, <1>6, <2>3 DEF GoodStep, update_path
<1>7. CASE checker_finished
  <2>1. CASE ~map.alive
    BY <1>3, <1>7, <2>1 DEF checker_finished
  <2>2. CASE map.alive
    <3>1. PICK synced \in sync_mpp(map) : \E m \in {synced} \cup Reloads(synced), ok \in Messages :
             map' = IF m.alive THEN retry_count_tick(m, ok) ELSE m
      BY <1>7, <2>2 DEF checker_finished
    <3>2. PICK m \in {synced} \cup Reloads(synced), ok \in Messages :
             map' = IF m.alive THEN retry_count_tick(m, ok) ELSE m
      BY <3>1
    <3>3. /\ MapOK(synced) /\ Tracks(synced) /\ Follows(map, synced)
          /\ synced.no_path_retry \in {conf, NO_PATH_RETRY_FAIL}
      <4>1. CASE synced = map
        BY <1>1, <1>2, <2>2, <4>1 DEF Follows
      <4>2. CASE \E read \in Reads, okq \in Messages : synced = do_sync_mpp(map, read, okq)
        <5>1. PICK read \in Reads, okq \in Messages : synced = do_sync_mpp(map, read, okq)
          BY <4>2
        <5>2. read \in BOOLEAN /\ okq \in BOOLEAN
          BY FaultTypes
        <5>3. /\ MapOK(synced) /\ Tracks(synced) /\ Follows(map, synced)
              /\ synced.no_path_retry = map.no_path_retry
          BY <1>1, <5>1, <5>2, DoSyncFollows
        <5> QED
          BY <1>1, <2>2, <5>3
      <4> QED
        BY <4>1, <4>2 DEF sync_mpp
    <3>4. /\ MapOK(m)
          /\ m.alive => /\ Tracks(m) /\ Follows(synced, m)
                        /\ m.no_path_retry \in {conf, NO_PATH_RETRY_FAIL}
      <4>1. CASE m = synced
        BY <3>3, <4>1 DEF Follows, MapOK, MapRecord
      <4>2. CASE m \in Reloads(synced)
        BY <1>1, <3>3, <4>2, ReloadsGood
      <4> QED
        BY <3>2, <4>1, <4>2
    <3>5. CASE m.alive
      <4>1. Keeps(m, map')
        BY <3>2, <3>4, <3>5, FaultTypes, TickKeeps
      <4>2. /\ synced.retry_tick \in Nat /\ m.retry_tick \in Nat /\ map'.retry_tick \in Nat
        BY <3>3, <3>4, <4>1 DEF MapOK, MapRecord, Keeps
      <4>3. Follows(map, map')
        BY <1>2, <3>3, <3>4, <3>5, <4>1, <4>2 DEF Keeps, Follows
      <4> QED
        BY <1>7, <3>4, <3>5, <4>1, <4>3, FollowsFalls DEF GoodStep, Keeps, checker_finished
    <3>6. CASE ~m.alive
      BY <1>7, <3>2, <3>4, <3>6 DEF GoodStep, checker_finished
    <3> QED
      BY <3>5, <3>6
  <2> QED
    BY <2>1, <2>2
<1> QED
  BY <1>4, <1>5, <1>6, <1>7 DEF Checker

\* Events, commands and the world outside.
LEMMA OthersGood ==
    ASSUME Inv,
           \/ update_multipath \/ update_map \/ cli_disable_queueing \/ cli_restore_queueing
           \/ \E p \in Paths : \/ cli_fail(p) \/ cli_reinstate(p) \/ KernelFails(p)
                               \/ \E s \in Results : RealChanges(p, s)
    PROVE  GoodStep
<1>1. /\ MapOK(map) /\ conf \in Int
      /\ map.alive => Tracks(map) /\ map.no_path_retry \in {conf, NO_PATH_RETRY_FAIL}
  BY ConfType DEF Inv, TypeOK, MapOK
<1>2. map.retry_tick \in Nat
  BY <1>1 DEF MapOK, MapRecord
<1>3. CASE update_multipath
  <2>1. PICK read \in Reads, ok \in Messages :
           LET setup == setup_multipath(map, read, ok)
           IN  map' = IF setup.alive THEN MarkFailed(setup) ELSE setup
    BY <1>3 DEF update_multipath
  <2> DEFINE setup == setup_multipath(map, read, ok)
  <2>2. /\ MapOK(setup)
        /\ setup.alive => /\ Tracks(setup) /\ Follows(map, setup)
                          /\ setup.no_path_retry = map.no_path_retry
    BY <1>1, FaultTypes, SetupKeeps
  <2>3. map' = IF setup.alive THEN MarkFailed(setup) ELSE setup
    BY <2>1
  <2>9. map.alive /\ conf' = conf
    BY <1>3 DEF update_multipath
  <2> HIDE DEF setup
  <2>4. CASE ~setup.alive
    BY <2>2, <2>3, <2>4, <2>9 DEF GoodStep
  <2>5. CASE setup.alive
    <3>1. /\ MapOK(map') /\ Tracks(map') /\ Follows(setup, map')
          /\ map'.no_path_retry = map.no_path_retry
      BY <2>2, <2>3, <2>5, MarkFailedFollows
    <3>2. setup.retry_tick \in Nat /\ map'.retry_tick \in Nat
      BY <2>2, <3>1 DEF MapOK, MapRecord
    <3>3. Follows(map, map')
      BY <1>2, <2>2, <2>5, <3>1, <3>2 DEF Follows
    <3> QED
      BY <1>1, <2>9, <3>1, <3>3, FollowsFalls DEF GoodStep
  <2> QED
    BY <2>4, <2>5
<1>4. CASE update_map
  <2>1. PICK S \in SUBSET Paths : map' \in Reloads(Registered(S))
    BY <1>4 DEF update_map
  <2>2. Registered(S) \in MapRecord /\ Registered(S).retry_tick = 0
    <3>1. NewMap \in MapRecord /\ NewMap.retry_tick = 0
      BY DEF NewMap, MapRecord, PathStates, DmStates, Features, NO_PATH_RETRY_UNDEF
    <3>2. real \in [Paths -> PathStates]
      BY ResultsAssumption DEF Inv, TypeOK, PathStates, ActiveStates
    <3>3. [p \in Paths |-> IF p \in S THEN "PENDING" ELSE real[p]] \in [Paths -> PathStates]
      BY <3>2 DEF PathStates
    <3>4. map.queueing \in BOOLEAN /\ map.dm \in [Paths -> DmStates]
      BY <1>1 DEF MapOK, MapRecord
    <3> QED
      BY <3>1, <3>3, <3>4 DEF Registered, MapRecord
  <2>3. MapOK(Registered(S))
    BY <2>2 DEF MapOK
  <2>4. MapOK(map') /\ (map'.alive => Tracks(map') /\ map'.no_path_retry = conf)
    BY <1>1, <2>1, <2>3, ReloadsGood
  <2> QED
    BY <1>4, <2>4 DEF GoodStep, update_map
<1>5. CASE cli_disable_queueing
  <2> DEFINE m == [map EXCEPT !.retry_tick = 0, !.no_path_retry = NO_PATH_RETRY_FAIL,
                              !.disable_queueing = TRUE]
  <2>1. PICK ok \in Messages : map' = set_no_path_retry(m, ok)
    BY <1>5 DEF cli_disable_queueing
  <2>2. m \in MapRecord
    <3>1. NO_PATH_RETRY_FAIL \in Int /\ 0 \in Nat
      BY DEF NO_PATH_RETRY_FAIL
    <3> QED
      BY <1>1, <3>1 DEF MapOK, MapRecord
  <2>3. /\ m.retry_tick = 0 /\ m.no_path_retry = NO_PATH_RETRY_FAIL /\ m.state = map.state
        /\ m.alive = map.alive /\ m.features = map.features /\ m.queueing = map.queueing
        /\ m.in_recovery = map.in_recovery
    BY <1>1 DEF MapOK, MapRecord
  <2>4. map.alive /\ conf' = conf
    BY <1>5 DEF cli_disable_queueing
  <2> HIDE DEF m
  <2>5. MapOK(m) /\ Tracks(m)
    BY <1>1, <2>2, <2>3, <2>4 DEF MapOK, Tracks
  <2>6. Keeps(m, map')
    BY <2>1, <2>5, FaultTypes, SetKeeps
  <2>7. map' \in {m, dm_queue_if_no_path(m, FALSE, ok)}
    BY <2>1, <2>3 DEF set_no_path_retry, NO_PATH_RETRY_FAIL, NO_PATH_RETRY_UNDEF
  <2>8. map'.queueing => map.queueing
    <3>1. ok \in BOOLEAN
      BY FaultTypes
    <3>2. dm_queue_if_no_path(m, FALSE, ok).queueing => m.queueing \/ FALSE
      BY <2>5, <3>1, QueueFields
    <3> QED
      BY <2>3, <2>7, <3>2
  <2>9. Falls(map, map')
    <3>1. Lost(map) => Lost(m)
      BY <2>3 DEF Lost, UpPath
    <3>2. Lost(m) => map'.retry_tick <= m.retry_tick
      BY <2>6 DEF Keeps, Follows
    <3>3. map'.retry_tick \in Nat
      BY <2>6 DEF Keeps, MapOK, MapRecord
    <3> QED
      BY <1>2, <2>3, <2>8, <3>1, <3>2, <3>3 DEF Falls, Over
  <2> QED
    BY <2>3, <2>4, <2>5, <2>6, <2>9 DEF GoodStep, Keeps
<1>6. CASE cli_restore_queueing
  <2> DEFINE m == [map EXCEPT !.disable_queueing = FALSE, !.no_path_retry = conf]
  <2>1. PICK ok \in Messages : map' = set_no_path_retry(m, ok)
    BY <1>6 DEF cli_restore_queueing
  <2>2. m \in MapRecord
    BY <1>1 DEF MapOK, MapRecord
  <2>3. /\ m.retry_tick = map.retry_tick /\ m.no_path_retry = conf /\ m.state = map.state
        /\ m.alive = map.alive /\ m.features = map.features /\ m.queueing = map.queueing
        /\ m.in_recovery = map.in_recovery
    BY <1>1 DEF MapOK, MapRecord
  <2>4. map.alive /\ conf' = conf
    BY <1>6 DEF cli_restore_queueing
  <2> HIDE DEF m
  <2>5. MapOK(m) /\ Tracks(m) /\ Follows(map, m)
    BY <1>1, <1>2, <2>2, <2>3, <2>4 DEF MapOK, Tracks, Follows, Lost, Over, UpPath
  <2>6. Keeps(m, map')
    BY <2>1, <2>5, FaultTypes, SetKeeps
  <2>7. m.retry_tick \in Nat /\ map'.retry_tick \in Nat
    BY <2>2, <2>6 DEF Keeps, MapOK, MapRecord
  <2>8. Follows(map, map')
    BY <1>2, <2>5, <2>6, <2>7 DEF Keeps, Follows
  <2> QED
    BY <2>3, <2>4, <2>5, <2>6, <2>8, FollowsFalls DEF GoodStep, Keeps
<1>7. ASSUME NEW p \in Paths, cli_fail(p) \/ cli_reinstate(p) \/ KernelFails(p)
      PROVE  GoodStep
  <2>1. /\ map' \in MapRecord /\ conf' = conf
        /\ map'.alive = map.alive /\ map'.no_path_retry = map.no_path_retry
        /\ map'.in_recovery = map.in_recovery /\ map'.retry_tick = map.retry_tick
        /\ map'.queueing = map.queueing /\ map'.features = map.features
        /\ \A q \in Paths : map'.state[q] \in ActiveStates => map.state[q] \in ActiveStates
    <3>1. CASE cli_fail(p)
      BY <1>1, <3>1 DEF cli_fail, MapOK, MapRecord, DmStates
    <3>2. CASE cli_reinstate(p)
      <4>1. PICK ok \in Messages :
               map' = [map EXCEPT !.enabled[p] = TRUE, !.state[p] = "UNCHECKED",
                                  !.dm[p] = IF ok THEN "ACTIVE" ELSE @]
        BY <3>2 DEF cli_reinstate
      <4>2. conf' = conf /\ map \in MapRecord
        BY <1>1, <3>2 DEF cli_reinstate, MapOK
      <4>3. "UNCHECKED" \in PathStates \ ActiveStates /\ "ACTIVE" \in DmStates
        BY DEF PathStates, ActiveStates, DmStates
      <4>4. map' \in MapRecord
        BY <4>1, <4>2, <4>3 DEF MapRecord
      <4> QED
        BY <4>1, <4>2, <4>3, <4>4 DEF MapRecord
    <3>3. CASE KernelFails(p)
      BY <1>1, <3>3 DEF KernelFails, MapOK, MapRecord, DmStates
    <3> QED
      BY <1>7, <3>1, <3>2, <3>3
  <2>2. MapOK(map') /\ Follows(map, map') /\ (Tracks(map) => Tracks(map'))
    BY <1>1, <1>2, <2>1 DEF MapOK, Follows, Lost, Over, UpPath, Tracks
  <2> QED
    BY <1>1, <2>1, <2>2, FollowsFalls DEF GoodStep
<1>8. ASSUME NEW p \in Paths, NEW s \in Results, RealChanges(p, s) PROVE GoodStep
  <2>1. Follows(map, map) /\ map' = map /\ conf' = conf
    BY <1>2, <1>8 DEF Follows, RealChanges
  <2> QED
    BY <1>1, <2>1, FollowsFalls DEF GoodStep
<1> QED
  BY <1>3, <1>4, <1>5, <1>6, <1>7, <1>8

\* Every step is good, and keeps the rest of the types.
LEMMA NextGood ==
    ASSUME Inv, [Next]_vars
    PROVE  GoodStep
<1>1. CASE Next
  BY <1>1, CheckerGood, OthersGood DEF Next
<1>2. CASE UNCHANGED vars
  <2>1. map' = map /\ conf' = conf
    BY <1>2 DEF vars
  <2>2. Follows(map, map)
    BY DEF Follows, Inv, TypeOK, MapRecord
  <2> QED
    BY <2>1, <2>2, FollowsFalls DEF GoodStep, Inv, TypeOK, MapOK
<1> QED
  BY <1>1, <1>2

LEMMA RestTypes ==
    ASSUME Inv, [Next]_vars
    PROVE  /\ real' \in [Paths -> Results]
           /\ phase' \in {"idle", "update"}
           /\ started' \subseteq Paths
           /\ checked' \in BOOLEAN
<1> USE DEF Inv, TypeOK
<1>1. ASSUME NEW S \in SUBSET Paths, check_paths(S)
      PROVE  /\ real' = real /\ phase' = "update" /\ started' \subseteq Paths
             /\ checked' \in BOOLEAN
  BY <1>1 DEF check_paths
<1>2. ASSUME NEW p \in Paths, update_path(p) \/ SkipPath(p)
      PROVE  real' = real /\ phase' = phase /\ started' \subseteq Paths /\ checked' = checked
  BY <1>2 DEF update_path, SkipPath
<1>3. ASSUME checker_finished
      PROVE  real' = real /\ phase' = "idle" /\ started' = started /\ checked' = checked
  BY <1>3 DEF checker_finished
<1>4. ASSUME update_map
      PROVE  real' = real /\ phase' = phase /\ started' = started /\ checked' = FALSE
  BY <1>4 DEF update_map
<1>5. ASSUME NEW p \in Paths, NEW s \in Results, RealChanges(p, s)
      PROVE  real' \in [Paths -> Results] /\ UNCHANGED loop
  BY <1>5 DEF RealChanges
<1>6. ASSUME update_multipath \/ cli_disable_queueing \/ cli_restore_queueing
      PROVE  real' = real /\ UNCHANGED loop
  BY <1>6 DEF update_multipath, cli_disable_queueing, cli_restore_queueing
<1>7. ASSUME NEW p \in Paths, cli_fail(p) \/ cli_reinstate(p) \/ KernelFails(p)
      PROVE  real' = real /\ UNCHANGED loop
  BY <1>7 DEF cli_fail, cli_reinstate, KernelFails
<1>8. CASE UNCHANGED vars
  BY <1>8 DEF vars, loop
<1> QED
  BY <1>1, <1>2, <1>3, <1>4, <1>5, <1>6, <1>7, <1>8 DEF Next, Checker, loop

LEMMA NextInv == Inv /\ [Next]_vars => Inv'
<1> SUFFICES ASSUME Inv, [Next]_vars PROVE Inv'
  OBVIOUS
<1>1. GoodStep
  BY NextGood
<1>2. /\ real' \in [Paths -> Results] /\ phase' \in {"idle", "update"}
      /\ started' \subseteq Paths /\ checked' \in BOOLEAN
  BY RestTypes
<1>3. TypeOK'
  BY <1>1, <1>2 DEF GoodStep, MapOK, Inv, TypeOK
<1> QED
  BY <1>1, <1>3 DEF GoodStep, Inv, Tracks

-----------------------------------------------------------------------------
\* The inductive invariant holds, whatever the events, commands and faults.
THEOREM InvHolds == Spec => []Inv
BY InitInv, NextInv, PTL DEF Spec

\* The variables keep their types, and retry_tick counts only in recovery
\* mode.
THEOREM TypeOKHolds == Spec => []TypeOK
<1>1. Inv => TypeOK
  BY DEF Inv
<1> QED
  BY <1>1, InvHolds, PTL

\* multipathd is never wrong about whether the kernel queues.
THEOREM FeaturesTrackKernelHolds == Spec => []FeaturesTrackKernel
<1>1. Inv => FeaturesTrackKernel
  BY DEF Inv, Tracks, FeaturesTrackKernel
<1> QED
  BY <1>1, InvHolds, PTL

\* Nothing prolongs the recovery mode of a map without a working path.
THEOREM CountdownOnlyFallsHolds == Spec => CountdownOnlyFalls
<1>1. ASSUME Inv, [Next]_vars
      PROVE  [map.alive /\ map.in_recovery /\ ~UpPath(map) /\ map'.alive /\ map'.in_recovery
                 => map'.retry_tick <= map.retry_tick]_vars
  BY <1>1, NextGood DEF GoodStep, Falls, Lost
<1> QED
  BY <1>1, InvHolds, PTL DEF Spec, CountdownOnlyFalls

\* A map past its recovery mode does not queue before a path of it works.
THEOREM StaysTimedOutHolds == Spec => StaysTimedOut
<1>1. ASSUME Inv, [Next]_vars
      PROVE  [TimedOut(map) /\ ~map.queueing /\ map'.queueing /\ map'.alive
                 => UpPath(map) \/ UpPath(map')]_vars
  <2> SUFFICES ASSUME TimedOut(map), ~map.queueing, map'.queueing, map'.alive, ~UpPath(map)
               PROVE  UpPath(map')
    OBVIOUS
  <2>1. GoodStep
    BY <1>1, NextGood
  <2>2. map.no_path_retry = conf /\ conf > 0
    BY <1>1 DEF Inv, TimedOut, NO_PATH_RETRY_FAIL
  <2>3. Over(map)
    BY <2>2 DEF TimedOut, Over, Lost
  <2> QED
    BY <2>1, <2>3 DEF GoodStep, Falls, TimedOut
<1> QED
  BY <1>1, InvHolds, PTL DEF Spec, StaysTimedOut
=============================================================================
