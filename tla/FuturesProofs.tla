---------------------------- MODULE FuturesProofs ----------------------------
(* Proofs about the executor of Futures, for any number of tasks, yields     *)
(* and calls, any first capacity of the Vec and any strategy.                *)
EXTENDS Futures, FiniteSetTheorems, TLAPS

Polling == {"loop", "running"}

\* The inductive invariant.  Handles and suspensions name spawned tasks, so
\* that an entry that is None is one whose future has returned Ready.
HandlesInv == \A i \in Tasks : handles[i] \subseteq Tasks /\ waits[i] \in Tasks \cup {0}
LiveInv == pc \in Polling => Live = Tasks \ finished
CountInv == pc \in Polling => num_running = Cardinality(Live)
CurrentInv == pc = "running" => Current \in Tasks /\ tasks[Current] = "Some"
VecInv == Len(tasks) > 0 => capacity >= MinCapacity

SchedulerInv ==
    /\ TypeOK
    /\ HandlesInv
    /\ LiveInv
    /\ CountInv
    /\ CurrentInv
    /\ VecInv
    /\ AllComplete
    /\ JoinSound

-----------------------------------------------------------------------------

\* The entries that are Some are at most as many as the tasks.
LEMMA LiveFinite ==
    ASSUME tasks \in Seq({"Some", "None"})
    PROVE  /\ IsFiniteSet(Live)
           /\ Cardinality(Live) \in Nat
           /\ Cardinality(Live) <= Len(tasks)
  <1>1. Len(tasks) \in Nat
    OBVIOUS
  <1>2. IsFiniteSet(1..Len(tasks)) /\ Cardinality(1..Len(tasks)) = Len(tasks)
    BY <1>1, FS_Interval
  <1>3. Live \in SUBSET (1..Len(tasks))
    BY DEF Live, Tasks
  <1>4. IsFiniteSet(Live) /\ Cardinality(Live) <= Cardinality(1..Len(tasks))
    BY <1>2, <1>3, FS_Subset
  <1>5. Cardinality(Live) \in Nat
    BY <1>4, FS_CardinalityType
  <1> QED
    BY <1>2, <1>4, <1>5

\* The index a strategy picks is that of an entry of the list.
LEMMA PickedInRange ==
    ASSUME TypeOK, Len(tasks) > 0, NEW i \in 0..MaxTasks - 1, Picks(i)
    PROVE  i + 1 \in Tasks
  <1>1. Len(tasks) \in Nat \ {0} /\ index \in Nat
    BY DEF TypeOK
  <1>2. (index + 1) % Len(tasks) \in 0..Len(tasks) - 1
    BY <1>1
  <1> QED
    BY <1>1, <1>2 DEF Picks, NextIndex, Tasks

\* Before the first block_on_with_spawn there is no task to count.
LEMMA InitInv == Init => SchedulerInv
  <1> SUFFICES ASSUME Init PROVE SchedulerInv
    OBVIOUS
  <1> USE FuturesAssumption DEF Init, Tasks, Live
  <1>1. TypeOK
    <2>1. /\ tasks \in Seq({"Some", "None"}) /\ Len(tasks) = 0
          /\ handles \in Seq(SUBSET (1..MaxTasks)) /\ Len(handles) = 0
          /\ waits \in Seq(0..MaxTasks) /\ Len(waits) = 0
      OBVIOUS
    <2>2. /\ num_running \in 0..MaxTasks /\ yields \in 0..MaxYields /\ calls \in 0..MaxCalls
          /\ finished \subseteq Tasks /\ joined \subseteq 1..MaxTasks
      OBVIOUS
    <2>3. /\ strategy \in Strategies /\ active \in BOOLEAN /\ dangling \in BOOLEAN
          /\ capacity \in Nat /\ index \in Nat
          /\ pc \in {"outside", "loop", "running", "undefined", "panicked"}
      OBVIOUS
    <2> HIDE DEF Init, Tasks
    <2> QED
      BY <2>1, <2>2, <2>3 DEF TypeOK
  <1>2. HandlesInv /\ LiveInv /\ CountInv /\ CurrentInv
    BY DEF HandlesInv, LiveInv, CountInv, CurrentInv, Polling
  <1>3. VecInv /\ AllComplete /\ JoinSound
    BY DEF VecInv, AllComplete, JoinSound
  <1> QED
    BY <1>1, <1>2, <1>3 DEF SchedulerInv

\* A new scheduler has one task, which runs.
LEMMA BlockOnStep == SchedulerInv /\ BlockOnWithSpawn => SchedulerInv'
  <1> SUFFICES ASSUME SchedulerInv, BlockOnWithSpawn PROVE SchedulerInv'
    OBVIOUS
  <1> USE FuturesAssumption DEF BlockOnWithSpawn
  <1>1. tasks' = <<"Some">> /\ Len(tasks') = 1 /\ tasks'[1] = "Some"
    OBVIOUS
  <1>2. Tasks' = {1} /\ Live' = {1}
    BY <1>1 DEF Tasks, Live
  <1>3. TypeOK'
    <2>1. /\ tasks' \in Seq({"Some", "None"})
          /\ handles' \in Seq(SUBSET (1..MaxTasks)) /\ Len(handles') = 1
          /\ waits' \in Seq(0..MaxTasks) /\ Len(waits') = 1
      OBVIOUS
    <2>2. /\ num_running' \in 0..MaxTasks /\ yields' \in 0..MaxYields /\ calls' \in 0..MaxCalls
          /\ finished' \subseteq Tasks' /\ joined' \subseteq 1..MaxTasks
          /\ capacity' \in Nat
      BY DEF SchedulerInv, TypeOK
    <2>3. /\ strategy' \in Strategies /\ active' \in BOOLEAN /\ dangling' \in BOOLEAN
          /\ index' \in Nat
          /\ pc' \in {"outside", "loop", "running", "undefined", "panicked"}
      BY DEF SchedulerInv, TypeOK
    <2> HIDE DEF BlockOnWithSpawn
    <2> QED
      BY <1>1, <2>1, <2>2, <2>3 DEF TypeOK
  <1>4. Cardinality(Live') = 1
    BY <1>2, FS_Singleton
  <1>5. HandlesInv'
    BY <1>2 DEF HandlesInv
  <1>6. LiveInv' /\ CountInv'
    BY <1>2, <1>4 DEF LiveInv, CountInv, Polling
  <1>7. CurrentInv' /\ VecInv' /\ AllComplete' /\ JoinSound'
    BY <1>1 DEF CurrentInv, VecInv, AllComplete, JoinSound
  <1> QED
    BY <1>3, <1>5, <1>6, <1>7 DEF SchedulerInv

\* A panic of the harness leaves the scheduler as it is.
LEMMA PanicStep == SchedulerInv /\ (SpawnOutside \/ Nested) => SchedulerInv'
  <1> SUFFICES ASSUME SchedulerInv, SpawnOutside \/ Nested PROVE SchedulerInv'
    OBVIOUS
  <1>1. /\ pc' = "panicked"
        /\ UNCHANGED <<strategy, active, tasks, num_running, capacity, index, dangling,
                       handles, waits, yields, calls, finished, joined>>
    BY DEF SpawnOutside, Nested
  <1>2. TypeOK' /\ Tasks' = Tasks
    BY <1>1 DEF SchedulerInv, TypeOK, Tasks
  <1>3. HandlesInv' /\ JoinSound'
    BY <1>1, <1>2 DEF SchedulerInv, HandlesInv, JoinSound
  <1>4. LiveInv' /\ CountInv' /\ CurrentInv' /\ VecInv' /\ AllComplete'
    BY <1>1 DEF SchedulerInv, LiveInv, CountInv, CurrentInv, VecInv, AllComplete, Polling
  <1> QED
    BY <1>2, <1>3, <1>4 DEF SchedulerInv

\* A handle that is Ready is that of a task whose future has returned Ready.
LEMMA ReadyMeansFinished ==
    ASSUME SchedulerInv, pc \in Polling, NEW j \in Tasks, JoinReady(j)
    PROVE  j \in finished
  BY DEF SchedulerInv, LiveInv, Live, JoinReady

\* A pick resumes a task, or polls one that is waiting or None for nothing.
LEMMA PickStep == ASSUME NEW i \in 0..MaxTasks - 1
                  PROVE  SchedulerInv /\ Pick(i) => SchedulerInv'
  <1> SUFFICES ASSUME SchedulerInv, Pick(i) PROVE SchedulerInv'
    OBVIOUS
  <1> DEFINE resumes == tasks[i + 1] = "Some" /\ (waits[i + 1] # 0 => JoinReady(waits[i + 1]))
  <1>1. /\ pc = "loop" /\ num_running > 0 /\ Picks(i)
        /\ index' = i /\ dangling' = FALSE
        /\ pc' = IF resumes THEN "running" ELSE "loop"
        /\ joined' = IF resumes THEN joined \cup ({waits[i + 1]} \ {0}) ELSE joined
        /\ waits' = IF resumes THEN [waits EXCEPT ![i + 1] = 0] ELSE waits
        /\ UNCHANGED <<strategy, active, tasks, num_running, capacity, handles, yields,
                       calls, finished>>
    BY DEF Pick
  <1>2. Len(tasks) > 0
    <2>1. Cardinality(Live) > 0 /\ Cardinality(Live) <= Len(tasks) /\ Cardinality(Live) \in Nat
      BY <1>1, LiveFinite DEF SchedulerInv, CountInv, TypeOK, Polling
    <2> QED
      BY <2>1 DEF SchedulerInv, TypeOK
  <1>3. i + 1 \in Tasks /\ i \in Nat
    BY <1>1, <1>2, PickedInRange DEF SchedulerInv
  <1>4. Tasks' = Tasks /\ Live' = Live
    BY <1>1 DEF Tasks, Live
  <1>5. waits[i + 1] \in Tasks \cup {0}
    BY <1>3 DEF SchedulerInv, HandlesInv
  <1>6. resumes => ({waits[i + 1]} \ {0}) \subseteq finished
    BY <1>1, <1>5, ReadyMeansFinished DEF Polling
  <1>7. Tasks \subseteq 1..MaxTasks
    BY FuturesAssumption DEF SchedulerInv, TypeOK, Tasks
  <1>8. /\ waits' \in Seq(0..MaxTasks) /\ Len(waits') = Len(waits)
        /\ \A k \in Tasks : waits'[k] \in Tasks \cup {0}
    BY <1>1, <1>3, FuturesAssumption DEF SchedulerInv, TypeOK, HandlesInv, Tasks
  <1>9. joined' \subseteq finished /\ finished \subseteq Tasks
    BY <1>1, <1>6 DEF SchedulerInv, JoinSound, TypeOK
  <1> HIDE DEF resumes
  <1>10. TypeOK'
    BY <1>1, <1>3, <1>4, <1>7, <1>8, <1>9 DEF SchedulerInv, TypeOK
  <1>11. HandlesInv' /\ JoinSound'
    BY <1>1, <1>4, <1>8, <1>9 DEF SchedulerInv, HandlesInv, JoinSound
  <1>12. LiveInv' /\ CountInv'
    BY <1>1, <1>4 DEF SchedulerInv, LiveInv, CountInv, Polling
  <1>13. CurrentInv'
    BY <1>1, <1>3, <1>4 DEF CurrentInv, Current, resumes
  <1>14. VecInv' /\ AllComplete'
    BY <1>1 DEF SchedulerInv, VecInv, AllComplete
  <1> QED
    BY <1>10, <1>11, <1>12, <1>13, <1>14 DEF SchedulerInv

\* A task that ends is one of those that are counted.
LEMMA ReadyStep == SchedulerInv /\ Ready => SchedulerInv'
  <1> SUFFICES ASSUME SchedulerInv, Ready PROVE SchedulerInv'
    OBVIOUS
  <1>1. /\ pc = "running" /\ num_running' = num_running - 1
        /\ finished' = finished \cup {Current}
        /\ UNCHANGED <<strategy, active, capacity, index, dangling, waits, yields, calls, joined>>
    BY DEF Ready
  <1>2. Current \in Tasks /\ tasks[Current] = "Some" /\ Current \in Live
    BY <1>1 DEF SchedulerInv, CurrentInv, Live
  <1>3. IsFiniteSet(Live) /\ num_running = Cardinality(Live)
    BY <1>1, LiveFinite DEF SchedulerInv, TypeOK, CountInv, Polling
  <1>4. IsFiniteSet(Live \ {Current}) /\ Cardinality(Live \ {Current}) = num_running - 1
    BY <1>2, <1>3, FS_RemoveElement
  <1>5. num_running' = Cardinality(Live \ {Current}) /\ num_running' \in Nat
    BY <1>1, <1>4, FS_CardinalityType
  <1>6. num_running' \in 0..MaxTasks
    BY <1>1, <1>5, FuturesAssumption DEF SchedulerInv, TypeOK
  <1>7. CASE dangling
    <2>1. pc' = "undefined" /\ UNCHANGED <<tasks, handles>>
      BY <1>7 DEF Ready
    <2>2. Tasks' = Tasks
      BY <2>1 DEF Tasks
    <2>3. TypeOK'
      BY <1>1, <1>2, <1>6, <2>1, <2>2 DEF SchedulerInv, TypeOK
    <2>4. HandlesInv' /\ JoinSound'
      BY <1>1, <2>1, <2>2 DEF SchedulerInv, HandlesInv, JoinSound
    <2>5. LiveInv' /\ CountInv' /\ CurrentInv' /\ VecInv' /\ AllComplete'
      BY <1>1, <1>7, <2>1
      DEF SchedulerInv, LiveInv, CountInv, CurrentInv, VecInv, AllComplete, Polling
    <2> QED
      BY <2>3, <2>4, <2>5 DEF SchedulerInv
  <1>8. CASE ~dangling
    <2>1. /\ pc' = "loop"
          /\ tasks' = [tasks EXCEPT ![Current] = "None"]
          /\ handles' = [handles EXCEPT ![Current] = {}]
      BY <1>8 DEF Ready
    <2>2. tasks' \in Seq({"Some", "None"}) /\ Len(tasks') = Len(tasks)
      BY <1>2, <2>1 DEF SchedulerInv, TypeOK, Tasks
    <2>3. handles' \in Seq(SUBSET (1..MaxTasks)) /\ Len(handles') = Len(handles)
      BY <1>2, <2>1 DEF SchedulerInv, TypeOK, Tasks
    <2>4. Tasks' = Tasks
      BY <2>2 DEF Tasks
    <2>5. \A k \in Tasks : tasks'[k] = IF k = Current THEN "None" ELSE tasks[k]
      BY <1>2, <2>1 DEF SchedulerInv, TypeOK, Tasks
    <2>6. \A k \in Tasks : handles'[k] \subseteq handles[k]
      BY <1>2, <2>1 DEF SchedulerInv, TypeOK, Tasks
    <2>7. Live' = Live \ {Current}
      BY <2>4, <2>5 DEF Live
    <2>8. TypeOK'
      BY <1>1, <1>2, <1>6, <2>1, <2>2, <2>3, <2>4 DEF SchedulerInv, TypeOK
    <2>9. HandlesInv' /\ JoinSound'
      BY <1>1, <2>4, <2>6 DEF SchedulerInv, HandlesInv, JoinSound
    <2>10. LiveInv'
      BY <1>1, <1>2, <2>4, <2>7 DEF SchedulerInv, LiveInv, Polling
    <2>11. CountInv'
      BY <1>5, <2>7 DEF CountInv
    <2>12. CurrentInv' /\ VecInv' /\ AllComplete'
      BY <1>1, <2>1, <2>2 DEF SchedulerInv, CurrentInv, VecInv, AllComplete
    <2> QED
      BY <2>8, <2>9, <2>10, <2>11, <2>12 DEF SchedulerInv
  <1> QED
    BY <1>7, <1>8

\* With no task left to count, every task has returned Ready.
LEMMA ReturnStep == SchedulerInv /\ Return => SchedulerInv'
  <1> SUFFICES ASSUME SchedulerInv, Return PROVE SchedulerInv'
    OBVIOUS
  <1>1. /\ pc = "loop" /\ num_running = 0 /\ active' = FALSE /\ pc' = "outside"
        /\ UNCHANGED <<strategy, tasks, num_running, capacity, index, dangling, handles, waits,
                       yields, calls, finished, joined>>
    BY DEF Return
  <1>2. Tasks' = Tasks
    BY <1>1 DEF Tasks
  <1>3. IsFiniteSet(Live) /\ Cardinality(Live) = 0
    BY <1>1, LiveFinite DEF SchedulerInv, TypeOK, CountInv, Polling
  <1>4. Live = {}
    BY <1>3, FS_EmptySet
  <1>5. Live = Tasks \ finished /\ finished \subseteq Tasks
    BY <1>1 DEF SchedulerInv, LiveInv, TypeOK, Polling
  <1>6. AllComplete'
    BY <1>1, <1>2, <1>4, <1>5 DEF AllComplete
  <1>7. TypeOK'
    BY <1>1, <1>2 DEF SchedulerInv, TypeOK
  <1>8. HandlesInv' /\ JoinSound'
    BY <1>1, <1>2 DEF SchedulerInv, HandlesInv, JoinSound
  <1>9. LiveInv' /\ CountInv' /\ CurrentInv' /\ VecInv'
    BY <1>1 DEF SchedulerInv, LiveInv, CountInv, CurrentInv, VecInv, Polling
  <1> QED
    BY <1>6, <1>7, <1>8, <1>9 DEF SchedulerInv

\* A spawned task is counted, and runs.
LEMMA SpawnStep == ASSUME NEW moved \in SUBSET (1..MaxTasks)
                   PROVE  SchedulerInv /\ Spawn(moved) => SchedulerInv'
  <1> SUFFICES ASSUME SchedulerInv, Spawn(moved) PROVE SchedulerInv'
    OBVIOUS
  <1> DEFINE n == Len(tasks) + 1
             own == (handles[Current] \ moved) \cup {n}
             kept == [handles EXCEPT ![Current] = own]
  <1>1. /\ pc = "running" /\ Len(tasks) < MaxTasks
        /\ moved \subseteq handles[Current]
        /\ tasks' = Append(tasks, "Some")
        /\ num_running' = num_running + 1
        /\ capacity' = IF PushMoves THEN 2 * capacity ELSE capacity
        /\ dangling' = (dangling \/ PushMoves)
        /\ handles' = Append(kept, moved)
        /\ waits' = Append(waits, 0)
        /\ UNCHANGED <<strategy, active, index, pc, yields, calls, finished, joined>>
    BY DEF Spawn, SpawnedHandle, CountAfterSpawn
  <1>2. Len(tasks) \in Nat /\ n \in 1..MaxTasks /\ n = Len(tasks) + 1
    BY <1>1, FuturesAssumption DEF SchedulerInv, TypeOK
  <1>3. Current \in Tasks /\ tasks[Current] = "Some"
    BY <1>1 DEF SchedulerInv, CurrentInv
  <1>4. /\ tasks' \in Seq({"Some", "None"}) /\ Len(tasks') = n /\ tasks'[n] = "Some"
        /\ \A k \in Tasks : tasks'[k] = tasks[k]
    BY <1>1, <1>2 DEF SchedulerInv, TypeOK, Tasks
  <1>5. Tasks' = Tasks \cup {n} /\ n \notin Tasks /\ Tasks \subseteq 1..MaxTasks
    BY <1>2, <1>4, FuturesAssumption DEF Tasks
  <1>6. Live' = Live \cup {n} /\ n \notin Live
    BY <1>4, <1>5 DEF Live
  <1>7. own \subseteq Tasks' /\ own \subseteq 1..MaxTasks
    BY <1>2, <1>3, <1>5 DEF SchedulerInv, HandlesInv, TypeOK
  <1>8. /\ kept \in Seq(SUBSET (1..MaxTasks)) /\ Len(kept) = Len(tasks)
        /\ \A k \in Tasks : kept[k] = IF k = Current THEN own ELSE handles[k]
    BY <1>3, <1>7 DEF SchedulerInv, TypeOK, Tasks
  <1> HIDE DEF own, kept, n
  <1>9. /\ handles' \in Seq(SUBSET (1..MaxTasks)) /\ Len(handles') = n
        /\ handles'[n] = moved
        /\ \A k \in Tasks : handles'[k] = kept[k]
    BY <1>1, <1>2, <1>8 DEF Tasks
  <1>10. /\ waits' \in Seq(0..MaxTasks) /\ Len(waits') = n
         /\ waits'[n] = 0
         /\ \A k \in Tasks : waits'[k] = waits[k]
    BY <1>1, <1>2, FuturesAssumption DEF SchedulerInv, TypeOK, Tasks
  <1>11. IsFiniteSet(Live) /\ num_running = Cardinality(Live)
    BY <1>1, LiveFinite DEF SchedulerInv, TypeOK, CountInv, Polling
  <1>12. Cardinality(Live') = num_running'
    BY <1>1, <1>6, <1>11, FS_AddElement
  <1>13. num_running' \in 0..MaxTasks
    BY <1>1, <1>2, <1>11, LiveFinite, FuturesAssumption DEF SchedulerInv, TypeOK
  <1>14. capacity' \in Nat /\ capacity' >= capacity /\ capacity >= MinCapacity
    <2>1. Len(tasks) > 0
      BY <1>2, <1>3 DEF Tasks
    <2> QED
      BY <1>1, <2>1, FuturesAssumption DEF SchedulerInv, TypeOK, VecInv
  <1>15. TypeOK'
    BY <1>1, <1>2, <1>4, <1>5, <1>9, <1>10, <1>13, <1>14 DEF SchedulerInv, TypeOK, PushMoves
  <1>16. HandlesInv'
    <2>1. moved \subseteq Tasks
      BY <1>1, <1>3 DEF SchedulerInv, HandlesInv
    <2>2. \A k \in Tasks : handles'[k] \subseteq Tasks'
      BY <1>5, <1>7, <1>8, <1>9 DEF SchedulerInv, HandlesInv
    <2>3. \A k \in Tasks : waits'[k] \in Tasks' \cup {0}
      BY <1>5, <1>10 DEF SchedulerInv, HandlesInv
    <2> QED
      BY <1>5, <1>9, <1>10, <2>1, <2>2, <2>3 DEF HandlesInv
  <1>17. n \notin finished
    BY <1>5 DEF SchedulerInv, TypeOK
  <1>18. LiveInv' /\ CountInv'
    BY <1>1, <1>5, <1>6, <1>12, <1>17 DEF SchedulerInv, LiveInv, CountInv, Polling
  <1>19. CurrentInv'
    BY <1>1, <1>3, <1>4, <1>5 DEF CurrentInv, Current
  <1>20. VecInv'
    BY <1>1, <1>2, <1>4, <1>14, FuturesAssumption DEF SchedulerInv, VecInv, PushMoves, TypeOK
  <1>21. AllComplete' /\ JoinSound'
    BY <1>1 DEF SchedulerInv, AllComplete, JoinSound
  <1> QED
    BY <1>15, <1>16, <1>18, <1>19, <1>20, <1>21 DEF SchedulerInv

\* An await goes on at once when its handle is Ready, and suspends the task if not.
LEMMA AwaitStep == ASSUME NEW j \in 1..MaxTasks
                   PROVE  SchedulerInv /\ Await(j) => SchedulerInv'
  <1> SUFFICES ASSUME SchedulerInv, Await(j) PROVE SchedulerInv'
    OBVIOUS
  <1>1. /\ pc = "running" /\ j \in handles[Current]
        /\ handles' = [handles EXCEPT ![Current] = handles[Current] \ {j}]
        /\ UNCHANGED <<strategy, active, tasks, num_running, capacity, index, dangling, yields,
                       calls, finished>>
    BY DEF Await
  <1>2. Current \in Tasks /\ tasks[Current] = "Some" /\ j \in Tasks
    BY <1>1 DEF SchedulerInv, CurrentInv, HandlesInv
  <1>3. Tasks' = Tasks /\ Live' = Live
    BY <1>1 DEF Tasks, Live
  <1>4. /\ handles' \in Seq(SUBSET (1..MaxTasks)) /\ Len(handles') = Len(handles)
        /\ \A k \in Tasks : handles'[k] \subseteq handles[k]
    BY <1>1, <1>2 DEF SchedulerInv, TypeOK, Tasks
  <1>5. /\ pc' \in Polling
        /\ pc' = "running" => pc = "running"
        /\ joined' \subseteq finished
        /\ waits' \in Seq(0..MaxTasks) /\ Len(waits') = Len(waits)
        /\ \A k \in Tasks : waits'[k] \in Tasks \cup {0}
    <2>1. CASE JoinReady(j)
      <3>1. joined' = joined \cup {j} /\ UNCHANGED <<waits, pc>>
        BY <2>1 DEF Await
      <3>2. j \in finished
        BY <1>1, <1>2, <2>1, ReadyMeansFinished DEF Polling
      <3> QED
        BY <1>1, <3>1, <3>2 DEF SchedulerInv, JoinSound, HandlesInv, TypeOK, Polling
    <2>2. CASE ~JoinReady(j)
      <3>1. waits' = [waits EXCEPT ![Current] = j] /\ pc' = "loop" /\ joined' = joined
        BY <2>2 DEF Await
      <3>2. waits' \in Seq(0..MaxTasks) /\ Len(waits') = Len(waits)
        BY <1>2, <3>1 DEF SchedulerInv, TypeOK, Tasks
      <3>3. \A k \in Tasks : waits'[k] \in Tasks \cup {0}
        BY <1>2, <3>1 DEF SchedulerInv, TypeOK, HandlesInv, Tasks
      <3> QED
        BY <3>1, <3>2, <3>3 DEF SchedulerInv, JoinSound, Polling
    <2> QED
      BY <2>1, <2>2
  <1>6. joined' \subseteq 1..MaxTasks
    BY <1>5, FuturesAssumption DEF SchedulerInv, TypeOK, Tasks
  <1>7. TypeOK'
    BY <1>1, <1>3, <1>4, <1>5, <1>6 DEF SchedulerInv, TypeOK, Polling
  <1>8. HandlesInv' /\ JoinSound'
    BY <1>1, <1>3, <1>4, <1>5 DEF SchedulerInv, HandlesInv, JoinSound
  <1>9. LiveInv' /\ CountInv' /\ CurrentInv'
    BY <1>1, <1>2, <1>3, <1>5
    DEF SchedulerInv, LiveInv, CountInv, CurrentInv, Current, Polling
  <1>10. VecInv' /\ AllComplete'
    BY <1>1, <1>5 DEF SchedulerInv, VecInv, AllComplete, Polling
  <1> QED
    BY <1>7, <1>8, <1>9, <1>10 DEF SchedulerInv

\* A yield ends the poll and leaves the task in the list.
LEMMA YieldStep == SchedulerInv /\ YieldNow => SchedulerInv'
  <1> SUFFICES ASSUME SchedulerInv, YieldNow PROVE SchedulerInv'
    OBVIOUS
  <1>1. /\ pc = "running" /\ yields < MaxYields /\ yields' = yields + 1 /\ pc' = "loop"
        /\ UNCHANGED <<strategy, active, tasks, num_running, capacity, index, dangling, handles,
                       waits, calls, finished, joined>>
    BY DEF YieldNow
  <1>2. Tasks' = Tasks /\ Live' = Live
    BY <1>1 DEF Tasks, Live
  <1>3. TypeOK'
    BY <1>1, <1>2, FuturesAssumption DEF SchedulerInv, TypeOK
  <1>4. HandlesInv' /\ JoinSound'
    BY <1>1, <1>2 DEF SchedulerInv, HandlesInv, JoinSound
  <1>5. LiveInv' /\ CountInv' /\ CurrentInv' /\ VecInv' /\ AllComplete'
    BY <1>1, <1>2
    DEF SchedulerInv, LiveInv, CountInv, CurrentInv, VecInv, AllComplete, Polling
  <1> QED
    BY <1>3, <1>4, <1>5 DEF SchedulerInv

\* A step that changes nothing keeps the invariant.
LEMMA StutterStep == SchedulerInv /\ UNCHANGED vars => SchedulerInv'
  <1> SUFFICES ASSUME SchedulerInv, UNCHANGED vars PROVE SchedulerInv'
    OBVIOUS
  <1>1. Tasks' = Tasks /\ Live' = Live /\ Current' = Current
    BY DEF vars, Tasks, Live, Current
  <1>2. TypeOK' /\ HandlesInv' /\ JoinSound'
    BY <1>1 DEF vars, SchedulerInv, TypeOK, HandlesInv, JoinSound
  <1>3. LiveInv' /\ CountInv' /\ CurrentInv' /\ VecInv' /\ AllComplete'
    BY <1>1
    DEF vars, SchedulerInv, LiveInv, CountInv, CurrentInv, VecInv, AllComplete
  <1> QED
    BY <1>2, <1>3 DEF SchedulerInv

\* The invariant of the scheduler: the count, the list, the handles and the
\* Vec agree in every state of every harness.
THEOREM SchedulerInvariant == Spec => []SchedulerInv
  <1>1. SchedulerInv /\ [Next]_vars => SchedulerInv'
    BY BlockOnStep, PanicStep, PickStep, ReadyStep, ReturnStep, SpawnStep, AwaitStep,
       YieldStep, StutterStep
    DEF Next
  <1> QED
    BY InitInv, <1>1, PTL DEF Spec

\* Every variable of the executor keeps its type.
THEOREM TypeCorrect == Spec => []TypeOK
  <1>1. SchedulerInv => TypeOK
    BY DEF SchedulerInv
  <1> QED
    BY SchedulerInvariant, <1>1, PTL

\* num_running, which Scheduler::spawn and Scheduler::run keep separately, is
\* the number of tasks that have not completed, however they interleave.
THEOREM CountExact == Spec => []RunningCount
  <1>1. SchedulerInv => RunningCount
    BY DEF SchedulerInv, LiveInv, CountInv, RunningCount, Polling
  <1> QED
    BY SchedulerInvariant, <1>1, PTL

\* block_on_with_spawn returns only when all the tasks have completed.
THEOREM ReturnsComplete == Spec => []AllComplete
  <1>1. SchedulerInv => AllComplete
    BY DEF SchedulerInv
  <1> QED
    BY SchedulerInvariant, <1>1, PTL

\* Awaiting a JoinHandle waits for the task it was made for.
THEOREM JoinWaits == Spec => []JoinSound
  <1>1. SchedulerInv => JoinSound
    BY DEF SchedulerInv
  <1> QED
    BY SchedulerInvariant, <1>1, PTL

\* Scheduler::run polls no future that has returned Ready.
THEOREM PollsOnlyRunning == Spec => []NeverRepolled
  <1>1. SchedulerInv => NeverRepolled
    BY DEF SchedulerInv, CurrentInv, LiveInv, Live, NeverRepolled, Polling
  <1> QED
    BY SchedulerInvariant, <1>1, PTL

\* A spawn that moves the Vec puts its task into the upper half of the new
\* buffer, alone; one that does not leaves the tasks there as they are.
LEMMA StaleSpawn ==
    ASSUME SchedulerInv, StaleOnlyInOwnPoll, NEW moved \in SUBSET (1..MaxTasks), Spawn(moved)
    PROVE  StaleOnlyInOwnPoll'
  <1> DEFINE n == Len(tasks) + 1
  <1>1. /\ pc = "running" /\ tasks' = Append(tasks, "Some") /\ waits' = Append(waits, 0)
        /\ capacity' = IF PushMoves THEN 2 * capacity ELSE capacity
        /\ dangling' = (dangling \/ PushMoves)
        /\ UNCHANGED <<index, pc, finished>>
    BY DEF Spawn
  <1>2. /\ Len(tasks) \in Nat /\ capacity \in Nat /\ Len(waits) = Len(tasks)
        /\ tasks \in Seq({"Some", "None"}) /\ waits \in Seq(0..MaxTasks) /\ finished \subseteq Tasks
    BY DEF SchedulerInv, TypeOK
  <1>3. Current \in Tasks /\ capacity >= MinCapacity
    BY <1>1 DEF SchedulerInv, CurrentInv, VecInv, Tasks
  <1>4. Tasks' = Tasks \cup {n} /\ n \notin Tasks /\ Current' = Current
    BY <1>1, <1>2 DEF Tasks, Current
  <1>5. waits'[n] = 0 /\ \A i \in Tasks : waits'[i] = waits[i]
    BY <1>1, <1>2 DEF Tasks
  <1>6. n # Current /\ n \notin finished
    BY <1>2, <1>3, <1>4
  <1>7. CASE PushMoves
    <2>1. capacity = Len(tasks) /\ capacity' = 2 * Len(tasks)
      BY <1>1, <1>7 DEF PushMoves
    <2>2. 2 * n > capacity' /\ 2 * MinCapacity <= capacity'
      BY <1>2, <1>3, <2>1, FuturesAssumption
    <2>3. \A i \in Tasks : ~(2 * i > capacity')
      BY <1>2, <2>1 DEF Tasks
    <2> QED
      BY <1>1, <1>4, <1>5, <1>6, <2>2, <2>3 DEF StaleOnlyInOwnPoll
  <1>8. CASE ~PushMoves
    <2>1. capacity' = capacity /\ dangling' = dangling /\ finished' = finished
      BY <1>1, <1>8 DEF SchedulerInv, TypeOK
    <2>2. SUFFICES ASSUME dangling
                   PROVE  /\ 2 * MinCapacity <= capacity
                          /\ \E i \in Tasks \cup {n} : 2 * i > capacity
                          /\ \A i \in Tasks \cup {n} :
                                2 * i > capacity => i # Current /\ i \notin finished /\ waits'[i] = 0
      <3> HIDE DEF n
      <3> QED BY <1>4, <2>1, Zenon DEF StaleOnlyInOwnPoll
    <2>3. /\ 2 * MinCapacity <= capacity
          /\ \E i \in Tasks : 2 * i > capacity
          /\ \A i \in Tasks : 2 * i > capacity => i # Current /\ i \notin finished /\ waits[i] = 0
      BY <1>1, <2>2 DEF StaleOnlyInOwnPoll
    <2> HIDE DEF n
    <2> QED
      BY <1>5, <1>6, <2>3
  <1> QED
    BY <1>7, <1>8

\* No other step makes the pointer stale, and every turn of the loop renews it.
LEMMA StaleNext == SchedulerInv /\ StaleOnlyInOwnPoll /\ [Next]_vars => StaleOnlyInOwnPoll'
  <1> SUFFICES ASSUME SchedulerInv, StaleOnlyInOwnPoll, [Next]_vars PROVE StaleOnlyInOwnPoll'
    OBVIOUS
  <1>1. CASE BlockOnWithSpawn \/ SpawnOutside \/ Return \/ YieldNow \/ Nested
             \/ \E i \in 0..MaxTasks - 1 : Pick(i)
    <2>1. dangling' = FALSE \/ pc' \notin {"running", "undefined"}
      BY <1>1 DEF BlockOnWithSpawn, SpawnOutside, Return, YieldNow, Nested, Pick
    <2> QED
      BY <2>1 DEF StaleOnlyInOwnPoll
  <1>2. CASE Ready
    <2>1. /\ pc = "running" /\ finished' = finished \cup {Current}
          /\ UNCHANGED <<capacity, index, dangling, waits>>
          /\ dangling => UNCHANGED tasks
          /\ ~dangling => pc' = "loop"
      BY <1>2 DEF Ready
    <2>2. CASE dangling
      <3>1. Tasks' = Tasks /\ Current' = Current
        BY <2>1, <2>2 DEF Tasks, Current
      <3> QED
        BY <2>1, <2>2, <3>1 DEF StaleOnlyInOwnPoll
    <2>3. CASE ~dangling
      BY <2>1, <2>3 DEF StaleOnlyInOwnPoll
    <2> QED
      BY <2>2, <2>3
  <1>3. ASSUME NEW j \in 1..MaxTasks, Await(j) PROVE StaleOnlyInOwnPoll'
    <2>1. /\ pc = "running" /\ UNCHANGED <<tasks, capacity, index, dangling, finished>>
          /\ pc' = "loop" \/ UNCHANGED <<pc, waits>>
      BY <1>3 DEF Await
    <2>2. Tasks' = Tasks /\ Current' = Current
      BY <2>1 DEF Tasks, Current
    <2> QED
      BY <2>1, <2>2 DEF StaleOnlyInOwnPoll
  <1>4. CASE UNCHANGED vars
    BY <1>4 DEF vars, StaleOnlyInOwnPoll, Tasks, Current
  <1> QED
    BY <1>1, <1>2, <1>3, <1>4, StaleSpawn DEF Next

\* The pointer kept across a poll is stale only while the task is polled that
\* has itself spawned beyond the old buffer, for any number of tasks and any
\* first capacity: no move of the Vec by another task, and none in an earlier
\* poll, is ever met.
THEOREM PointerRenewed == Spec => []StaleOnlyInOwnPoll
  <1>1. Init => StaleOnlyInOwnPoll
    BY DEF Init, StaleOnlyInOwnPoll
  <1> QED
    BY <1>1, StaleNext, SchedulerInvariant, PTL DEF Spec

=============================================================================
