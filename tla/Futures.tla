------------------------------ MODULE Futures ------------------------------
(***************************************************************************)
(* The executor that kani offers to harnesses of asynchronous code         *)
(* (library/kani/src/futures.rs): block_on_with_spawn, spawn, JoinHandle,  *)
(* yield_now and the scheduling strategies.                                *)
(*                                                                         *)
(* A task is a future that the scheduler polls; during a poll its body     *)
(* spawns tasks, awaits handles, yields or ends.  Tasks are numbered from  *)
(* 1, the index of a strategy from 0 as in the code.  A JoinHandle can be  *)
(* moved to a spawned task but not copied.                                 *)
(***************************************************************************)
EXTENDS Integers, Sequences, FiniteSets

CONSTANTS
    MaxTasks,     \* bound: tasks of one block_on_with_spawn
    MaxYields,    \* bound: yields of all of them
    MaxCalls,     \* bound: calls of block_on_with_spawn by the harness
    MinCapacity,  \* what a Vec allocates for its first element
    Strategies    \* the scheduling strategies of the harness

ASSUME FuturesAssumption ==
    /\ MaxTasks \in Nat \ {0}
    /\ MaxYields \in Nat
    /\ MaxCalls \in Nat
    /\ MinCapacity \in Nat \ {0}
    /\ Strategies \subseteq {"RoundRobin", "Any"}

VARIABLES
    strategy,     \* the SchedulingStrategy given to block_on_with_spawn
    active,       \* GLOBAL_EXECUTOR is Some
    tasks,        \* Scheduler.tasks: each entry is Some or None
    num_running,  \* Scheduler.num_running
    capacity,     \* the capacity of the Vec
    index,        \* RoundRobin.index
    dangling,     \* `task` in run() points into a buffer the Vec has left
    pc,           \* where the harness is
    handles,      \* the JoinHandles each task owns
    waits,        \* the task each task is suspended on, 0 for none
    yields,       \* yields so far
    calls,        \* calls so far
    finished,     \* the tasks whose future has returned Ready
    joined        \* the tasks some await has waited for

vars == <<strategy, active, tasks, num_running, capacity, index, dangling, pc,
          handles, waits, yields, calls, finished, joined>>

Tasks == 1..Len(tasks)
Live == {i \in Tasks : tasks[i] = "Some"}

(* The task that is polled.                                                *)
Current == index + 1

(* Every variable has its type.                                            *)
TypeOK ==
    /\ strategy \in Strategies
    /\ active \in BOOLEAN
    /\ tasks \in Seq({"Some", "None"}) /\ Len(tasks) <= MaxTasks
    /\ num_running \in 0..MaxTasks
    /\ capacity \in Nat
    /\ index \in Nat
    /\ dangling \in BOOLEAN
    /\ pc \in {"outside", "loop", "running", "undefined", "panicked"}
    /\ handles \in Seq(SUBSET (1..MaxTasks)) /\ Len(handles) = Len(tasks)
    /\ waits \in Seq(0..MaxTasks) /\ Len(waits) = Len(tasks)
    /\ yields \in 0..MaxYields
    /\ calls \in 0..MaxCalls
    /\ finished \subseteq Tasks
    /\ joined \subseteq 1..MaxTasks

Init ==
    /\ strategy \in Strategies
    /\ active = FALSE
    /\ tasks = <<>> /\ num_running = 0 /\ capacity = 0
    /\ index = 0 /\ dangling = FALSE
    /\ pc = "outside"
    /\ handles = <<>> /\ waits = <<>>
    /\ yields = 0 /\ calls = 0
    /\ finished = {} /\ joined = {}

-----------------------------------------------------------------------------
(* The harness.                                                            *)

(* block_on_with_spawn: a new Scheduler, whose block_on spawns the future  *)
(* it is given; the strategy is new too.                                   *)
BlockOnWithSpawn ==
    /\ pc = "outside" /\ calls < MaxCalls
    /\ ~active
    /\ active' = TRUE
    /\ tasks' = <<"Some">> /\ num_running' = 1 /\ capacity' = MinCapacity
    /\ index' = 0 /\ dangling' = FALSE
    /\ handles' = <<{}>> /\ waits' = <<0>>
    /\ yields' = 0 /\ calls' = calls + 1
    /\ finished' = {} /\ joined' = {}
    /\ pc' = "loop"
    /\ UNCHANGED strategy

(* spawn() finds no executor.                                              *)
SpawnOutside ==
    /\ pc = "outside" /\ ~active
    /\ pc' = "panicked"
    /\ UNCHANGED <<strategy, active, tasks, num_running, capacity, index, dangling,
                   handles, waits, yields, calls, finished, joined>>

-----------------------------------------------------------------------------
(* Scheduler::run.                                                         *)

\* Mutant: the last task is left out of the rotation.
NextButLast(n) == (index + 1) % (IF n > 1 THEN n - 1 ELSE n)

(* RoundRobin::pick_task                                                   *)
NextIndex(n) == (index + 1) % n

(* pick_task, of RoundRobin or of a strategy that returns kani::any() and  *)
(* lets the scheduler assume that the task is running.                     *)
Picks(i) ==
    \/ strategy = "RoundRobin" /\ i = NextIndex(Len(tasks))
    \/ strategy = "Any" /\ i \in 0..Len(tasks) - 1 /\ tasks[i + 1] = "Some"

\* Mutant: awaiting a handle does not wait.
AlwaysReady(j) == j \in Nat

(* JoinHandle::poll: whether it is Ready.                                  *)
JoinReady(j) == tasks[j] = "None"

\* Mutant: the pointer to the entry is not taken anew in every turn.
PickWithOldPointer(i) ==
    /\ pc = "loop" /\ num_running > 0
    /\ Picks(i)
    /\ index' = i
    /\ LET resumes == tasks[i + 1] = "Some" /\ (waits[i + 1] # 0 => JoinReady(waits[i + 1]))
       IN  /\ pc' = IF resumes THEN "running" ELSE "loop"
           /\ joined' = IF resumes THEN joined \cup ({waits[i + 1]} \ {0}) ELSE joined
           /\ waits' = IF resumes THEN [waits EXCEPT ![i + 1] = 0] ELSE waits
    /\ UNCHANGED <<strategy, active, tasks, num_running, capacity, dangling, handles, yields,
                   calls, finished>>

(* One turn of the loop up to the body of the task, whose entry is looked  *)
(* up anew: a task that has completed is passed over, one that awaits a    *)
(* handle polls it first and stays suspended while it is Pending.          *)
Pick(i) ==
    /\ pc = "loop" /\ num_running > 0
    /\ Picks(i)
    /\ index' = i /\ dangling' = FALSE
    /\ LET resumes == tasks[i + 1] = "Some" /\ (waits[i + 1] # 0 => JoinReady(waits[i + 1]))
       IN  /\ pc' = IF resumes THEN "running" ELSE "loop"
           /\ joined' = IF resumes THEN joined \cup ({waits[i + 1]} \ {0}) ELSE joined
           /\ waits' = IF resumes THEN [waits EXCEPT ![i + 1] = 0] ELSE waits
    /\ UNCHANGED <<strategy, active, tasks, num_running, capacity, handles, yields,
                   calls, finished>>

(* The body ends: poll returns Ready, the count goes down and the entry is *)
(* taken through `task`.  Where the Vec has moved since, that is a write   *)
(* through a dangling pointer: from there anything may happen, and Kani's  *)
(* pointer checks stop the harness.                                        *)
Ready ==
    /\ pc = "running"
    /\ num_running' = num_running - 1
    /\ finished' = finished \cup {Current}
    /\ \/ /\ dangling
          /\ pc' = "undefined"
          /\ UNCHANGED <<tasks, handles>>
       \/ /\ ~dangling
          /\ pc' = "loop"
          /\ tasks' = [tasks EXCEPT ![Current] = "None"]
          /\ handles' = [handles EXCEPT ![Current] = {}]
    /\ UNCHANGED <<strategy, active, capacity, index, dangling, waits, yields, calls,
                   joined>>

(* The loop ends, and the executor is dropped.  (The lists of the dropped  *)
(* scheduler are kept until the next call, to state what it did.)          *)
Return ==
    /\ pc = "loop" /\ num_running = 0
    /\ active' = FALSE
    /\ pc' = "outside"
    /\ UNCHANGED <<strategy, tasks, num_running, capacity, index, dangling, handles, waits,
                   yields, calls, finished, joined>>

-----------------------------------------------------------------------------
(* The body of the current task.                                           *)

(* The task that the JoinHandle of spawn() stands for.                     *)
SpawnedHandle == Len(tasks) + 1

(* num_running after Scheduler::spawn                                      *)
CountAfterSpawn == num_running + 1

(* Vec::push on a full Vec moves it to a buffer twice as large.            *)
PushMoves == Len(tasks) = capacity

(* spawn(): the handle goes to the current task, which may have moved some *)
(* of its handles into the new one.                                        *)
Spawn(moved) ==
    /\ pc = "running" /\ Len(tasks) < MaxTasks
    /\ moved \subseteq handles[Current]
    /\ tasks' = Append(tasks, "Some")
    /\ num_running' = CountAfterSpawn
    /\ capacity' = IF PushMoves THEN 2 * capacity ELSE capacity
    /\ dangling' = (dangling \/ PushMoves)
    /\ handles' = Append([handles EXCEPT ![Current] = (@ \ moved) \cup {SpawnedHandle}], moved)
    /\ waits' = Append(waits, 0)
    /\ UNCHANGED <<strategy, active, index, pc, yields, calls, finished, joined>>

(* `.await` of a handle: it goes on if the task has completed, and is      *)
(* suspended otherwise.                                                    *)
Await(j) ==
    /\ pc = "running"
    /\ j \in handles[Current]
    /\ handles' = [handles EXCEPT ![Current] = @ \ {j}]
    /\ \/ JoinReady(j) /\ joined' = joined \cup {j} /\ UNCHANGED <<waits, pc>>
       \/ ~JoinReady(j) /\ waits' = [waits EXCEPT ![Current] = j] /\ pc' = "loop"
                        /\ UNCHANGED joined
    /\ UNCHANGED <<strategy, active, tasks, num_running, capacity, index, dangling, yields,
                   calls, finished>>

(* yield_now().await: Pending at its first poll, Ready at the second.      *)
YieldNow ==
    /\ pc = "running" /\ yields < MaxYields
    /\ yields' = yields + 1
    /\ pc' = "loop"
    /\ UNCHANGED <<strategy, active, tasks, num_running, capacity, index, dangling, handles,
                   waits, calls, finished, joined>>

(* block_on_with_spawn from inside a task: its assertion fails.            *)
Nested ==
    /\ pc = "running" /\ active
    /\ pc' = "panicked"
    /\ UNCHANGED <<strategy, active, tasks, num_running, capacity, index, dangling, handles,
                   waits, yields, calls, finished, joined>>

Next ==
    \/ BlockOnWithSpawn \/ SpawnOutside
    \/ \E i \in 0..MaxTasks - 1 : Pick(i)
    \/ Ready \/ Return
    \/ \E moved \in SUBSET (1..MaxTasks) : Spawn(moved)
    \/ \E j \in 1..MaxTasks : Await(j)
    \/ YieldNow \/ Nested

Spec == Init /\ [][Next]_vars

(* The executor is one thread, which runs unless it has stopped.           *)
FairSpec == Spec /\ WF_vars(Next)

-----------------------------------------------------------------------------

(* While the loop of Scheduler::run is on, num_running counts the entries  *)
(* that are Some, and these are the tasks that have not returned Ready:    *)
(* the count kept by spawn() and by run() separately, from inside and from *)
(* outside a poll, never drifts from the Vec.                              *)
RunningCount ==
    pc \in {"loop", "running"} =>
        /\ num_running = Cardinality(Live)
        /\ Live = Tasks \ finished

(* "Polls the given future and the tasks it may spawn until all of them    *)
(* complete" (block_on_with_spawn): when it returns, every task has.       *)
AllComplete == pc = "outside" => finished = Tasks

(* Awaiting a JoinHandle "will wait for the spawned task to complete": no  *)
(* await returns before the task its handle was made for has.              *)
JoinSound == joined \subseteq finished

(* Scheduler::run never polls a future again that has returned Ready.      *)
NeverRepolled == pc = "running" => Current \in Tasks \ finished

(* The pointer that run() keeps across a poll is stale only within the poll *)
(* of the task that itself spawned the tasks the old buffer had no room    *)
(* for: they, the ones in the upper half of the new buffer, have never     *)
(* been polled.  A task that yields or awaits between spawning and ending  *)
(* is safe, however often others have moved the Vec, and so is every       *)
(* harness whose tasks fit into the first buffer.                          *)
StaleOnlyInOwnPoll ==
    dangling /\ pc \in {"running", "undefined"} =>
        /\ 2 * MinCapacity <= capacity
        /\ \E i \in Tasks : 2 * i > capacity
        /\ \A i \in Tasks : 2 * i > capacity => i # Current /\ i \notin finished /\ waits[i] = 0

(* RoundRobin polls every task until it completes, however tasks that are  *)
(* spawned meanwhile change the rotation: block_on_with_spawn ends.        *)
RoundRobinEnds ==
    pc = "loop" /\ strategy = "RoundRobin" ~> pc \in {"outside", "undefined", "panicked"}

=============================================================================
