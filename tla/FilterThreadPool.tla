--------------------------- MODULE FilterThreadPool ---------------------------
(***************************************************************************)
(* FilterThreadPool: worker threads that live as long as the pool.  Each   *)
(* has a mutex and a condition variable of its own, shared with the one    *)
(* thread that calls run and at last the destructor.  The function and the *)
(* number of tasks are plain members that no mutex protects.               *)
(*                                                                         *)
(* A worker keeps its mutex while it applies the function; every other     *)
(* critical section of the code is one step here, enabled when the worker  *)
(* does not hold the mutex.  cv.wait releases the mutex and blocks in one  *)
(* step; a notification wakes only a thread that is blocked, and a blocked *)
(* thread may also wake on its own.                                        *)
(***************************************************************************)
EXTENDS Integers, FiniteSets

CONSTANTS
  NumThreads,     (* num_threads of the constructor, 12 in the code  *)
  TaskCounts,     (* the num_tasks a caller may pass                 *)
  MaxRuns         (* bound: calls of run                             *)

SizesAssumption ==
  /\ NumThreads \in Nat \ {0} /\ TaskCounts \subseteq 0 .. 1000
  /\ MaxRuns \in Nat
ASSUME SizesAssumption

Threads  == 0 .. NumThreads - 1
AllTasks == UNION {0 .. n - 1 : n \in TaskCounts}

VARIABLES
  pc, i,         (* where the calling thread is, and its loop index      *)
  runs,          (* calls of run so far; also names the member function  *)
  numTasks,      (* the member num_tasks                                 *)
  worker,        (* where each worker thread is                          *)
  begin,         (* the local begin of each worker                       *)
  hasFunction, finished, destructed,
  applied        (* how often the function was applied to each task      *)

callerVars == <<pc, i, runs, numTasks>>
flags      == <<hasFunction, finished, destructed>>
vars == <<callerVars, worker, begin, flags, applied>>

Holding  == {"begin", "apply", "finish"}       (* the worker holds its mutex *)
Unlocked(t) == worker[t] \notin Holding

Init ==
  /\ pc = "construct" /\ i = 0 /\ runs = 0 /\ numTasks = 0
  /\ worker = [t \in Threads |-> "unborn"]
  /\ begin = [t \in Threads |-> 0]
  /\ hasFunction = [t \in Threads |-> FALSE]
  /\ finished = [t \in Threads |-> FALSE]
  /\ destructed = [t \in Threads |-> FALSE]
  /\ applied = [x \in AllTasks |-> 0]

-----------------------------------------------------------------------------
(* threads.size(), which grows while the constructor starts the threads. *)
ThreadCount == Cardinality({t \in Threads : worker[t] # "unborn"})

BeginIdxCeil(t) ==   \* mutant: every range has the rounded-up length
  t * ((numTasks + ThreadCount - 1) \div ThreadCount)
BeginIdx(t) ==
  LET base == numTasks \div ThreadCount
      rem  == numTasks % ThreadCount
  IN  t * base + IF t < rem THEN t ELSE rem

Ready(t) == hasFunction[t] /\ ~finished[t]

(* Lock the mutex and test the predicate of cv.wait. *)
Enter(t) ==
  /\ worker[t] = "lock"
  /\ worker' = [worker EXCEPT ![t] = IF destructed[t] THEN "exited"
                                     ELSE IF Ready(t) THEN "begin" ELSE "asleep"]
  /\ UNCHANGED <<callerVars, begin, flags, applied>>

TakeBegin(t) ==
  /\ worker[t] = "begin"
  /\ begin' = [begin EXCEPT ![t] = BeginIdx(t)]
  /\ worker' = [worker EXCEPT ![t] = "apply"]
  /\ UNCHANGED <<callerVars, flags, applied>>

Apply(t) ==
  /\ worker[t] = "apply"
  /\ applied' = [x \in AllTasks |->
                   IF x >= begin[t] /\ x < BeginIdx(t + 1) THEN applied[x] + 1 ELSE applied[x]]
  /\ worker' = [worker EXCEPT ![t] = "finish"]
  /\ UNCHANGED <<callerVars, begin, flags>>

(* finished = true and lk.unlock(). *)
Finish(t) ==
  /\ worker[t] = "finish"
  /\ finished' = [finished EXCEPT ![t] = TRUE]
  /\ worker' = [worker EXCEPT ![t] = "notify"]
  /\ UNCHANGED <<callerVars, begin, hasFunction, destructed, applied>>

(* cv.notify_one() of the worker, which runs after the unlock: only the    *)
(* caller can be blocked on this condition variable then.                  *)
CallerUnwoken(t) == pc   \* mutant: the worker does not notify
CallerWoken(t) == IF pc = "asleep" /\ i = t THEN "await" ELSE pc
Notify(t) ==
  /\ worker[t] = "notify"
  /\ pc' = CallerWoken(t)
  /\ worker' = [worker EXCEPT ![t] = "lock"]
  /\ UNCHANGED <<i, runs, numTasks, begin, flags, applied>>

-----------------------------------------------------------------------------
(* The constructor starts the threads one by one; they run at once. *)
Construct ==
  /\ pc = "construct"
  /\ worker' = [worker EXCEPT ![i] = "lock"]
  /\ IF i + 1 < NumThreads THEN i' = i + 1 /\ UNCHANGED pc
                           ELSE i' = 0 /\ pc' = "idle"
  /\ UNCHANGED <<runs, numTasks, begin, flags, applied>>

(* The loops of run and of the destructor: the step after thread i. *)
Advance(next) == IF i + 1 < NumThreads THEN i' = i + 1 /\ UNCHANGED pc
                                       ELSE i' = 0 /\ pc' = next

(* run: the two members are assigned one after the other, without a lock. *)
CallRun ==
  /\ pc = "idle" /\ runs < MaxRuns
  /\ runs' = runs + 1
  /\ pc' = "assign"
  /\ UNCHANGED <<i, numTasks, worker, begin, flags, applied>>

AssignNumTasks ==
  /\ pc = "assign"
  /\ numTasks' \in TaskCounts
  /\ applied' = [x \in AllTasks |-> 0]
  /\ pc' = "post"
  /\ UNCHANGED <<i, runs, worker, begin, flags>>

PostedKept(t) == finished[t]   \* mutant: finished is not reset
Posted(t) == FALSE
Post ==
  /\ pc = "post" /\ Unlocked(i)
  /\ hasFunction' = [hasFunction EXCEPT ![i] = TRUE]
  /\ finished' = [finished EXCEPT ![i] = Posted(i)]
  /\ Advance("signal")
  /\ UNCHANGED <<runs, numTasks, worker, begin, destructed, applied>>

(* cv.notify_one() of the caller wakes worker i if it is blocked. *)
WorkerUnwoken(t) == worker   \* mutant: the caller does not notify
WorkerWoken(t) == IF worker[t] = "asleep" THEN [worker EXCEPT ![t] = "lock"] ELSE worker
Signal ==
  /\ pc = "signal"
  /\ worker' = WorkerWoken(i)
  /\ Advance("await")
  /\ UNCHANGED <<runs, numTasks, begin, flags, applied>>

(* Lock the mutex of worker i and test finished[i]. *)
AnsweredPosted(t) == hasFunction[t]   \* mutant: waits for the wrong flag
Answered(t) == finished[t]
Await ==
  /\ pc = "await" /\ Unlocked(i)
  /\ IF Answered(i) THEN Advance("idle") ELSE pc' = "asleep" /\ UNCHANGED i
  /\ UNCHANGED <<runs, numTasks, worker, begin, flags, applied>>

(* The destructor. *)
CallDestructor ==
  /\ pc = "idle"
  /\ pc' = "mark"
  /\ UNCHANGED <<i, runs, numTasks, worker, begin, flags, applied>>

Mark ==
  /\ pc = "mark" /\ Unlocked(i)
  /\ destructed' = [destructed EXCEPT ![i] = TRUE]
  /\ Advance("wake")
  /\ UNCHANGED <<runs, numTasks, worker, begin, hasFunction, finished, applied>>

Wake ==
  /\ pc = "wake"
  /\ worker' = WorkerWoken(i)
  /\ Advance("join")
  /\ UNCHANGED <<runs, numTasks, begin, flags, applied>>

JoinThread ==
  /\ pc = "join" /\ worker[i] = "exited"
  /\ Advance("destroyed")
  /\ UNCHANGED <<runs, numTasks, worker, begin, flags, applied>>

-----------------------------------------------------------------------------
(* A blocked thread wakes without a notification. *)
WakeSpuriously ==
  /\ \/ /\ pc = "asleep" /\ pc' = "await" /\ UNCHANGED worker
     \/ /\ \E t \in Threads : worker[t] = "asleep" /\ worker' = [worker EXCEPT ![t] = "lock"]
        /\ UNCHANGED pc
  /\ UNCHANGED <<i, runs, numTasks, begin, flags, applied>>

Worker(t) == Enter(t) \/ TakeBegin(t) \/ Apply(t) \/ Finish(t) \/ Notify(t)
Run       == AssignNumTasks \/ Post \/ Signal \/ Await
Destruct  == Mark \/ Wake \/ JoinThread
Destroyed == pc = "destroyed" /\ UNCHANGED vars

Next ==
  \/ Construct \/ CallRun \/ Run \/ CallDestructor \/ Destruct
  \/ \E t \in Threads : Worker(t)
  \/ WakeSpuriously
  \/ Destroyed

Spec == Init /\ [][Next]_vars

(* Every thread is scheduled: a call that has begun goes on when it can, and *)
(* so does every worker.  Nobody is obliged to call run or the destructor,   *)
(* and a blocked thread need not wake without a notification.                *)
FairSpec ==
  Spec /\ WF_vars(Run) /\ WF_vars(Destruct) /\ \A t \in Threads : WF_vars(Worker(t))

-----------------------------------------------------------------------------
(* Every variable has its type, and a worker's first task is one of the call *)
(* or the one past its end.                                                  *)
ControlTypeOK ==
  /\ pc \in {"construct", "idle", "assign", "post", "signal", "await", "asleep",
             "mark", "wake", "join", "destroyed"}
  /\ i \in Threads
  /\ worker \in [Threads -> Holding \cup {"unborn", "lock", "asleep", "notify", "exited"}]
  /\ hasFunction \in [Threads -> BOOLEAN]
  /\ finished \in [Threads -> BOOLEAN]
  /\ destructed \in [Threads -> BOOLEAN]
TypeOK ==
  /\ ControlTypeOK
  /\ runs \in 0 .. MaxRuns /\ numTasks \in TaskCounts \cup {0}
  /\ begin \in [Threads -> Nat]
  /\ \A t \in Threads : worker[t] \in {"apply", "finish"} => begin[t] \in 0 .. numTasks
  /\ applied \in [AllTasks -> Nat]

(* function and num_tasks are members without a lock.  run overwrites them,  *)
(* and the destructor ends their life, only when no worker reads them or is  *)
(* about to: none holds its mutex, and none that takes it finds work to do.  *)
MembersNotShared ==
  pc \in {"construct", "idle", "assign", "mark", "wake", "join", "destroyed"} =>
    \A t \in Threads : Unlocked(t) /\ ~(hasFunction[t] /\ ~finished[t])

(* The calls of run keep the promise of ParallelFor: each task is done once, *)
(* and all are done when run returns.                                        *)
Running   == pc \in {"post", "signal", "await", "asleep"}
Remaining == IF \E x \in AllTasks : applied[x] > IF x < numTasks THEN 1 ELSE 0
             THEN {"applied too often"}
             ELSE {x \in 0 .. numTasks - 1 : applied[x] = 0}
For == INSTANCE ParallelFor WITH running <- Running, remaining <- Remaining
ImplementsParallelFor == For!Spec

(* No wakeup is lost: a call of run returns. *)
RunReturns == (pc = "assign") ~> (pc = "idle")

(* The destructor joins every worker, whatever each of them was doing. *)
DestructorReturns == (pc = "mark") ~> (pc = "destroyed")

-----------------------------------------------------------------------------
(* Why no worker can read the members while run changes them: a worker      *)
(* holds its mutex only for work that was posted and not yet answered, and  *)
(* the caller leaves its last loop only after every answer.                 *)
HoldsForWork == \A t \in Threads : ~Unlocked(t) => Ready(t)

AnsweredSoFar ==
  /\ pc \in {"construct", "idle", "assign", "mark", "wake", "join", "destroyed"} =>
       \A t \in Threads : ~Ready(t)
  /\ pc = "post" => \A t \in Threads : t >= i => ~Ready(t)
  /\ pc \in {"await", "asleep"} => \A t \in Threads : t < i => ~Ready(t)

IInv == ControlTypeOK /\ HoldsForWork /\ AnsweredSoFar

(* Why each task is done once: the workers that have applied the function in *)
(* this call, and what applied has to be then.                               *)
TasksOf(t)   == {x \in AllTasks : BeginIdx(t) <= x /\ x < BeginIdx(t + 1)}
PostedTo(t)  == Running /\ (pc = "post" => t < i)
HasApplied(t) == PostedTo(t) /\ (finished[t] \/ worker[t] = "finish")

TasksExact ==
  /\ \A t \in Threads : (pc = "construct" => t < i) => worker[t] # "unborn"
  /\ pc \in {"idle", "assign"} => i = 0
  /\ \A t \in Threads : PostedTo(t) => hasFunction[t]
  /\ \A t \in Threads : worker[t] \in {"apply", "finish"} => begin[t] = BeginIdx(t)
  /\ Running => \A x \in AllTasks :
       applied[x] = IF \E t \in Threads : HasApplied(t) /\ x \in TasksOf(t) THEN 1 ELSE 0
  /\ ~Running => \A x \in AllTasks : applied[x] = IF x < numTasks THEN 1 ELSE 0

ExactIInv == IInv /\ TypeOK /\ TasksExact
=============================================================================
